----------------------------- MODULE DockerImage -----------------------------
(***************************************************************************)
(* DockerImageScanner (scanners/docker/image.py) in front of the matcher:  *)
(* inspect the image a reference names, let Syft inventory the image the   *)
(* reference names, match the inventory.  Somebody else may build or tag   *)
(* an image between the two calls.                                         *)
(***************************************************************************)
EXTENDS OsvMatch

CONSTANTS
  Images,        \* image ids in the local Docker store
  Inventory      \* image |-> the CycloneDX document Syft makes of it

ASSUME InventoryAssumption == \A i \in Images : DocumentOK(Inventory[i])

NoImage == "none"

VARIABLES
  step,         \* where DockerImageScanner.scan is; "sbom" when it does not run
  tag,          \* the image the reference names now
  imageId,      \* the id docker image inspect printed
  inventoried   \* history: the image Syft read

imageVars == <<step, tag, imageId, inventoried>>
allVars == <<vars, imageVars>>

ImageInit ==
  /\ Init
  /\ \/ step = "sbom" /\ tag = NoImage
     \/ step = "inspect" /\ tag \in Images /\ unread = <<>>
  /\ imageId = NoImage /\ inventoried = NoImage

\* No --image, a reference that is none, or a tool or an answer that is missing or unusable.
GiveUp(check, severity) ==
  /\ findings' = {Finding(check, severity, imageId, {})}
  /\ pc' = "done" /\ step' = "ended"
  /\ UNCHANGED <<osv, docVars, queryVars, poolVars, records, errors, tag>>

CheckTarget ==
  /\ step = "inspect"
  /\ GiveUp("image_target", "INFO") \/ GiveUp("image_target", "ERROR")
  /\ UNCHANGED <<imageId, inventoried>>

InspectImage ==
  /\ step = "inspect"
  /\ \/ GiveUp("image_inspect", "ERROR") /\ UNCHANGED <<imageId, inventoried>>
     \/ /\ imageId' = tag /\ step' = "syft"
        /\ UNCHANGED <<vars, tag, inventoried>>

RunSyft ==
  /\ step = "syft"
  /\ inventoried' = tag
  /\ \/ GiveUp("image_inventory", "ERROR")
     \/ LET doc == Inventory[tag]
        IN  /\ doc.readable
            /\ packages' = Merge(<<>>, doc.packages)
            /\ skipped' = doc.skipped
            /\ pc' = "packages" /\ step' = "match"
            /\ UNCHANGED <<osv, unread, queryVars, poolVars, records, errors, findings, tag>>
  /\ UNCHANGED imageId

\* docker build -t, docker tag, docker pull
Retag ==
  /\ step \in {"inspect", "syft"}
  /\ tag' \in Images \ {tag}
  /\ UNCHANGED <<vars, step, imageId, inventoried>>

Matching == step \in {"sbom", "match"} /\ UNCHANGED imageVars
MatchMain == Matching /\ Main
MatchThreads == Matching /\ Threads

Scan == CheckTarget \/ InspectImage \/ RunSyft

ImageNext == Scan \/ Retag \/ MatchMain \/ MatchThreads

ImageSpec ==
  /\ ImageInit /\ [][ImageNext]_allVars
  /\ WF_allVars(Scan) /\ WF_allVars(MatchMain) /\ WF_allVars(MatchThreads)

-----------------------------------------------------------------------------
\* docs/docker-scanning.md:209: findings include the "immutable image ID" of what
\* was inventoried, so that "rescans of the same tag" are distinguishable.
EvidenceNamesTheScannedImage ==
  step = "match" => imageId = inventoried
=============================================================================
