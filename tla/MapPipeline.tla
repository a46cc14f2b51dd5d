---------------------------- MODULE MapPipeline ----------------------------
(***************************************************************************)
(* From a batch to the map the robot localises on: the mapping job's       *)
(* result is fetched to the VM, validated there, and activated (vm.sh's    *)
(* rambla_map_fetch, rambla_map_validate and rambla_map_activate).         *)
(***************************************************************************)
EXTENDS MappingJob, FloodFill

CONSTANTS
    Names,         \* the names maps are staged under
    Images,        \* the pictures a map may show
    None

(* What map_saver_cli writes: at least one pixel, and levels up to maxval. *)
Picture == [p5 : BOOLEAN, width : Nat \ {0}, height : Nat \ {0},
            maxval : Nat \ {0}, negate : BOOLEAN, pixels : Seq(Nat)]

ASSUME PipelineAssumption == Images \subseteq Picture

VARIABLES
    staged,        \* the maps in ~/ros2_ws/maps
    active,        \* where the link `active' points
    toActivate     \* the map rambla_map_activate is at, or None

stageVars == <<staged, active, toActivate>>
pipelineVars == <<jobVars, fillVars, stageVars>>

PipelineInit ==
    /\ JobInit /\ FillInit
    /\ staged = [n \in Names |-> None]
    /\ active = None /\ toActivate = None

(* What scp has copied when it stops: all, or no image, or not the end of  *)
(* it, or nothing but the directory.                                       *)
Copies(map) ==
    {map, Absent, [map EXCEPT !.image = NoImage]}
    \cup {[map EXCEPT !.image.pixels = SubSeq(@, 1, n)] :
             n \in 0..Len(map.image.pixels)}

(* The operator gives one command after the other.                         *)
NoCommand == ~Filling /\ toActivate = None

(* main of validate_map.py: a map that is verified gets its coverage       *)
(* report; a coverage that cannot be computed is skipped and fails nothing.*)
ReportOn(map) ==
    IF Verified(map) /\ Readable(map.image) THEN BeginFill(map.image)
    ELSE UNCHANGED fillVars

(* A bound: maps are fetched when the last job's container has ended.  No  *)
(* job reads or writes what is staged.                                     *)
JobsOver == pc = "idle" /\ jobs = Jobs /\ orphans = {} /\ disk = volume

(* Mutant: a fetch replaces the map that is there.                         *)
FetchOver(b, name, image) ==
    /\ NoCommand /\ JobsOver
    /\ volume[b].map # NoMap
    /\ LET map == Artifact(Required, image)
       IN  \E copied \in Copies(map) :
              /\ staged' = [staged EXCEPT ![name] = copied]
              /\ IF copied = map THEN ReportOn(map) ELSE UNCHANGED fillVars
    /\ UNCHANGED <<jobVars, active, toActivate>>

(* rambla_map_fetch: never over a map that is there, and validated when    *)
(* everything was copied.                                                  *)
Fetch(b, name, image) ==
    /\ NoCommand /\ JobsOver
    /\ staged[name] = None
    /\ volume[b].map # NoMap
    /\ LET map == Artifact(Required, image)
       IN  \E copied \in Copies(map) :
              /\ staged' = [staged EXCEPT ![name] = copied]
              /\ IF copied = map THEN ReportOn(map) ELSE UNCHANGED fillVars
    /\ UNCHANGED <<jobVars, active, toActivate>>

(* rambla_map_validate, on its own or first thing of rambla_map_activate,  *)
(* which goes on unless the map is refused.                                *)
Validate(name) ==
    /\ NoCommand /\ staged[name] # None
    /\ ReportOn(staged[name])
    /\ toActivate' \in {None} \cup (IF Verified(staged[name]) THEN {name} ELSE {})
    /\ UNCHANGED <<jobVars, staged, active>>

(* The link is replaced.                                                   *)
Activate ==
    /\ ~Filling /\ toActivate # None
    /\ active' = toActivate /\ toActivate' = None
    /\ UNCHANGED <<jobVars, fillVars, staged>>

(* Nobody starts another job.                                              *)
Finished == JobsOver /\ UNCHANGED pipelineVars

PipelineNext ==
    \/ JobNext /\ UNCHANGED <<fillVars, stageVars>>
    \/ FillStep /\ UNCHANGED <<jobVars, stageVars>>
    \/ \E b \in Batches, n \in Names, image \in Images : Fetch(b, n, image)
    \/ \E n \in Names : Validate(n)
    \/ Activate
    \/ Finished

PipelineSpec == PipelineInit /\ [][PipelineNext]_pipelineVars

(* A name the robot's map is, or is about to be, under.                    *)
NamesVerified(name) ==
    name # None =>
        name \in Names /\ staged[name] # None /\ Verified(staged[name])

(* The map the robot localises on has passed the structural check, and so  *)
(* has the one about to replace it, whatever is fetched, stops half way    *)
(* and is validated before, in between and afterwards: a check that        *)
(* precedes the swap by several commands is still of the map that is there *)
(* (scripts/vm.sh:382-455).                                                *)
ActiveIsVerified == NamesVerified(active) /\ NamesVerified(toActivate)

(* The active map is complete: activation validates "immediately before    *)
(* the swap (not just trusting an earlier fetch) so a broken/corrupted map *)
(* is never made active" (scripts/vm.sh:439-440).                          *)
ActiveMapIsWhole == active # None => Whole(staged[active].image)
=============================================================================
