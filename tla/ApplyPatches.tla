---------------------------- MODULE ApplyPatches ----------------------------
(***************************************************************************)
(* The patch driver (patches/apply_all.sh): it applies a list of scripts   *)
(* to the foxBMS sources, one after the other.  The scripts differ in what *)
(* they do with a source they do not recognise and with one that they have *)
(* patched before; the driver itself recognises a patched tree by the text *)
(* that one of the scripts, the sentinel, leaves behind.                   *)
(*                                                                         *)
(* A script looks for texts in one file or several and replaces those it   *)
(* finds.  Whether it fails is another question: most exit with 0 whatever *)
(* they found, the others are content with a single one of their texts.    *)
(*                                                                         *)
(* A run may be interrupted at any moment, also between a script's         *)
(* open(..., "w"), which empties the file, and its write.                  *)
(***************************************************************************)
EXTENDS Integers, Sequences

CONSTANTS
  Patches,    \* PATCHES: the scripts in their order
  Sentinel,   \* the script whose text the driver looks for
  Files,      \* the files that are patched
  FilesOf,    \* per script, the files it patches, in its order
  Texts,      \* the texts the scripts look for: <<script, file, number>>
  Blockers,   \* per text, the texts whose replacement keeps it from being replaced
  Outside,    \* scripts that patch files "git checkout" does not restore
  Lenient,    \* scripts to which a missing file is no error
  Strict,     \* scripts that exit with an error when they find nothing to patch
  Always,     \* scripts that write their file whether they found something or not
  Trees,      \* bound: what the foxBMS tree may be like
  MaxRuns     \* bound: runs of the driver

Scripts == {Patches[i] : i \in DOMAIN Patches}
Position(p) == CHOOSE i \in DOMAIN Patches : Patches[i] = p

ScriptOf(t) == t[1]
FileOf(t)   == t[2]
TextsOf(p)  == {t \in Texts : ScriptOf(t) = p}
Opens(p)    == {FilesOf[p][k] : k \in DOMAIN FilesOf[p]}

ASSUME PatchAssumption ==
  /\ Patches \in Seq(Scripts)
  /\ \A i, j \in DOMAIN Patches : Patches[i] = Patches[j] => i = j
  /\ FilesOf \in [Scripts -> Seq(Files) \ {<<>>}]
  /\ \A t \in Texts : ScriptOf(t) \in Scripts /\ FileOf(t) \in Opens(ScriptOf(t))
  /\ Blockers \in [Texts -> SUBSET Texts]
  /\ \A t \in Texts : \A u \in Blockers[t] :
       ScriptOf(u) = ScriptOf(t) /\ FileOf(u) = FileOf(t) /\ Blockers[u] = Blockers[t]
  /\ Trees \subseteq [version : BOOLEAN, source : BOOLEAN,
                      missing : SUBSET Files, unknown : SUBSET Texts]
  /\ MaxRuns \in Nat

\* The sentinel is the only text of its script, which is in the foxBMS checkout.
ASSUME SentinelAssumption ==
  /\ Sentinel \in Texts /\ TextsOf(ScriptOf(Sentinel)) = {Sentinel}
  /\ ScriptOf(Sentinel) \notin Outside

VARIABLES
  tree,     \* version as expected, submodule there, missing files, texts not to be found
  count,    \* how often each text has been replaced in its file as it is
  emptied,  \* files a script has emptied and not written
  step,     \* position in the list, 0 when the driver is not running
  failed,   \* FAILED
  force,    \* FORCE
  report,   \* what the driver said last
  forced,   \* auxiliary: a run since the checkout was forced
  runs      \* bounded by MaxRuns

patchVars == <<tree, count, emptied, step, failed, force, report, forced, runs>>

PatchInit ==
  /\ tree \in Trees
  /\ count = [t \in Texts |-> 0] /\ emptied = {}
  /\ step = 0 /\ failed = 0 /\ force = FALSE /\ report = "none"
  /\ forced = FALSE /\ runs = 0

-----------------------------------------------------------------------------
(* What one script does                                                     *)

\* open raises FileNotFoundError
Missing(p) == p \notin Lenient /\ \E f \in Opens(p) : f \in tree.missing

Found(t) == FileOf(t) \notin tree.missing \cup emptied /\ t \notin tree.unknown
Kept(t)  == \E u \in Blockers[t] : count[u] > 0
Replaces(p, t) == ScriptOf(t) = p /\ Found(t) /\ ~Kept(t) /\ ~Missing(p)

\* "already patched": every file of the script holds its sentinel.
PatchedBefore(p) == \A f \in Opens(p) : \E t \in TextsOf(p) : FileOf(t) = f /\ count[t] > 0

\* One text replaced is enough for the exit status 0.
Fails(p) ==
  \/ Missing(p)
  \/ p \in Strict /\ (\A t \in TextsOf(p) : ~Replaces(p, t)) /\ ~PatchedBefore(p)

Writes(p, f) ==
  /\ f \notin tree.missing /\ ~Missing(p)
  /\ p \in Always \/ \E t \in TextsOf(p) : FileOf(t) = f /\ Replaces(p, t)

\* The counts when p has gone through its first k files.
Through(p, k) ==
  [t \in Texts |->
     IF Replaces(p, t) /\ \E i \in 1 .. k : FilesOf[p][i] = FileOf(t)
     THEN count[t] + 1 ELSE count[t]]

-----------------------------------------------------------------------------
(* The driver                                                               *)

\* Version mismatch without --force, or no submodule.
Refuse(f) ==
  /\ step = 0 /\ runs < MaxRuns /\ runs' = runs + 1
  /\ ~tree.source \/ (~tree.version /\ ~f)
  /\ report' = "refused"
  /\ UNCHANGED <<tree, count, emptied, step, failed, force, forced>>

Admitted(f) == tree.source /\ (tree.version \/ f)

\* A faulty variant: the sentinel is never found.
NeverPatched == FALSE

\* "Already patched"
AlreadyPatched == count[Sentinel] > 0

Skip ==
  /\ step = 0 /\ runs < MaxRuns /\ runs' = runs + 1
  /\ Admitted(FALSE) /\ AlreadyPatched
  /\ report' = "already patched"
  /\ UNCHANGED <<tree, count, emptied, step, failed, force, forced>>

Begin(f) ==
  /\ step = 0 /\ runs < MaxRuns /\ runs' = runs + 1
  /\ Admitted(f) /\ (f \/ ~AlreadyPatched)
  /\ step' = 1 /\ failed' = 0 /\ force' = f /\ report' = "running"
  /\ forced' = (forced \/ f)
  /\ UNCHANGED <<tree, count, emptied>>

\* A faulty variant: what a script's exit status says is not looked at.
ApplyUnchecked ==
  /\ step \in DOMAIN Patches
  /\ LET p == Patches[step] IN count' = Through(p, Len(FilesOf[p]))
  /\ step' = step + 1
  /\ UNCHANGED <<tree, emptied, failed, force, report, forced, runs>>

Apply ==
  /\ step \in DOMAIN Patches
  /\ LET p == Patches[step] IN
     /\ failed' = (IF Fails(p) THEN failed + 1 ELSE failed)
     /\ count' = Through(p, Len(FilesOf[p]))
  /\ step' = step + 1
  /\ UNCHANGED <<tree, emptied, force, report, forced, runs>>

\* One failure is tolerated: the exit status is 0 as for none.
Finish ==
  /\ step = Len(Patches) + 1
  /\ step' = 0
  /\ report' = (IF failed = 0 THEN "success" ELSE IF failed <= 1 THEN "tolerated" ELSE "failed")
  /\ UNCHANGED <<tree, count, emptied, failed, force, forced, runs>>

\* Killed while the current script, or the next, has written its first k files.
Interrupt ==
  /\ step \in DOMAIN Patches
  /\ LET p == Patches[step] IN \E k \in 0 .. Len(FilesOf[p]) : count' = Through(p, k)
  /\ step' = 0 /\ report' = "interrupted"
  /\ UNCHANGED <<tree, emptied, failed, force, forced, runs>>

\* Killed while it has a file open for writing: that file is left empty.
InterruptWrite ==
  /\ step \in DOMAIN Patches
  /\ LET p == Patches[step] IN
     \E k \in DOMAIN FilesOf[p] :
       /\ Writes(p, FilesOf[p][k])
       /\ emptied' = emptied \cup {FilesOf[p][k]}
       /\ count' = [t \in Texts |->
                      IF FileOf(t) = FilesOf[p][k] THEN 0 ELSE Through(p, k - 1)[t]]
  /\ step' = 0 /\ report' = "interrupted"
  /\ UNCHANGED <<tree, failed, force, forced, runs>>

\* git checkout foxbms-2: what "Already patched" advises.
Checkout ==
  /\ step = 0
  /\ count' = [t \in Texts |-> IF ScriptOf(t) \in Outside THEN count[t] ELSE 0]
  /\ emptied' = emptied \cap UNION {Opens(p) : p \in Scripts \cap Outside}
  /\ report' = "none" /\ forced' = FALSE
  /\ UNCHANGED <<tree, step, failed, force, runs>>

Run == Apply \/ Finish
PatchNext ==
  \/ \E f \in BOOLEAN : Refuse(f) \/ Begin(f)
  \/ Skip \/ Run \/ Interrupt \/ InterruptWrite \/ Checkout

PatchSpec == PatchInit /\ [][PatchNext]_patchVars

-----------------------------------------------------------------------------
(* Properties                                                               *)

\* The driver stays within its list, and its failures and the texts are counted in numbers
\* (apply_all.sh 92-107).
PatchTypeOK ==
  /\ tree \in Trees
  /\ count \in [Texts -> Nat] /\ emptied \subseteq Files
  /\ step \in 0 .. Len(Patches) + 1 /\ failed \in Nat /\ runs \in 0 .. MaxRuns
  /\ force \in BOOLEAN /\ forced \in BOOLEAN

\* What the exit status 0 of a script is worth: each of its texts that is to be found, in a
\* file that is there and not empty, has been replaced, and at least one if it is strict.
Earned(p) ==
  /\ ~Missing(p)
  /\ \A t \in TextsOf(p) : Found(t) => count[t] > 0
  /\ p \in Strict => \E t \in TextsOf(p) : count[t] > 0

\* When the driver reports success, that holds of every script, also after interrupted
\* runs; when it tolerates a failure, it holds of all but one (apply_all.sh 110-125).
SuccessMeansPatched ==
  /\ report = "success" => \A p \in Scripts : Earned(p)
  /\ report = "tolerated" => \A p, q \in Scripts : Earned(p) \/ Earned(q) \/ p = q

Applied == \A t \in Texts : count[t] > 0

\* What the driver itself says (apply_all.sh 114, "All patches applied successfully"):
\* after a success every text has been replaced.
SuccessIsComplete == report = "success" => Applied

\* What the configuration management plan says (cm-plan.md 139, "Script detects
\* already-applied patches"): a tree is reported as patched only when all of it is.
DetectionIsComplete == report = "already patched" => Applied

\* However often the driver is run, interrupted and run again, no script from the sentinel
\* on replaces a text twice, as long as nobody forces a run and the sentinel's own file is
\* intact and known (apply_all.sh 50-61).
SentinelUsable == ~forced /\ Found(Sentinel) /\ ~Missing(ScriptOf(Sentinel))

AppliedOnce ==
  SentinelUsable =>
    \A t \in Texts :
      ScriptOf(t) \notin Outside /\ Position(ScriptOf(t)) >= Position(ScriptOf(Sentinel))
        => count[t] <= 1

=============================================================================
