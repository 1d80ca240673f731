---------------------------- MODULE CircuitBuild ----------------------------
(***************************************************************************)
(* The build script of the circuits crate (circuits/build.rs): it compiles *)
(* the policy circuit into R1CS, symbol table and witness generator,       *)
(* publishes R1CS and WASM to target/circuits-artifacts and keeps a set of *)
(* Groth16 keys under testdata/.                                           *)
(*                                                                         *)
(* A file is represented by the circuit it was made from, a circuit by the *)
(* versions of the source files the compiler read.  Modification times are *)
(* compared in one place only (is a source newer than the newest artifact) *)
(* and are represented by the set `newer` of the sources of which that is  *)
(* true.  Every fault (a crash, a failed write, a compiler error) uses up  *)
(* one of MaxFaults; a write that fails or is cut off may leave its file   *)
(* partly written.                                                         *)
(***************************************************************************)
EXTENDS Naturals, Sequences, FiniteSets, SequencesExt

CONSTANTS
  MaxEdits,   \* how often each source file may change
  MaxSetups,  \* how many trusted setups the builds may run
  MaxFaults   \* how many steps may fail

ASSUME BuildBounds == MaxEdits \in Nat /\ MaxSetups \in Nat /\ MaxFaults \in Nat

(***************************************************************************)
(* The source files: the entry point, the template file it includes and a  *)
(* file of the pinned circomlib checkout.  A text is the sequence of its   *)
(* directives; the other lines do not matter.                              *)
(***************************************************************************)
Sources == {"policy_tx_2_2", "policyTransaction", "circomlib"}

Pragma     == [kind |-> "pragma"]
Main       == [kind |-> "component main"]
Include(f) == [kind |-> "include", file |-> f]

Text ==
  [policy_tx_2_2     |-> <<Pragma, Include("policyTransaction"), Main>>,
   policyTransaction |-> <<Pragma, Include("circomlib")>>,
   circomlib         |-> <<Pragma, Main>>]

\* find_circom_files: the files with a main component, circomlib's own excepted.
CircomFiles == {f \in Sources \ {"circomlib"} : Main \in ToSet(Text[f])}

\* The pattern ^\s*include is compiled without the multi-line flag, so ^ stands
\* for the start of the file only and captures_iter finds at most one include,
\* the one a file begins with.
CapturedIncludes(f) ==
  {d.file : d \in {Head(Text[f])} \cap [kind : {"include"}, file : Sources]}

\* resolve_include_path: only a file that exists in a search directory counts.
ResolveInclude(f) == CapturedIncludes(f) \cap Sources

\* The work list of extract_circom_dependencies, as many rounds as there are files.
Dependencies(f) ==
  LET Round(s) == s \cup UNION {ResolveInclude(g) : g \in s}
  IN  Round(Round(ResolveInclude(f)))

----------------------------------------------------------------------------
VARIABLES
  src,     \* the version of every source file
  lock,    \* the circomlib revision circomlib.lock pins
  newer,   \* the sources modified after the newest of r1cs and sym
  out,     \* OUT_DIR/circuits: the circuit each artifact was made from
  pub,     \* target/circuits-artifacts, read by the web build
  keys,    \* testdata/: the setup each key file holds
  setups,  \* how many trusted setups have been run
  build,   \* the running build script
  faults,  \* faults so far
  marks    \* history: what went wrong, for the properties

buildVars == <<src, lock, newer, out, pub, keys, setups, build, faults, marks>>

\* A file that does not exist: made from no source at all; and one that exists
\* but was only partly written.
Missing == <<>>
Partial == <<0>>

\* What a write that fails or is cut off leaves of a file.
LeftOver(left, old) ==
  CASE left = "old"     -> old
    [] left = "partial" -> Partial
    [] left = "gone"    -> Missing

KeyFiles == <<"proving_key", "vk_json", "vk_soroban", "vk_const">>
Essential == {"proving_key", "vk_json", "vk_soroban"}

Idle == [pc |-> "idle", last |-> "none", read |-> Missing]

BuildInit ==
  /\ src = [f \in Sources |-> 0]
  /\ lock = 0
  /\ newer = {}
  /\ out = [r1cs |-> Missing, sym |-> Missing, wasm |-> Missing]
  /\ pub = [r1cs |-> Missing, wasm |-> Missing]
  /\ keys = [k \in ToSet(KeyFiles) |-> 0]
  /\ setups = 0
  /\ build = Idle
  /\ faults = 0
  /\ marks = [torn |-> FALSE, unpublished |-> FALSE, keyFailed |-> FALSE,
              regen |-> FALSE, raced |-> FALSE]

Running == build.pc # "idle"
Go(pc) == build' = [build EXCEPT !.pc = pc]
Stop(result) == build' = [pc |-> "idle", last |-> result, read |-> build.read]

\* One more fault, of the given kinds.
Fault(kinds) ==
  /\ faults < MaxFaults
  /\ faults' = faults + 1
  /\ marks' = [m \in DOMAIN marks |-> marks[m] \/ m \in kinds]

NoFault == UNCHANGED <<faults, marks>>

----------------------------------------------------------------------------
(* The developer. *)

\* A source file is edited, also while a build is running.
Edit(f) ==
  /\ f # "circomlib"
  /\ src[f] < MaxEdits
  /\ src' = [src EXCEPT ![f] = @ + 1]
  /\ newer' = newer \cup {f}
  /\ marks' = [marks EXCEPT !.raced = @ \/ build.pc \in {"parsed", "write_r1cs", "write_sym"}]
  /\ UNCHANGED <<lock, out, pub, keys, setups, build, faults>>

\* circomlib.lock is moved to another revision.
BumpLock ==
  /\ ~Running
  /\ lock < MaxEdits
  /\ lock' = lock + 1
  /\ UNCHANGED <<src, newer, out, pub, keys, setups, build, faults, marks>>

----------------------------------------------------------------------------
(* The build script. *)

\* get_circomlib: the checkout is left alone when HEAD is the locked revision;
\* otherwise it is fetched and checked out, which touches its files.
GetCircomlib ==
  IF src["circomlib"] = lock
  THEN UNCHANGED <<src, newer>>
  ELSE /\ src' = [src EXCEPT !["circomlib"] = lock]
       /\ newer' = newer \cup {"circomlib"}

\* main up to the parsed program: what the compiler will translate is what the
\* parser reads now.  (A build starts while the bound leaves it a setup.)
StartBuild(regen) ==
  /\ ~Running
  /\ setups < MaxSetups
  /\ GetCircomlib
  /\ build' = [pc |-> "parsed", read |-> src', regen |-> regen,
               wasm |-> TRUE, setup |-> 0, next |-> 1]
  /\ marks' = [marks EXCEPT !.regen = @ \/ regen]
  /\ UNCHANGED <<lock, out, pub, keys, setups, faults>>

\* The fetch fails: main returns the error.
CircomlibFails ==
  /\ ~Running
  /\ src["circomlib"] # lock
  /\ Fault({})
  /\ Stop("failed")
  /\ UNCHANGED <<src, lock, newer, out, pub, keys, setups>>

\* check_dependencies_need_rebuild: the main file and its dependencies.
NeedsRebuild ==
  \E f \in CircomFiles : ({f} \cup Dependencies(f)) \cap newer # {}

UpToDate == out.r1cs # Missing /\ out.sym # Missing /\ ~NeedsRebuild

DecideIgnoringWasm ==
  /\ build.pc = "parsed"
  /\ Go(IF UpToDate THEN "publish_r1cs" ELSE "write_r1cs")
  /\ UNCHANGED <<src, lock, newer, out, pub, keys, setups>> /\ NoFault

\* An up-to-date circuit with its WASM is only published again.
Decide ==
  /\ build.pc = "parsed"
  /\ Go(IF UpToDate /\ out.wasm # Missing THEN "publish_r1cs" ELSE "write_r1cs")
  /\ UNCHANGED <<src, lock, newer, out, pub, keys, setups>> /\ NoFault

\* generate_output_r1cs and generate_output_sym; both files become the newest.
WriteR1cs ==
  /\ build.pc = "write_r1cs"
  /\ out' = [out EXCEPT !.r1cs = build.read]
  /\ newer' = {}
  /\ Go("write_sym")
  /\ UNCHANGED <<src, lock, pub, keys, setups>> /\ NoFault

WriteSym ==
  /\ build.pc = "write_sym"
  /\ out' = [out EXCEPT !.sym = build.read]
  /\ newer' = {}
  /\ Go("compile_wasm")
  /\ UNCHANGED <<src, lock, pub, keys, setups>> /\ NoFault

CompileWasm ==
  /\ build.pc = "compile_wasm"
  /\ out' = [out EXCEPT !.wasm = build.read]
  /\ marks' = [marks EXCEPT !.torn = FALSE]
  /\ Go("publish_r1cs")
  /\ UNCHANGED <<src, lock, newer, pub, keys, setups, faults>>

\* compile_wasm fails in run_compiler, before the old js folder is removed, in
\* write_wasm or wat_to_wasm, after it, or in the write of the WASM itself, whose
\* file then exists and is not deleted.
CompileWasmFails(left) ==
  /\ build.pc = "compile_wasm"
  /\ Fault(IF left = "gone" THEN {} ELSE {"torn"})
  /\ out' = [out EXCEPT !.wasm = LeftOver(left, @)]
  /\ build' = [build EXCEPT !.pc = "publish_r1cs", !.wasm = FALSE]
  /\ UNCHANGED <<src, lock, newer, pub, keys, setups>>

\* The process dies while it writes an artifact; a failed write of the R1CS or
\* the symbols is a panic.  A partly written R1CS or symbol table is newer than
\* the sources, like a whole one.
WrittenAt == [write_r1cs |-> "r1cs", write_sym |-> "sym", compile_wasm |-> "wasm"]

CrashWriting(left) ==
  /\ build.pc \in DOMAIN WrittenAt
  /\ left = "gone" => build.pc = "compile_wasm"
  /\ out' = [out EXCEPT ![WrittenAt[build.pc]] = LeftOver(left, @)]
  /\ newer' = IF left = "partial" /\ build.pc # "compile_wasm" THEN {} ELSE newer
  /\ Fault(IF left = "gone" \/ (left = "old" /\ build.pc = "write_r1cs") THEN {} ELSE {"torn"})
  /\ Stop("crashed")
  /\ UNCHANGED <<src, lock, pub, keys, setups>>

\* publish_circuit_artifacts copies the R1CS, then the WASM if there is one.
PublishR1cs ==
  /\ build.pc = "publish_r1cs"
  /\ pub' = [pub EXCEPT !.r1cs = out.r1cs]
  /\ IF build.wasm THEN Go("publish_wasm") ELSE Stop("failed")
  /\ UNCHANGED <<src, lock, newer, out, keys, setups>> /\ NoFault

PublishWasm ==
  /\ build.pc = "publish_wasm"
  /\ pub' = [pub EXCEPT !.wasm = out.wasm]
  /\ marks' = [marks EXCEPT !.unpublished = FALSE]
  /\ Go("check_keys")
  /\ UNCHANGED <<src, lock, newer, out, keys, setups, faults>>

\* A copy fails, which is a warning (the first one skips the second), or the
\* process dies in it.  The copy goes to a temporary file; the old file is removed
\* before the new one takes its name.
CopiedAt == [publish_r1cs |-> "r1cs", publish_wasm |-> "wasm"]

PublishFails(left) ==
  /\ build.pc \in DOMAIN CopiedAt
  /\ pub' = [pub EXCEPT ![CopiedAt[build.pc]] = LeftOver(left, @)]
  /\ Fault({"unpublished"})
  /\ \/ IF build.wasm THEN Go("check_keys") ELSE Stop("failed")
     \/ Stop("crashed")
  /\ UNCHANGED <<src, lock, newer, out, keys, setups>>

\* check_keys_need_generation: an R1CS newer than the keys, or a missing
\* vk_const.rs, only warns.
KeysNeedGeneration ==
  (\E k \in Essential : keys[k] = 0) \/ build.regen

SkipKeys ==
  /\ build.pc = "check_keys"
  /\ ~KeysNeedGeneration
  /\ Stop("ok")
  /\ UNCHANGED <<src, lock, newer, out, pub, keys, setups>> /\ NoFault

\* generate_groth16_keys: a setup with fresh randomness for the current R1CS.  It
\* loads R1CS and WASM, which fails for a file that is not whole.
Loadable == Partial \notin {out.r1cs, out.wasm}

GenerateKeys ==
  /\ build.pc = "check_keys"
  /\ KeysNeedGeneration
  /\ Loadable
  /\ setups' = setups + 1
  /\ build' = [build EXCEPT !.pc = "write_keys", !.setup = setups', !.next = 1]
  /\ UNCHANGED <<src, lock, newer, out, pub, keys>> /\ NoFault

\* The setup fails; main turns the error into a warning.
GenerateKeysFails ==
  /\ build.pc = "check_keys"
  /\ KeysNeedGeneration
  /\ IF Loadable THEN Fault({}) ELSE NoFault
  /\ Stop("ok")
  /\ UNCHANGED <<src, lock, newer, out, pub, keys, setups>>

\* The write of one key file is atomic (circuit_keys::atomic_write renames a
\* synced temporary file): afterwards the file is the old one or the new one.
KeyWritten(k) == keys' = [keys EXCEPT ![k] = build.setup]

NextKeyFile ==
  IF build.next < Len(KeyFiles)
  THEN build' = [build EXCEPT !.next = @ + 1]
  ELSE Stop("ok")

WriteKey ==
  /\ build.pc = "write_keys"
  /\ KeyWritten(KeyFiles[build.next])
  /\ NextKeyFile
  /\ UNCHANGED <<src, lock, newer, out, pub, setups>> /\ NoFault

\* A failed write is a warning and the next file is written all the same.
WriteKeyFails ==
  /\ build.pc = "write_keys"
  /\ Fault({"keyFailed"})
  /\ NextKeyFile
  /\ UNCHANGED <<src, lock, newer, out, pub, keys, setups>>

\* The process dies between two writes.
Crash ==
  /\ build.pc \in {"parsed", "check_keys", "write_keys"}
  /\ Fault({})
  /\ Stop("crashed")
  /\ UNCHANGED <<src, lock, newer, out, pub, keys, setups>>

BuildNext ==
  \/ \E f \in Sources : Edit(f)
  \/ BumpLock
  \/ \E regen \in BOOLEAN : StartBuild(regen)
  \/ CircomlibFails \/ Decide
  \/ WriteR1cs \/ WriteSym \/ CompileWasm
  \/ \E left \in {"old", "partial", "gone"} : CompileWasmFails(left) \/ CrashWriting(left)
  \/ PublishR1cs \/ PublishWasm
  \/ \E left \in {"old", "gone"} : PublishFails(left)
  \/ SkipKeys \/ GenerateKeys \/ GenerateKeysFails
  \/ WriteKey \/ WriteKeyFails
  \/ Crash

BuildSpec == BuildInit /\ [][BuildNext]_buildVars

----------------------------------------------------------------------------
(* Properties. *)

Built == build.pc = "idle" /\ build.last = "ok"

\* After a build that succeeds, the R1CS and the WASM it published come from one
\* compilation, the one in OUT_DIR, and both are whole, unless a compilation was
\* torn since the last complete one, or a copy failed in this build.  Torn is a
\* compilation that left an R1CS newer than the sources beside a WASM it did not
\* go with: it failed or died with the R1CS partly written, between the R1CS and
\* the removal of the old WASM, or with the new WASM partly written.  The skip
\* path looks at the times of R1CS and symbols and at the existence of the WASM
\* only, so it publishes such a pair until a source changes; the next complete
\* compilation ends that.  Every other failure repairs itself in the next build.
PublishedPairAgrees ==
  Built /\ ~marks.torn /\ ~marks.unpublished =>
    /\ pub.r1cs = pub.wasm
    /\ pub.r1cs = out.r1cs
    /\ pub.r1cs \notin {Missing, Partial}

\* The essential keys under testdata/ are of one setup as soon as all of them
\* exist: an interrupted generation leaves one of them missing, and the next
\* build then writes all of them again.  Key writes that fail, and a forced
\* regeneration, which can be interrupted with a full set in place, are excluded.
EssentialKeysAgree ==
  /\ ~marks.keyFailed /\ ~marks.regen
  /\ build.pc # "write_keys"
  /\ \A k \in Essential : keys[k] # 0
  => Cardinality({keys[k] : k \in Essential}) = 1

\* A build that succeeds leaves the R1CS of the entry point it read, unless the
\* file was edited while a build was compiling it (that build's artifacts are
\* newer than the edit and hide it from the later ones) or the write of the R1CS
\* was cut off.
EntryPointCompiled ==
  Built /\ ~marks.raced /\ out.r1cs # Partial =>
    out.r1cs["policy_tx_2_2"] = build.read["policy_tx_2_2"]

\* What a build leaves on disk belongs together: the published pair, the keys
\* and the entry point it compiled.
ArtifactsAgree == PublishedPairAgrees /\ EssentialKeysAgree /\ EntryPointCompiled
=============================================================================
