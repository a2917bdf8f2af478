----------------------------- MODULE ProofCache -----------------------------
(***************************************************************************)
(* The cache of logic proofs in arm_circuits/src/bin/bench_compliance.rs.  *)
(* A run of the bench takes both logic proofs and the baseline from three  *)
(* files if all three exist, and otherwise proves and writes them one      *)
(* after the other.  Nothing locks the directory, a write first truncates  *)
(* its file, and a run may be stopped anywhere: proving takes minutes.     *)
(*                                                                         *)
(* The guest and the fixture are versions.  A run reads the guest when it  *)
(* starts; the fixture is part of its binary.                              *)
(***************************************************************************)
EXTENDS Naturals, Sequences, FiniteSets
LOCAL INSTANCE SequencesExt

CONSTANTS Runs,         \* runs of the bench that may overlap
          MaxVersion    \* bound on the versions of guest and fixture

ASSUME MaxVersionAssumption == MaxVersion \in Nat

VARIABLES guest, fixture,   \* what is current: the .vmexe and the source
          file,             \* the cache directory
          run,              \* the runs
          suspect           \* what has happened that may have spoiled the cache

vars == <<guest, fixture, file, run, suspect>>

\* In the order in which they are looked for, read and written.
Files == <<"consumed", "created", "baseline">>

Absent            == [is |-> "absent"]
Torn              == [is |-> "torn"]
Complete(content) == [is |-> "complete", content |-> content]

\* A logic proof is made by a guest and reveals the digest of an instance,
\* whose tags depend on guest and fixture; the baseline is of the guest alone.
LogicProof(name, g, f) == [made |-> g, reveals |-> <<name, g, f>>]
Proved(g, f) == [consumed |-> LogicProof("consumed", g, f),
                 created  |-> LogicProof("created", g, f),
                 baseline |-> [made |-> g]]

\* What two runs that write one file may leave: it decodes and proves nothing.
Mixture == [made |-> MaxVersion + 1, reveals |-> <<>>]

Idle == [at |-> "idle"]

Init == /\ guest = 0 /\ fixture = 0
        /\ file = [n \in ToSet(Files) |-> Absent]
        /\ run = [p \in Runs |-> Idle]
        /\ suspect = {}

-----------------------------------------------------------------------------
(* One run of the bench.                                                   *)

Active == {p \in Runs : run[p] # Idle}
At(p, step) == run[p].at = step
Name(p) == Files[run[p].next]
NothingStored == \A n \in ToSet(Files) : file[n] = Absent

\* On with the next file, or with another step after the last one.
NextFile(p, step, after) ==
  IF run[p].next < Len(Files) THEN [run[p] EXCEPT !.at = step, !.next = @ + 1]
                              ELSE [run[p] EXCEPT !.at = after, !.next = 1]

Become(p, state) == run' = [run EXCEPT ![p] = state]

\* Two runs at a time may see files that the other is about to write.
Start(p) == /\ run[p] = Idle
            /\ Become(p, [at |-> "look", next |-> 1, guest |-> guest, fixture |-> fixture,
                          logic |-> Proved(guest, fixture)])
            /\ suspect' = suspect \cup {"overlap" : q \in Active}
            /\ UNCHANGED <<guest, fixture, file>>

\* Fault: the baseline is not looked for.
ExistsUnlessBaseline(n) == file[n] # Absent \/ n = "baseline"

Exists(n) == file[n] # Absent

Look(p) == /\ At(p, "look")
           /\ Become(p, IF Exists(Name(p)) THEN NextFile(p, "look", "read")
                        ELSE [run[p] EXCEPT !.at = "prove", !.next = 1])
           /\ UNCHANGED <<guest, fixture, file, suspect>>

Decodes(n) == file[n].is = "complete"

\* Fault: a file that ends too early is taken for what can be read of it.
ReadLeniently(p) ==
  /\ At(p, "read") /\ Exists(Name(p))
  /\ Become(p, [NextFile(p, "read", "check") EXCEPT
                  !.logic[Name(p)] = IF Decodes(Name(p)) THEN file[Name(p)].content ELSE Mixture])
  /\ UNCHANGED <<guest, fixture, file, suspect>>

Read(p) == /\ At(p, "read") /\ Decodes(Name(p))
           /\ Become(p, [NextFile(p, "read", "check") EXCEPT !.logic[Name(p)] = file[Name(p)].content])
           /\ UNCHANGED <<guest, fixture, file, suspect>>

\* Both logics are proved anew, in memory.
Prove(p) == /\ At(p, "prove")
            /\ Become(p, [run[p] EXCEPT !.at = "open", !.logic = Proved(run[p].guest, run[p].fixture)])
            /\ UNCHANGED <<guest, fixture, file, suspect>>

\* The first write makes the directory; deleted since, it is not there any more.
DirectoryIsGone(p) == run[p].next > 1 /\ NothingStored

\* What writes the baseline may make the directory again.
Open(p) == /\ At(p, "open")
           /\ DirectoryIsGone(p) => Name(p) = "baseline"
           /\ file' = [file EXCEPT ![Name(p)] = Torn]
           /\ Become(p, [run[p] EXCEPT !.at = "write"])
           /\ UNCHANGED <<guest, fixture, suspect>>

\* Another run writes the same file, or has done so since it was opened.
Contended(p) == \/ Decodes(Name(p))
                \/ \E q \in Active \ {p} : At(q, "write") /\ Name(q) = Name(p)

\* What is written to a file that was deleted since is lost.
Leaves(p) ==
  IF file[Name(p)] = Absent THEN {Absent}
  ELSE {Complete(run[p].logic[Name(p)])}
         \cup (IF Contended(p) THEN {file[Name(p)], Torn, Complete(Mixture)} ELSE {})

Write(p) == /\ At(p, "write")
            /\ \E left \in Leaves(p) : file' = [file EXCEPT ![Name(p)] = left]
            /\ Become(p, NextFile(p, "open", "check"))
            /\ UNCHANGED <<guest, fixture, suspect>>

\* The host verifies the proofs for the guest of the baseline.
HostAccepts(logic) ==
  \A n \in {"consumed", "created"} : logic[n].made = logic["baseline"].made

\* The compliance guest expects the logic of the resources and the digests
\* of their instances.
GuestAccepts(r) ==
  \A n \in {"consumed", "created"} :
     /\ r.logic[n].made = r.guest
     /\ r.logic[n].reveals = <<n, r.guest, r.fixture>>

ProvesCompliance(p) == At(p, "check") /\ HostAccepts(run[p].logic) /\ GuestAccepts(run[p])

EndToEndOK(p) == /\ ProvesCompliance(p)
                 /\ Become(p, Idle)
                 /\ UNCHANGED <<guest, fixture, file, suspect>>

\* A file does not decode, or the directory is not there to write to.
Unusable(p) == \/ At(p, "read") /\ ~Decodes(Name(p))
               \/ At(p, "open") /\ DirectoryIsGone(p)

\* The files decode and what they hold is not accepted.
Refused(p) == At(p, "check") /\ ~ProvesCompliance(p)

Fail(p) == /\ Unusable(p) \/ Refused(p)
           /\ Become(p, Idle)
           /\ UNCHANGED <<guest, fixture, file, suspect>>

-----------------------------------------------------------------------------
(* What happens around the runs, and what of it makes the cache suspect    *)
(* until it is deleted at rest.                                            *)

\* Only the last file makes a difference: without it the next run proves.
Suspicious(p) == At(p, "write") /\ Name(p) = "baseline"

Stop(p) == /\ run[p] # Idle
           /\ Become(p, Idle)
           /\ suspect' = suspect \cup (IF Suspicious(p) THEN {"cut"} ELSE {})
           /\ UNCHANGED <<guest, fixture, file>>

\* Nothing is stored and nobody is about to store anything.
Clean == Active = {} /\ NothingStored

SuspectIfChanged == suspect \cup (IF Clean THEN {} ELSE {"change"})

ChangeGuest == /\ guest < MaxVersion
               /\ guest' = guest + 1
               /\ suspect' = SuspectIfChanged
               /\ UNCHANGED <<fixture, file, run>>

ChangeFixture == /\ fixture < MaxVersion
                 /\ fixture' = fixture + 1
                 /\ suspect' = SuspectIfChanged
                 /\ UNCHANGED <<guest, file, run>>

DeleteCache == /\ file' = [n \in ToSet(Files) |-> Absent]
               /\ suspect' = IF Active = {} THEN {} ELSE suspect \cup {"deletion"}
               /\ UNCHANGED <<guest, fixture, run>>

Next == \/ \E p \in Runs : \/ Start(p) \/ Look(p) \/ Read(p) \/ Prove(p) \/ Open(p) \/ Write(p)
                            \/ EndToEndOK(p) \/ Fail(p) \/ Stop(p)
        \/ ChangeGuest \/ ChangeFixture \/ DeleteCache

Spec == Init /\ [][Next]_vars

-----------------------------------------------------------------------------
(* However guest and fixture change, a run finds a file that does not      *)
(* decode, or no directory, only if since the cache was last deleted at    *)
(* rest two runs overlapped, one was stopped while it wrote the last file, *)
(* or the cache was deleted under a run.  A run stopped anywhere else      *)
(* leaves a cache that the next run completes.                             *)
UnusableOnlyIfDisturbed ==
  [][\A p \in Runs : Fail(p) /\ Unusable(p) =>
       suspect \cap {"overlap", "cut", "deletion"} # {}]_vars

(* Wherever runs stop, and whenever the cache is deleted, proofs are       *)
(* refused only if guest or fixture changed over a cache that was not      *)
(* clean, or two runs overlapped.  What a stopped run leaves, and what is  *)
(* missing after a deletion, does not decode or is not taken.              *)
RefusedOnlyIfStaleOrMixed ==
  [][\A p \in Runs : Fail(p) /\ Refused(p) => suspect \cap {"change", "overlap"} # {}]_vars
=============================================================================
