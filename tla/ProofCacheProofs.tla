-------------------------- MODULE ProofCacheProofs ---------------------------
(***************************************************************************)
(* For any number of runs of the bench: what each way to fail is a sign    *)
(* of.  The invariant has a part for each group of causes that are absent. *)
(* Without overlap one run at most is at work.  Without overlap or change  *)
(* every file that decodes, and every run, is of the present guest and     *)
(* fixture.  Without overlap, cut or deletion the baseline is there only   *)
(* if every file decodes, and a run that writes has left those before the  *)
(* one it is at complete.                                                  *)
(***************************************************************************)
EXTENDS ProofCache, TLAPS
LOCAL INSTANCE SequencesExt

-----------------------------------------------------------------------------
Names == {"consumed", "created", "baseline"}
Steps == {"look", "read", "prove", "open", "write", "check"}

\* What can be in a file, whatever guest and fixture it is about.
Contents(n) == {Proved(g, f)[n] : g \in Nat, f \in Nat} \cup {Mixture}

Logics == [consumed : Contents("consumed"),
           created  : Contents("created"),
           baseline : Contents("baseline")]

IsFile(n, x) ==
  x = Absent \/ x = Torn \/ \E content \in Contents(n) : x = Complete(content)

Work == [at : Steps, next : 1..3, guest : Nat, fixture : Nat, logic : Logics]

Causes == {"change", "overlap", "cut", "deletion"}

TypeOK == /\ guest \in Nat /\ fixture \in Nat /\ suspect \subseteq Causes
          /\ DOMAIN file = Names /\ \A n \in Names : IsFile(n, file[n])
          /\ run \in [Runs -> Work \cup {Idle}]

-----------------------------------------------------------------------------
Mixed     == "overlap" \in suspect
Stale     == suspect \cap {"change", "overlap"} # {}
Disturbed == suspect \cap {"overlap", "cut", "deletion"} # {}

\* Nobody is in the way of a run, and it has emptied what it writes to.
Peaceful ==
  /\ \A p, q \in Runs : run[p] # Idle /\ run[q] # Idle => p = q
  /\ \A p \in Runs : At(p, "write") => ~Decodes(Name(p))

Current(p) == /\ run[p].guest = guest /\ run[p].fixture = fixture
              /\ run[p].logic = Proved(guest, fixture)

FilesCurrent == \A n \in Names : Decodes(n) => file[n].content = Proved(guest, fixture)[n]

Fresh == (\A p \in Runs : run[p] # Idle => Current(p)) /\ FilesCurrent

AllDecode == \A n \in Names : Decodes(n)

Steady(p) ==
  /\ At(p, "read") => AllDecode
  /\ At(p, "prove") => file["baseline"] = Absent /\ run[p].next = 1
  /\ At(p, "open") \/ At(p, "write") =>
       /\ \A i \in 1..(run[p].next - 1) : Decodes(Files[i])
       /\ ~Suspicious(p) => file["baseline"] = Absent
  /\ At(p, "write") => file[Name(p)] # Absent

Whole == /\ \A p \in Runs : run[p] # Idle => Steady(p)
         /\ file["baseline"] # Absent /\ (\A p \in Runs : ~Suspicious(p)) => AllDecode

Sound == /\ ~Mixed => Peaceful
         /\ ~Stale => Fresh
         /\ ~Disturbed => Whole

IInv == TypeOK /\ Sound

-----------------------------------------------------------------------------
(* The files.                                                              *)

LEMMA FilesAre ==
  /\ Len(Files) = 3
  /\ Files[1] = "consumed" /\ Files[2] = "created" /\ Files[3] = "baseline"
  /\ ToSet(Files) = Names
  /\ \A i \in 1..3 : Files[i] \in Names
<1>1. DOMAIN Files = {1, 2, 3}
  BY DEF Files
<1>. QED  BY <1>1 DEF Files, ToSet, Names

LEMMA Distinguished ==
  /\ Absent # Torn
  /\ \A x : Complete(x) # Absent /\ Complete(x) # Torn
  /\ Absent.is # "complete" /\ Torn.is # "complete"
  /\ \A x : Complete(x).is = "complete" /\ Complete(x).content = x
  /\ \A w \in Work : w # Idle
  /\ Idle.at = "idle"
<1>1. \A w \in Work : w.at # "idle"
  BY DEF Work, Steps
<1>2. Idle.at = "idle"
  BY DEF Idle
<1>3. Absent.is = "absent" /\ Torn.is = "torn" /\ \A x : Complete(x).is = "complete"
  BY DEF Absent, Torn, Complete
<1>. QED  BY <1>1, <1>2, <1>3 DEF Complete

LEMMA ProvedIsLogic ==
  ASSUME NEW g \in Nat, NEW f \in Nat
  PROVE  /\ Proved(g, f) \in Logics
         /\ \A n \in Names : Proved(g, f)[n] \in Contents(n)
<1>1. \A n \in Names : Proved(g, f)[n] \in Contents(n)
  BY DEF Contents
<1>2. Proved(g, f) = [consumed |-> Proved(g, f)["consumed"],
                      created  |-> Proved(g, f)["created"],
                      baseline |-> Proved(g, f)["baseline"]]
  BY DEF Proved
<1>. QED  BY <1>1, <1>2 DEF Logics, Names

\* One proof of a logic replaced by another.
LEMMA LogicExcept ==
  ASSUME NEW logic \in Logics, NEW n \in Names, NEW x \in Contents(n)
  PROVE  [logic EXCEPT ![n] = x] \in Logics
<1>1. CASE n = "consumed"
  BY <1>1 DEF Logics
<1>2. CASE n = "created"
  BY <1>2 DEF Logics
<1>3. CASE n = "baseline"
  BY <1>3 DEF Logics
<1>. QED  BY <1>1, <1>2, <1>3 DEF Names

-----------------------------------------------------------------------------
(* Types.                                                                  *)

\* A run at work becomes idle or goes on.
LEMMA RunTypes ==
  ASSUME TypeOK, NEW p \in Runs, NEW x \in Work \cup {Idle}, Become(p, x)
  PROVE  /\ run' \in [Runs -> Work \cup {Idle}]
         /\ run'[p] = x
         /\ \A q \in Runs \ {p} : run'[q] = run[q]
BY DEF TypeOK, Become

\* A step of a run other than its first is one of a run at work.
LEMMA AtWork ==
  ASSUME TypeOK, NEW p \in Runs, NEW step \in Steps, At(p, step)
  PROVE  run[p] # Idle /\ run[p] \in Work /\ run[p].next \in 1..3 /\ Name(p) \in Names
<1>1. run[p] # Idle
  BY Distinguished DEF At, Steps
<1>2. run[p] \in Work
  BY <1>1 DEF TypeOK
<1>3. run[p].next \in 1..3
  BY <1>2 DEF Work
<1>. QED  BY <1>1, <1>2, <1>3, FilesAre DEF Name

LEMMA NextFileIs ==
  ASSUME TypeOK, NEW p \in Runs, run[p] \in Work, NEW step \in Steps, NEW after \in Steps
  PROVE  LET w == NextFile(p, step, after)
         IN  /\ w \in Work
             /\ w.guest = run[p].guest /\ w.fixture = run[p].fixture /\ w.logic = run[p].logic
             /\ \/ run[p].next < 3 /\ w.at = step /\ w.next = run[p].next + 1
                \/ run[p].next = 3 /\ w.at = after /\ w.next = 1
<1>. DEFINE r == run[p]
            w == NextFile(p, step, after)
<1>1. r = [at |-> r.at, next |-> r.next, guest |-> r.guest, fixture |-> r.fixture, logic |-> r.logic]
  BY DEF Work
<1>2. /\ r.at \in Steps /\ r.next \in 1..3 /\ r.guest \in Nat /\ r.fixture \in Nat
      /\ r.logic \in Logics
  BY DEF Work
<1>. HIDE DEF r
<1>3. CASE r.next < 3
  <2>1. w = [r EXCEPT !.at = step, !.next = @ + 1]
    BY <1>3, FilesAre DEF NextFile, r
  <2>2. w = [at |-> step, next |-> r.next + 1, guest |-> r.guest, fixture |-> r.fixture,
             logic |-> r.logic]
    BY <1>1, <2>1
  <2>3. r.next + 1 \in 1..3
    BY <1>2, <1>3
  <2>4. w \in Work
    BY <1>2, <2>2, <2>3 DEF Work
  <2>. HIDE DEF w
  <2>. QED  BY <1>3, <2>2, <2>4 DEF w, r
<1>4. CASE r.next = 3
  <2>1. w = [r EXCEPT !.at = after, !.next = 1]
    BY <1>4, FilesAre DEF NextFile, r
  <2>2. w = [at |-> after, next |-> 1, guest |-> r.guest, fixture |-> r.fixture,
             logic |-> r.logic]
    BY <1>1, <2>1
  <2>3. w \in Work
    BY <1>2, <2>2 DEF Work
  <2>. HIDE DEF w
  <2>. QED  BY <1>4, <2>2, <2>3 DEF w, r
<1>. QED  BY <1>2, <1>3, <1>4

\* A run that goes elsewhere.
LEMMA WorkGoesOn ==
  ASSUME NEW r \in Work, NEW step \in Steps, NEW next \in 1..3
  PROVE  [r EXCEPT !.at = step, !.next = next]
           = [at |-> step, next |-> next, guest |-> r.guest, fixture |-> r.fixture,
              logic |-> r.logic]
<1>1. PICK at \in Steps, n \in 1..3, g \in Nat, f \in Nat, l \in Logics :
           r = [at |-> at, next |-> n, guest |-> g, fixture |-> f, logic |-> l]
  BY DEF Work
<1>. DEFINE x == [r EXCEPT !.at = step]
<1>2. x = [at |-> step, next |-> n, guest |-> g, fixture |-> f, logic |-> l]
  BY <1>1
<1>. HIDE DEF x
<1>3. [x EXCEPT !.next = next]
        = [at |-> step, next |-> next, guest |-> g, fixture |-> f, logic |-> l]
  BY <1>2
<1>4. r.guest = g /\ r.fixture = f /\ r.logic = l
  BY <1>1
<1>. QED  BY <1>3, <1>4 DEF x

\* What each step of a run makes of the run.
LEMMA StartIs ==
  ASSUME TypeOK, NEW p \in Runs, Start(p)
  PROVE  /\ run'[p] \in Work /\ run'[p].at = "look" /\ run'[p].logic = Proved(guest, fixture)
         /\ run'[p].guest = guest /\ run'[p].fixture = fixture
         /\ TypeOK' /\ \A q \in Runs \ {p} : run'[q] = run[q]
<1>. DEFINE x == [at |-> "look", next |-> 1, guest |-> guest, fixture |-> fixture,
                  logic |-> Proved(guest, fixture)]
<1>1. x \in Work
  BY ProvedIsLogic DEF TypeOK, Work, Steps
<1>2. Become(p, x)
  BY DEF Start
<1>3. /\ x.at = "look" /\ x.logic = Proved(guest, fixture)
      /\ x.guest = guest /\ x.fixture = fixture
  OBVIOUS
<1>. HIDE DEF x
<1>4. suspect' \subseteq Causes
  BY DEF Start, TypeOK, Causes
<1>. QED  BY <1>1, <1>2, <1>3, <1>4, RunTypes DEF Start, TypeOK

LEMMA LookIs ==
  ASSUME TypeOK, NEW p \in Runs, Look(p)
  PROVE  /\ run'[p] \in Work /\ run'[p].logic = run[p].logic
         /\ run'[p].guest = run[p].guest /\ run'[p].fixture = run[p].fixture
         /\ \/ run'[p].at = "look"
            \/ run'[p].at = "read" /\ file["baseline"] # Absent
            \/ run'[p].at = "prove" /\ run'[p].next = 1 /\ \E n \in Names : file[n] = Absent
         /\ TypeOK' /\ \A q \in Runs \ {p} : run'[q] = run[q]
<1>1. run[p] \in Work /\ Name(p) \in Names /\ run[p].next \in 1..3
  BY AtWork DEF Look, Steps
<1>2. CASE Exists(Name(p))
  <2>. DEFINE x == NextFile(p, "look", "read")
  <2>1. /\ x \in Work
        /\ x.guest = run[p].guest /\ x.fixture = run[p].fixture /\ x.logic = run[p].logic
        /\ x.at = "look" \/ (run[p].next = 3 /\ x.at = "read")
    <3>1. "look" \in Steps /\ "read" \in Steps
      BY DEF Steps
    <3>. QED  BY <1>1, <3>1, NextFileIs
  <2>2. Become(p, x)
    BY <1>2 DEF Look
  <2>3. run[p].next = 3 => file["baseline"] # Absent
    BY <1>2, FilesAre DEF Exists, Name
  <2>. HIDE DEF x
  <2>. QED  BY <2>1, <2>2, <2>3, RunTypes DEF Look, TypeOK
<1>3. CASE ~Exists(Name(p))
  <2>. DEFINE x == [run[p] EXCEPT !.at = "prove", !.next = 1]
  <2>1. /\ x \in Work
        /\ x.guest = run[p].guest /\ x.fixture = run[p].fixture /\ x.logic = run[p].logic
        /\ x.at = "prove" /\ x.next = 1
    <3>1. "prove" \in Steps /\ 1 \in 1..3
      BY DEF Steps
    <3>2. x = [at |-> "prove", next |-> 1, guest |-> run[p].guest, fixture |-> run[p].fixture,
               logic |-> run[p].logic]
      BY <1>1, <3>1, WorkGoesOn
    <3>3. run[p].guest \in Nat /\ run[p].fixture \in Nat /\ run[p].logic \in Logics
      BY <1>1 DEF Work
    <3>. HIDE DEF x
    <3>. QED  BY <3>1, <3>2, <3>3 DEF Work
  <2>2. Become(p, x)
    BY <1>3 DEF Look
  <2>. HIDE DEF x
  <2>. QED  BY <1>1, <1>3, <2>1, <2>2, RunTypes DEF Look, TypeOK, Exists
<1>. QED  BY <1>2, <1>3

LEMMA ReadIs ==
  ASSUME TypeOK, NEW p \in Runs, Read(p)
  PROVE  /\ run'[p] \in Work /\ run'[p].at \in {"read", "check"}
         /\ Name(p) \in Names
         /\ run'[p].logic = [run[p].logic EXCEPT ![Name(p)] = file[Name(p)].content]
         /\ run'[p].guest = run[p].guest /\ run'[p].fixture = run[p].fixture
         /\ TypeOK' /\ \A q \in Runs \ {p} : run'[q] = run[q]
<1>1. run[p] \in Work /\ Name(p) \in Names
  BY AtWork DEF Read, Steps
<1>2. file[Name(p)].content \in Contents(Name(p))
  BY <1>1, Distinguished DEF Read, Decodes, TypeOK, IsFile
<1>. DEFINE w == NextFile(p, "read", "check")
            l == [run[p].logic EXCEPT ![Name(p)] = file[Name(p)].content]
            x == [w EXCEPT !.logic[Name(p)] = file[Name(p)].content]
<1>3. /\ w \in Work /\ w.at \in {"read", "check"} /\ w.logic = run[p].logic
      /\ w.guest = run[p].guest /\ w.fixture = run[p].fixture
  BY <1>1, NextFileIs DEF Steps
<1>4. l \in Logics
  BY <1>1, <1>2, LogicExcept DEF Work
<1>. HIDE DEF w
<1>5. x = [w EXCEPT !.logic = l]
  BY <1>3 DEF Work
<1>. HIDE DEF l
<1>6. x \in Work /\ x.at = w.at /\ x.logic = l /\ x.guest = w.guest /\ x.fixture = w.fixture
  BY <1>3, <1>4, <1>5 DEF Work
<1>7. Become(p, x)
  BY DEF Read, w
<1>. HIDE DEF x
<1>. QED  BY <1>1, <1>3, <1>6, <1>7, RunTypes DEF Read, TypeOK, l

LEMMA ProveIs ==
  ASSUME TypeOK, NEW p \in Runs, Prove(p)
  PROVE  /\ run'[p] \in Work /\ run'[p].at = "open" /\ run'[p].next = run[p].next
         /\ run'[p].logic = Proved(run[p].guest, run[p].fixture)
         /\ run'[p].guest = run[p].guest /\ run'[p].fixture = run[p].fixture
         /\ TypeOK' /\ \A q \in Runs \ {p} : run'[q] = run[q]
<1>1. run[p] \in Work /\ run[p].guest \in Nat /\ run[p].fixture \in Nat
  BY AtWork DEF Prove, Steps, Work
<1>2. Proved(run[p].guest, run[p].fixture) \in Logics
  BY <1>1, ProvedIsLogic
<1>. DEFINE l == Proved(run[p].guest, run[p].fixture)
            x == [run[p] EXCEPT !.at = "open", !.logic = l]
<1>. HIDE DEF l
<1>3. /\ x \in Work /\ x.at = "open" /\ x.logic = l /\ x.next = run[p].next
      /\ x.guest = run[p].guest /\ x.fixture = run[p].fixture
  BY <1>1, <1>2 DEF Work, Steps, l
<1>4. Become(p, x)
  BY DEF Prove, l
<1>. HIDE DEF x
<1>. QED  BY <1>3, <1>4, RunTypes DEF Prove, TypeOK, l

LEMMA OpenIs ==
  ASSUME TypeOK, NEW p \in Runs, Open(p)
  PROVE  /\ run'[p] \in Work /\ run'[p].at = "write" /\ run'[p].next = run[p].next
         /\ run'[p].logic = run[p].logic
         /\ run'[p].guest = run[p].guest /\ run'[p].fixture = run[p].fixture
         /\ TypeOK' /\ \A q \in Runs \ {p} : run'[q] = run[q]
<1>1. run[p] \in Work /\ Name(p) \in Names
  BY AtWork DEF Open, Steps
<1>. DEFINE x == [run[p] EXCEPT !.at = "write"]
<1>2. /\ x \in Work /\ x.at = "write" /\ x.logic = run[p].logic /\ x.next = run[p].next
      /\ x.guest = run[p].guest /\ x.fixture = run[p].fixture
  BY <1>1 DEF Work, Steps
<1>3. Become(p, x)
  BY DEF Open
<1>4. DOMAIN file' = Names /\ \A n \in Names : IsFile(n, file'[n])
  BY <1>1 DEF Open, TypeOK, IsFile
<1>. HIDE DEF x
<1>. QED  BY <1>2, <1>3, <1>4, RunTypes DEF Open, TypeOK

LEMMA WriteIs ==
  ASSUME TypeOK, NEW p \in Runs, Write(p)
  PROVE  /\ run'[p] \in Work /\ run'[p].logic = run[p].logic
         /\ \/ run[p].next < 3 /\ run'[p].at = "open" /\ run'[p].next = run[p].next + 1
            \/ run[p].next = 3 /\ run'[p].at = "check" /\ run'[p].next = 1
         /\ run'[p].guest = run[p].guest /\ run'[p].fixture = run[p].fixture
         /\ TypeOK' /\ \A q \in Runs \ {p} : run'[q] = run[q]
<1>1. run[p] \in Work /\ Name(p) \in Names
  BY AtWork DEF Write, Steps
<1>. DEFINE x == NextFile(p, "open", "check")
<1>2. /\ x \in Work /\ x.logic = run[p].logic
      /\ x.guest = run[p].guest /\ x.fixture = run[p].fixture
      /\ \/ run[p].next < 3 /\ x.at = "open" /\ x.next = run[p].next + 1
         \/ run[p].next = 3 /\ x.at = "check" /\ x.next = 1
  BY <1>1, NextFileIs DEF Steps
<1>3. Become(p, x)
  BY DEF Write
<1>4. run[p].logic[Name(p)] \in Contents(Name(p))
  <2>1. run[p].logic \in Logics
    BY <1>1 DEF Work
  <2>. QED  BY <1>1, <2>1 DEF Logics, Names
<1>5. PICK left \in Leaves(p) : file' = [file EXCEPT ![Name(p)] = left]
  BY DEF Write
<1>6. \/ left = Absent \/ left = file[Name(p)] \/ left = Torn
      \/ left = Complete(Mixture) \/ left = Complete(run[p].logic[Name(p)])
  BY DEF Leaves
<1>7. IsFile(Name(p), left)
  BY <1>1, <1>4, <1>6 DEF TypeOK, IsFile, Contents
<1>8. DOMAIN file' = Names /\ \A n \in Names : IsFile(n, file'[n])
  BY <1>1, <1>5, <1>7 DEF TypeOK
<1>. HIDE DEF x
<1>. QED  BY <1>2, <1>3, <1>8, RunTypes DEF Write, TypeOK

LEMMA LeaveIs ==
  ASSUME TypeOK, NEW p \in Runs, Become(p, Idle), UNCHANGED <<guest, fixture, file>>,
         suspect' \subseteq Causes
  PROVE  /\ run'[p] = Idle
         /\ TypeOK' /\ \A q \in Runs \ {p} : run'[q] = run[q]
BY RunTypes DEF TypeOK

-----------------------------------------------------------------------------
(* The parts of the invariant.                                             *)

\* Causes are only added, and overlap is among those of every kind.
LEMMA Inherited ==
  ASSUME IInv, NEW p \in Runs, run[p] # Idle, suspect \subseteq suspect'
  PROVE  /\ ~Mixed' => Peaceful /\ \A q \in Runs \ {p} : run[q] = Idle
         /\ ~Stale' => Fresh /\ ~Mixed'
         /\ ~Disturbed' => Whole /\ ~Mixed'
<1>1. (~Mixed' => ~Mixed) /\ (~Stale' => ~Stale /\ ~Mixed') /\ (~Disturbed' => ~Disturbed /\ ~Mixed')
  BY DEF Mixed, Stale, Disturbed
<1>. QED  BY <1>1 DEF IInv, Sound, Peaceful

LEMMA OnlyRunPeaceful ==
  ASSUME NEW p \in Runs, \A q \in Runs \ {p} : run'[q] = Idle,
         At(p, "write")' => ~Decodes(Name(p))'
  PROVE  Peaceful'
<1>1. \A q \in Runs \ {p} : ~At(q, "write")'
  BY Distinguished DEF At
<1>. QED  BY <1>1 DEF Peaceful

LEMMA OnlyRunFresh ==
  ASSUME NEW p \in Runs, \A q \in Runs \ {p} : run'[q] = Idle,
         run'[p] # Idle => Current(p)', FilesCurrent'
  PROVE  Fresh'
BY DEF Fresh

LEMMA OnlyRunWhole ==
  ASSUME NEW p \in Runs, \A q \in Runs \ {p} : run'[q] = Idle,
         run'[p] # Idle => Steady(p)',
         file'["baseline"] # Absent /\ ~Suspicious(p)' => AllDecode'
  PROVE  Whole'
BY DEF Whole

\* What does not touch the files leaves them current and decoding.
LEMMA FilesStay ==
  ASSUME UNCHANGED <<guest, fixture, file>>
  PROVE  /\ FilesCurrent' <=> FilesCurrent
         /\ AllDecode' <=> AllDecode
         /\ \A n : Decodes(n)' <=> Decodes(n)
BY DEF FilesCurrent, AllDecode, Decodes

\* An idle run writes nothing, so neither does any but the one at work.
LEMMA NoneSuspicious ==
  ASSUME Whole, NEW p \in Runs, \A q \in Runs \ {p} : run[q] = Idle, ~Suspicious(p),
         file["baseline"] # Absent
  PROVE  AllDecode
<1>1. \A q \in Runs : ~Suspicious(q)
  BY Distinguished DEF Suspicious, At
<1>. QED  BY <1>1 DEF Whole

LEMMA DecodesIs ==
  \A n : /\ file[n] = Absent \/ file[n] = Torn => ~Decodes(n)
         /\ \A x : file[n] = Complete(x) => Decodes(n) /\ file[n].content = x
BY Distinguished DEF Decodes

-----------------------------------------------------------------------------
(* The steps of a run.                                                     *)

LEMMA StartSound ==
  ASSUME IInv, NEW p \in Runs, Start(p)
  PROVE  Sound'
<1>1. TypeOK /\ UNCHANGED <<guest, fixture, file>>
  BY DEF IInv, Start
<1>2. /\ run'[p].at = "look" /\ run'[p].logic = Proved(guest, fixture)
      /\ run'[p].guest = guest /\ run'[p].fixture = fixture
      /\ \A q \in Runs \ {p} : run'[q] = run[q]
  BY <1>1, StartIs
<1>3. ~Mixed' => \A q \in Runs : run[q] = Idle
  BY DEF Start, Mixed, Active
<1>4. (~Stale' => ~Stale /\ ~Mixed') /\ (~Disturbed' => ~Disturbed /\ ~Mixed')
  BY DEF Start, Mixed, Stale, Disturbed
<1>5. ~Mixed' => Peaceful'
  BY <1>2, <1>3, OnlyRunPeaceful DEF At
<1>6. ~Stale' => Fresh'
  BY <1>1, <1>2, <1>3, <1>4, OnlyRunFresh, FilesStay DEF IInv, Sound, Fresh, Current
<1>7. ~Disturbed' => Whole'
  <2>. SUFFICES ASSUME ~Disturbed'
                PROVE  Whole'
    OBVIOUS
  <2>1. (\A q \in Runs : run[q] = Idle) /\ Whole
    BY <1>3, <1>4 DEF IInv, Sound
  <2>2. \A q \in Runs : ~Suspicious(q)
    BY <2>1, Distinguished DEF Suspicious, At
  <2>3. file'["baseline"] # Absent => AllDecode'
    BY <1>1, <2>1, <2>2, FilesStay DEF Whole
  <2>4. Steady(p)'
    BY <1>2 DEF Steady, At
  <2>. QED  BY <1>2, <2>1, <2>3, <2>4, OnlyRunWhole
<1>. QED  BY <1>5, <1>6, <1>7 DEF Sound

LEMMA LookSound ==
  ASSUME IInv, NEW p \in Runs, Look(p)
  PROVE  Sound'
<1>1. TypeOK /\ run[p] # Idle /\ UNCHANGED <<guest, fixture, file, suspect>> /\ ~Suspicious(p)
  BY AtWork DEF Look, IInv, Steps, Suspicious, At
<1>2. /\ run'[p].logic = run[p].logic
      /\ run'[p].guest = run[p].guest /\ run'[p].fixture = run[p].fixture
      /\ \/ run'[p].at = "look"
         \/ run'[p].at = "read" /\ file["baseline"] # Absent
         \/ run'[p].at = "prove" /\ run'[p].next = 1 /\ \E n \in Names : file[n] = Absent
      /\ \A q \in Runs \ {p} : run'[q] = run[q]
  BY <1>1, LookIs
<1>3. ~Mixed' => Peaceful'
  BY <1>1, <1>2, Inherited, OnlyRunPeaceful DEF At
<1>4. ~Stale' => Fresh'
  BY <1>1, <1>2, Inherited, OnlyRunFresh, FilesStay DEF Fresh, Current
<1>5. ~Disturbed' => Whole'
  <2>. SUFFICES ASSUME ~Disturbed'
                PROVE  Whole'
    OBVIOUS
  <2>1. Whole /\ \A q \in Runs \ {p} : run[q] = Idle
    BY <1>1, Inherited
  <2>2. file["baseline"] # Absent => AllDecode
    BY <1>1, <2>1, NoneSuspicious
  <2>3. file'["baseline"] # Absent => AllDecode'
    BY <1>1, <2>2, FilesStay
  <2>4. (\E n \in Names : file[n] = Absent) => file["baseline"] = Absent
    BY <2>2, DecodesIs DEF AllDecode
  <2>5. Steady(p)'
    BY <1>1, <1>2, <2>3, <2>4 DEF Steady, At
  <2>. QED  BY <1>2, <2>1, <2>3, <2>5, OnlyRunWhole
<1>. QED  BY <1>3, <1>4, <1>5 DEF Sound

LEMMA ReadSound ==
  ASSUME IInv, NEW p \in Runs, Read(p)
  PROVE  Sound'
<1>1. /\ TypeOK /\ run[p] # Idle /\ run[p] \in Work
      /\ UNCHANGED <<guest, fixture, file, suspect>>
      /\ ~Suspicious(p) /\ At(p, "read") /\ Decodes(Name(p))
  BY AtWork DEF Read, IInv, Steps, Suspicious, At
<1>2. /\ run'[p].at \in {"read", "check"}
      /\ Name(p) \in Names
      /\ run'[p].logic = [run[p].logic EXCEPT ![Name(p)] = file[Name(p)].content]
      /\ run'[p].guest = run[p].guest /\ run'[p].fixture = run[p].fixture
      /\ \A q \in Runs \ {p} : run'[q] = run[q]
  BY <1>1, ReadIs
<1>3. ~Mixed' => Peaceful'
  BY <1>1, <1>2, Inherited, OnlyRunPeaceful DEF At
<1>4. ~Stale' => Fresh'
  <2>. SUFFICES ASSUME ~Stale'
                PROVE  Fresh'
    OBVIOUS
  <2>1. Fresh /\ \A q \in Runs \ {p} : run[q] = Idle
    BY <1>1, Inherited
  <2>2. file[Name(p)].content = run[p].logic[Name(p)]
    BY <1>1, <1>2, <2>1 DEF Fresh, Current, FilesCurrent
  <2>3. run'[p].logic = run[p].logic
    BY <1>1, <1>2, <2>2 DEF Work, Logics
  <2>. QED  BY <1>1, <1>2, <2>1, <2>3, OnlyRunFresh, FilesStay DEF Fresh, Current
<1>5. ~Disturbed' => Whole'
  <2>. SUFFICES ASSUME ~Disturbed'
                PROVE  Whole'
    OBVIOUS
  <2>1. Whole /\ \A q \in Runs \ {p} : run[q] = Idle
    BY <1>1, Inherited
  <2>2. AllDecode'
    BY <1>1, <2>1, FilesStay DEF Whole, Steady
  <2>3. Steady(p)'
    BY <1>2, <2>2 DEF Steady, At
  <2>. QED  BY <1>2, <2>1, <2>2, <2>3, OnlyRunWhole
<1>. QED  BY <1>3, <1>4, <1>5 DEF Sound

LEMMA ProveSound ==
  ASSUME IInv, NEW p \in Runs, Prove(p)
  PROVE  Sound'
<1>1. TypeOK /\ run[p] # Idle /\ At(p, "prove") /\ UNCHANGED <<guest, fixture, file, suspect>>
  BY AtWork DEF Prove, IInv, Steps
<1>2. /\ run'[p].at = "open" /\ run'[p].next = run[p].next
      /\ run'[p].logic = Proved(run[p].guest, run[p].fixture)
      /\ run'[p].guest = run[p].guest /\ run'[p].fixture = run[p].fixture
      /\ \A q \in Runs \ {p} : run'[q] = run[q]
  BY <1>1, ProveIs
<1>3. ~Mixed' => Peaceful'
  BY <1>1, <1>2, Inherited, OnlyRunPeaceful DEF At
<1>4. ~Stale' => Fresh'
  BY <1>1, <1>2, Inherited, OnlyRunFresh, FilesStay DEF Fresh, Current
<1>5. ~Disturbed' => Whole'
  <2>. SUFFICES ASSUME ~Disturbed'
                PROVE  Whole'
    OBVIOUS
  <2>1. Whole /\ \A q \in Runs \ {p} : run[q] = Idle
    BY <1>1, Inherited
  <2>2. file'["baseline"] = Absent /\ run'[p].next = 1
    BY <1>1, <1>2, <2>1 DEF Whole, Steady
  <2>3. 1..(run'[p].next - 1) = {}
    BY <2>2
  <2>4. Steady(p)'
    BY <1>2, <2>2, <2>3 DEF Steady, At
  <2>. QED  BY <1>2, <2>1, <2>2, <2>4, OnlyRunWhole
<1>. QED  BY <1>3, <1>4, <1>5 DEF Sound

LEMMA OpenSound ==
  ASSUME IInv, NEW p \in Runs, Open(p)
  PROVE  Sound'
<1>1. /\ TypeOK /\ run[p] # Idle /\ run[p].next \in 1..3 /\ Name(p) \in Names
      /\ At(p, "open") /\ ~Suspicious(p)
      /\ UNCHANGED <<guest, fixture, suspect>>
      /\ file' = [file EXCEPT ![Name(p)] = Torn]
  BY AtWork DEF Open, IInv, Steps, Suspicious, At
<1>2. /\ run'[p].at = "write" /\ run'[p].next = run[p].next
      /\ run'[p].logic = run[p].logic
      /\ run'[p].guest = run[p].guest /\ run'[p].fixture = run[p].fixture
      /\ \A q \in Runs \ {p} : run'[q] = run[q]
  BY <1>1, OpenIs
<1>3. Name(p)' = Name(p)
  BY <1>2 DEF Name
<1>4. /\ file'[Name(p)] = Torn
      /\ \A n \in Names \ {Name(p)} : file'[n] = file[n]
  BY <1>1 DEF TypeOK
<1>5. /\ ~Decodes(Name(p))'
      /\ \A n \in Names \ {Name(p)} : Decodes(n)' <=> Decodes(n)
  BY <1>3, <1>4, Distinguished DEF Decodes
<1>6. ~Mixed' => Peaceful'
  BY <1>1, <1>2, <1>3, <1>5, Inherited, OnlyRunPeaceful
<1>7. ~Stale' => Fresh'
  <2>. SUFFICES ASSUME ~Stale'
                PROVE  Fresh'
    OBVIOUS
  <2>1. Fresh /\ \A q \in Runs \ {p} : run[q] = Idle
    BY <1>1, Inherited
  <2>2. FilesCurrent'
    <3>. SUFFICES ASSUME NEW n \in Names, Decodes(n)'
                  PROVE  file'[n].content = Proved(guest, fixture)[n]
      BY <1>1 DEF FilesCurrent
    <3>1. n # Name(p)
      BY <1>4, Distinguished DEF Decodes
    <3>. QED  BY <1>4, <1>5, <2>1, <3>1 DEF Fresh, FilesCurrent
  <2>. QED  BY <1>1, <1>2, <2>1, <2>2, OnlyRunFresh DEF Fresh, Current
<1>8. ~Disturbed' => Whole'
  <2>. SUFFICES ASSUME ~Disturbed'
                PROVE  Whole'
    OBVIOUS
  <2>1. Whole /\ \A q \in Runs \ {p} : run[q] = Idle
    BY <1>1, Inherited
  <2>2. /\ file["baseline"] = Absent
        /\ \A i \in 1..(run[p].next - 1) : Decodes(Files[i])
    BY <1>1, <2>1 DEF Whole, Steady
  <2>3. \A i \in 1..(run[p].next - 1) : Files[i] \in Names \ {Name(p)}
    BY <1>1, FilesAre DEF Name
  <2>4. \A i \in 1..(run'[p].next - 1) : Decodes(Files[i])'
    <3>. SUFFICES ASSUME NEW i \in 1..(run[p].next - 1)
                  PROVE  file'[Files[i]].is = "complete"
      BY <1>2 DEF Decodes
    <3>1. file[Files[i]].is = "complete"
      BY <2>2 DEF Decodes
    <3>. QED  BY <1>4, <2>3, <3>1
  <2>5. ~Suspicious(p)' => file'["baseline"] = Absent
    <3>1. ~Suspicious(p)' => Name(p) # "baseline"
      BY <1>2, <1>3 DEF Suspicious, At
    <3>. QED  BY <1>4, <2>2, <3>1 DEF Names
  <2>6. (file[Name(p)] # Absent)'
    BY <1>3, <1>4, Distinguished DEF Torn, Absent
  <2>7. Steady(p)'
    BY <1>2, <2>4, <2>5, <2>6 DEF Steady, At
  <2>. QED  BY <1>2, <2>1, <2>5, <2>7, OnlyRunWhole
<1>. QED  BY <1>6, <1>7, <1>8 DEF Sound

\* Alone, a run leaves what it has, or nothing where the file was deleted.
LEMMA WriteAlone ==
  ASSUME IInv, NEW p \in Runs, Write(p), ~Mixed
  PROVE  /\ \/ file'[Name(p)] = Complete(run[p].logic[Name(p)])
            \/ file[Name(p)] = Absent /\ file'[Name(p)] = Absent
         /\ \A n \in Names \ {Name(p)} : file'[n] = file[n]
<1>1. TypeOK /\ run[p] # Idle /\ Name(p) \in Names /\ At(p, "write")
  BY AtWork DEF Write, IInv, Steps
<1>2. Peaceful /\ \A q \in Runs \ {p} : run[q] = Idle
  BY <1>1 DEF IInv, Sound, Peaceful
<1>3. ~Contended(p)
  BY <1>1, <1>2 DEF Contended, Peaceful, Active
<1>4. PICK left \in Leaves(p) : file' = [file EXCEPT ![Name(p)] = left]
  BY DEF Write
<1>5. left = Complete(run[p].logic[Name(p)]) \/ (file[Name(p)] = Absent /\ left = Absent)
  BY <1>3 DEF Leaves
<1>. QED  BY <1>1, <1>4, <1>5 DEF TypeOK

LEMMA WriteSound ==
  ASSUME IInv, NEW p \in Runs, Write(p)
  PROVE  Sound'
<1>1. /\ TypeOK /\ run[p] # Idle /\ run[p].next \in 1..3 /\ Name(p) \in Names
      /\ At(p, "write") /\ UNCHANGED <<guest, fixture, suspect>>
  BY AtWork DEF Write, IInv, Steps
<1>2. /\ run'[p].logic = run[p].logic
      /\ \/ run[p].next < 3 /\ run'[p].at = "open" /\ run'[p].next = run[p].next + 1
         \/ run[p].next = 3 /\ run'[p].at = "check" /\ run'[p].next = 1
      /\ run'[p].guest = run[p].guest /\ run'[p].fixture = run[p].fixture
      /\ \A q \in Runs \ {p} : run'[q] = run[q]
  BY <1>1, WriteIs
<1>3. ~Mixed' => Peaceful'
  BY <1>1, <1>2, Inherited, OnlyRunPeaceful DEF At
<1>4. ~Mixed' => ~Mixed
  BY <1>1 DEF Mixed
<1>5. ~Stale' => Fresh'
  <2>. SUFFICES ASSUME ~Stale'
                PROVE  Fresh'
    OBVIOUS
  <2>1. Fresh /\ ~Mixed /\ \A q \in Runs \ {p} : run[q] = Idle
    BY <1>1, <1>4, Inherited
  <2>2. FilesCurrent'
    <3>. SUFFICES ASSUME NEW n \in Names, Decodes(n)'
                  PROVE  file'[n].content = Proved(guest, fixture)[n]
      BY <1>1 DEF FilesCurrent
    <3>0. file'[n].is = "complete"
      BY DEF Decodes
    <3>1. CASE n = Name(p)
      <4>1. file'[n] = Complete(run[p].logic[n])
        BY <2>1, <3>0, <3>1, WriteAlone, Distinguished
      <4>2. run[p].logic = Proved(guest, fixture)
        BY <1>1, <2>1 DEF Fresh, Current
      <4>. QED  BY <4>1, <4>2, Distinguished
    <3>2. CASE n # Name(p)
      <4>1. file'[n] = file[n]
        BY <2>1, <3>2, WriteAlone
      <4>. QED  BY <2>1, <3>0, <4>1 DEF Fresh, FilesCurrent, Decodes
    <3>. QED  BY <3>1, <3>2
  <2>. QED  BY <1>1, <1>2, <2>1, <2>2, OnlyRunFresh DEF Fresh, Current
<1>6. ~Disturbed' => Whole'
  <2>. SUFFICES ASSUME ~Disturbed'
                PROVE  Whole'
    OBVIOUS
  <2>1. Whole /\ ~Mixed /\ \A q \in Runs \ {p} : run[q] = Idle
    BY <1>1, <1>4, Inherited
  <2>2. /\ \A i \in 1..(run[p].next - 1) : Decodes(Files[i])
        /\ ~Suspicious(p) => file["baseline"] = Absent
    BY <1>1, <2>1 DEF Whole, Steady
  <2>3. file[Name(p)] # Absent
    BY <1>1, <2>1 DEF Whole, Steady
  <2>4. /\ file'[Name(p)].is = "complete"
        /\ \A n \in Names \ {Name(p)} : file'[n] = file[n]
    BY <2>1, <2>3, WriteAlone, Distinguished
  <2>5. Name(p) = Files[run[p].next]
    BY DEF Name
  <2>6. \A i \in 1..run[p].next : file'[Files[i]].is = "complete"
    <3>. SUFFICES ASSUME NEW i \in 1..run[p].next
                  PROVE  file'[Files[i]].is = "complete"
      OBVIOUS
    <3>1. CASE i = run[p].next
      BY <3>1, <2>4, <2>5
    <3>2. CASE i # run[p].next
      <4>1. Files[i] \in Names \ {Name(p)}
        BY <1>1, <3>2, <2>5, FilesAre
      <4>2. Decodes(Files[i])
        BY <1>1, <2>2, <3>2
      <4>. QED  BY <2>4, <4>1, <4>2 DEF Decodes
    <3>. QED  BY <3>1, <3>2
  <2>7. CASE run[p].next < 3
    <3>1. Name(p) # "baseline" /\ ~Suspicious(p)
      BY <1>1, <2>5, <2>7, FilesAre DEF Suspicious
    <3>2. file'["baseline"] = Absent
      BY <2>2, <2>4, <3>1 DEF Names
    <3>3. \A i \in 1..(run'[p].next - 1) : Decodes(Files[i])'
      <4>1. 1..(run'[p].next - 1) = 1..run[p].next
        BY <1>1, <1>2, <2>7
      <4>. QED  BY <2>6, <4>1 DEF Decodes, Files
    <3>4. Steady(p)'
      BY <1>1, <1>2, <2>7, <3>2, <3>3 DEF Steady, At
    <3>. QED  BY <1>2, <2>1, <3>2, <3>4, OnlyRunWhole
  <2>8. CASE run[p].next = 3
    <3>1. AllDecode'
      BY <2>6, <2>8, FilesAre DEF AllDecode, Decodes, Names
    <3>2. Steady(p)'
      BY <1>1, <1>2, <2>8 DEF Steady, At
    <3>. QED  BY <1>2, <2>1, <3>1, <3>2, OnlyRunWhole
  <2>. QED  BY <1>1, <2>7, <2>8
<1>. QED  BY <1>3, <1>5, <1>6 DEF Sound

\* A run that ends elsewhere than in the last write leaves all in order.
LEMMA LeaveSound ==
  ASSUME IInv, NEW p \in Runs, run[p] # Idle, Become(p, Idle),
         UNCHANGED <<guest, fixture, file>>,
         suspect \subseteq suspect', Suspicious(p) => Disturbed'
  PROVE  Sound'
<1>1. TypeOK /\ run'[p] = Idle /\ \A q \in Runs \ {p} : run'[q] = run[q]
  BY RunTypes DEF IInv
<1>2. ~At(p, "write")'
  BY <1>1, Distinguished DEF At
<1>3. ~Mixed' => Peaceful'
  BY <1>1, <1>2, Inherited, OnlyRunPeaceful
<1>4. ~Stale' => Fresh'
  BY <1>1, Inherited, OnlyRunFresh, FilesStay DEF Fresh
<1>5. ~Disturbed' => Whole'
  <2>. SUFFICES ASSUME ~Disturbed'
                PROVE  Whole'
    OBVIOUS
  <2>1. Whole /\ \A q \in Runs \ {p} : run[q] = Idle
    BY Inherited
  <2>2. file["baseline"] # Absent => AllDecode
    BY <2>1, NoneSuspicious
  <2>. QED  BY <1>1, <2>1, <2>2, FilesStay, OnlyRunWhole
<1>. QED  BY <1>3, <1>4, <1>5 DEF Sound

-----------------------------------------------------------------------------
(* What happens around the runs.                                           *)

LEMMA StopSound ==
  ASSUME IInv, NEW p \in Runs, Stop(p)
  PROVE  TypeOK' /\ Sound'
<1>1. /\ TypeOK /\ run[p] # Idle /\ Become(p, Idle) /\ UNCHANGED <<guest, fixture, file>>
      /\ suspect \subseteq suspect' /\ suspect' \subseteq Causes
  BY DEF Stop, IInv, TypeOK, Causes
<1>2. Suspicious(p) => Disturbed'
  BY DEF Stop, Disturbed
<1>. QED  BY <1>1, <1>2, LeaveIs, LeaveSound

\* Guest and fixture matter to nobody while nothing is stored.
LEMMA ChangeSound ==
  ASSUME IInv, ChangeGuest \/ ChangeFixture
  PROVE  TypeOK' /\ Sound'
<1>1. /\ TypeOK /\ UNCHANGED <<file, run>> /\ suspect' = SuspectIfChanged
      /\ guest' \in Nat /\ fixture' \in Nat
  BY DEF ChangeGuest, ChangeFixture, IInv, TypeOK
<1>2. suspect \subseteq suspect' /\ suspect' \subseteq Causes
  BY <1>1 DEF SuspectIfChanged, TypeOK, Causes
<1>3. TypeOK'
  BY <1>1, <1>2 DEF TypeOK
<1>4. (~Mixed' => ~Mixed) /\ (~Disturbed' => ~Disturbed)
  BY <1>2 DEF Mixed, Disturbed
<1>5. ~Mixed' => Peaceful'
  BY <1>1, <1>4 DEF IInv, Sound, Peaceful, At, Decodes, Name
<1>6. ~Stale' => Fresh'
  <2>. SUFFICES ASSUME ~Stale'
                PROVE  Fresh'
    OBVIOUS
  <2>1. Clean
    BY <1>1 DEF SuspectIfChanged, Stale
  <2>2. \A q \in Runs : run'[q] = Idle
    BY <1>1, <2>1 DEF Clean, Active
  <2>3. \A n \in Names : file'[n] = Absent
    BY <1>1, <2>1, FilesAre DEF Clean, NothingStored
  <2>4. FilesCurrent'
    BY <2>3, Distinguished DEF FilesCurrent, Decodes
  <2>. QED  BY <2>2, <2>4 DEF Fresh
<1>7. ~Disturbed' => Whole'
  BY <1>1, <1>4 DEF IInv, Sound, Whole, Steady, AllDecode, Suspicious, At, Decodes, Name
<1>. QED  BY <1>3, <1>5, <1>6, <1>7 DEF Sound

LEMMA DeleteSound ==
  ASSUME IInv, DeleteCache
  PROVE  TypeOK' /\ Sound'
<1>1. /\ TypeOK /\ DOMAIN file' = Names /\ \A n \in Names : file'[n] = Absent
      /\ UNCHANGED <<guest, fixture, run>>
  BY FilesAre DEF DeleteCache, IInv
<1>2. suspect' \subseteq Causes
  BY <1>1 DEF DeleteCache, TypeOK, Causes
<1>3. TypeOK'
  BY <1>1, <1>2 DEF TypeOK, IsFile
<1>4. \A n \in Names : ~Decodes(n)'
  BY <1>1, Distinguished DEF Decodes
<1>5. FilesCurrent' /\ file'["baseline"] = Absent
  BY <1>1, Distinguished DEF FilesCurrent, Decodes, Names
<1>6. \A p \in Runs : At(p, "write") => Name(p) \in Names /\ Name(p)' = Name(p)
  BY <1>1, AtWork DEF Steps, Name
<1>7. CASE Active = {}
  <2>1. \A q \in Runs : run'[q] = Idle
    BY <1>1, <1>7 DEF Active
  <2>2. \A q \in Runs : ~At(q, "write")'
    BY <2>1, Distinguished DEF At
  <2>. QED  BY <1>3, <1>5, <2>1, <2>2 DEF Sound, Peaceful, Fresh, Whole
<1>8. CASE Active # {}
  <2>1. suspect' = suspect \cup {"deletion"}
    BY <1>8 DEF DeleteCache
  <2>2. (~Mixed' => ~Mixed) /\ (~Stale' => ~Stale) /\ Disturbed'
    BY <2>1 DEF Mixed, Stale, Disturbed
  <2>3. ~Mixed' => Peaceful'
    <3>1. \A p \in Runs : At(p, "write")' => ~Decodes(Name(p))'
      <4>. SUFFICES ASSUME NEW p \in Runs, At(p, "write")
                    PROVE  file'[Name(p)].is # "complete"
        BY <1>1, <1>6 DEF At, Decodes
      <4>. QED  BY <1>1, <1>6, Distinguished
    <3>. QED  BY <1>1, <2>2, <3>1 DEF IInv, Sound, Peaceful
  <2>4. ~Stale' => Fresh'
    BY <1>1, <1>5, <2>2 DEF IInv, Sound, Fresh, Current
  <2>. QED  BY <1>3, <2>2, <2>3, <2>4 DEF Sound
<1>. QED  BY <1>7, <1>8

-----------------------------------------------------------------------------
(* The invariant.                                                          *)

LEMMA InitInvariant == Init => IInv
<1>. SUFFICES ASSUME Init
              PROVE  IInv
  OBVIOUS
<1>1. /\ guest = 0 /\ fixture = 0 /\ suspect = {}
      /\ DOMAIN file = Names /\ \A n \in Names : file[n] = Absent
      /\ run = [p \in Runs |-> Idle]
  BY FilesAre DEF Init
<1>2. TypeOK
  BY <1>1 DEF TypeOK, IsFile
<1>3. \A n \in Names : ~Decodes(n)
  BY <1>1, Distinguished DEF Decodes
<1>4. \A p \in Runs : run[p] = Idle /\ ~At(p, "write")
  BY <1>1, Distinguished DEF At
<1>5. Peaceful /\ Fresh /\ Whole
  BY <1>1, <1>3, <1>4 DEF Peaceful, Fresh, FilesCurrent, Whole, Names
<1>. QED  BY <1>2, <1>5 DEF IInv, Sound

\* A run ends of itself only where it reads, makes the directory or checks.
LEMMA EndIsWork ==
  ASSUME TypeOK, NEW p \in Runs, EndToEndOK(p) \/ Fail(p)
  PROVE  run[p] # Idle /\ ~Suspicious(p)
<1>1. At(p, "check") \/ At(p, "read") \/ At(p, "open")
  BY DEF EndToEndOK, Fail, ProvesCompliance, Unusable, Refused
<1>. QED  BY <1>1, AtWork DEF Steps, Suspicious, At

LEMMA NextInvariant ==
  ASSUME IInv, [Next]_vars
  PROVE  IInv'
<1>0. TypeOK
  BY DEF IInv
<1>1. ASSUME NEW p \in Runs, Start(p)
      PROVE  IInv'
  BY <1>0, <1>1, StartIs, StartSound DEF IInv
<1>2. ASSUME NEW p \in Runs, Look(p)
      PROVE  IInv'
  BY <1>0, <1>2, LookIs, LookSound DEF IInv
<1>3. ASSUME NEW p \in Runs, Read(p)
      PROVE  IInv'
  BY <1>0, <1>3, ReadIs, ReadSound DEF IInv
<1>4. ASSUME NEW p \in Runs, Prove(p)
      PROVE  IInv'
  BY <1>0, <1>4, ProveIs, ProveSound DEF IInv
<1>5. ASSUME NEW p \in Runs, Open(p)
      PROVE  IInv'
  BY <1>0, <1>5, OpenIs, OpenSound DEF IInv
<1>6. ASSUME NEW p \in Runs, Write(p)
      PROVE  IInv'
  BY <1>0, <1>6, WriteIs, WriteSound DEF IInv
<1>7. ASSUME NEW p \in Runs, EndToEndOK(p) \/ Fail(p)
      PROVE  IInv'
  <2>1. run[p] # Idle /\ ~Suspicious(p)
    BY <1>0, <1>7, EndIsWork
  <2>2. Become(p, Idle) /\ UNCHANGED <<guest, fixture, file, suspect>>
    BY <1>7 DEF EndToEndOK, Fail
  <2>3. TypeOK'
    BY <1>0, <2>2, LeaveIs DEF TypeOK
  <2>. QED  BY <2>1, <2>2, <2>3, LeaveSound DEF IInv
<1>8. ASSUME NEW p \in Runs, Stop(p)
      PROVE  IInv'
  BY <1>8, StopSound DEF IInv
<1>9. CASE ChangeGuest \/ ChangeFixture
  BY <1>9, ChangeSound DEF IInv
<1>10. CASE DeleteCache
  BY <1>10, DeleteSound DEF IInv
<1>11. CASE UNCHANGED vars
  BY <1>11 DEF vars, IInv, TypeOK, Sound, Mixed, Stale, Disturbed, Peaceful, Fresh, Current,
               FilesCurrent, Whole, Steady, AllDecode, Suspicious, At, Decodes, Name
<1>. QED  BY <1>1, <1>2, <1>3, <1>4, <1>5, <1>6, <1>7, <1>8, <1>9, <1>10, <1>11 DEF Next

LEMMA Invariant == Spec => []IInv
BY InitInvariant, NextInvariant, PTL DEF Spec

-----------------------------------------------------------------------------
(* The theorems.                                                           *)

\* A run over a whole cache finds what it reads and where it writes.
LEMMA SteadyIsUsable ==
  ASSUME TypeOK, NEW p \in Runs, Steady(p), Unusable(p)
  PROVE  FALSE
<1>1. CASE At(p, "read") /\ ~Decodes(Name(p))
  <2>1. Name(p) \in Names
    BY <1>1, AtWork DEF Steps
  <2>. QED  BY <1>1, <2>1 DEF Steady, AllDecode
<1>2. CASE At(p, "open") /\ DirectoryIsGone(p)
  <2>1. run[p].next \in 1..3 /\ run[p].next > 1
    BY <1>2, AtWork DEF Steps, DirectoryIsGone
  <2>2. Decodes(Files[1])
    BY <1>2, <2>1 DEF Steady
  <2>3. file["consumed"] = Absent
    BY <1>2, FilesAre DEF DirectoryIsGone, NothingStored, Names
  <2>. QED  BY <2>2, <2>3, FilesAre, DecodesIs
<1>. QED  BY <1>1, <1>2 DEF Unusable

\* Proofs of the guest and the fixture that a run has are accepted.
LEMMA CurrentIsAccepted ==
  ASSUME NEW p \in Runs, Current(p), Refused(p)
  PROVE  FALSE
<1>1. /\ run[p].logic["consumed"] = LogicProof("consumed", guest, fixture)
      /\ run[p].logic["created"] = LogicProof("created", guest, fixture)
      /\ run[p].logic["baseline"] = [made |-> guest]
      /\ run[p].guest = guest /\ run[p].fixture = fixture
  BY DEF Current, Proved
<1>2. HostAccepts(run[p].logic) /\ GuestAccepts(run[p])
  BY <1>1 DEF HostAccepts, GuestAccepts, LogicProof
<1>. QED  BY <1>2 DEF Refused, ProvesCompliance

(* For any number of runs, a file does not decode, or the directory is     *)
(* gone, only after overlap, a stop in the last write, or a deletion under *)
(* a run: the files are written and looked for in one order, and the last  *)
(* one counts.                                                             *)
THEOREM CacheUnusableOnlyIfDisturbed == Spec => UnusableOnlyIfDisturbed
<1>1. IInv => [\A p \in Runs : Fail(p) /\ Unusable(p) =>
                 suspect \cap {"overlap", "cut", "deletion"} # {}]_vars
  <2>. SUFFICES ASSUME IInv, NEW p \in Runs, Fail(p), Unusable(p), ~Disturbed
                PROVE  FALSE
    BY DEF Disturbed
  <2>1. TypeOK /\ Whole /\ run[p] # Idle
    BY EndIsWork DEF IInv, Sound
  <2>. QED  BY <2>1, SteadyIsUsable DEF Whole
<1>. QED  BY Invariant, <1>1, PTL DEF Spec, UnusableOnlyIfDisturbed

(* For any number of runs, proofs are refused only after guest or fixture  *)
(* changed over a cache that was not clean, or after overlap: what else    *)
(* decodes was proved for the guest and the fixture of the run.            *)
THEOREM CacheRefusedOnlyIfStaleOrMixed == Spec => RefusedOnlyIfStaleOrMixed
<1>1. IInv => [\A p \in Runs : Fail(p) /\ Refused(p) =>
                 suspect \cap {"change", "overlap"} # {}]_vars
  <2>. SUFFICES ASSUME IInv, NEW p \in Runs, Fail(p), Refused(p), ~Stale
                PROVE  FALSE
    BY DEF Stale
  <2>1. TypeOK /\ Fresh /\ run[p] # Idle
    BY EndIsWork DEF IInv, Sound
  <2>. QED  BY <2>1, CurrentIsAccepted DEF Fresh
<1>. QED  BY Invariant, <1>1, PTL DEF Spec, RefusedOnlyIfStaleOrMixed
=============================================================================
