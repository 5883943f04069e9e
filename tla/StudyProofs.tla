---------------------------- MODULE StudyProofs ---------------------------
(***************************************************************************)
(* Proofs about the jobs a definition is put through, for any definitions, *)
(* documents, answers, labels, floors, fitted models and thresholds: what  *)
(* is served, what an approval, a passed gate and a deployed threshold     *)
(* stand for, that the arms of the experiment are apart and its report's   *)
(* numbers are so, and that every job advances.                            *)
(***************************************************************************)
EXTENDS Experiment, SumTheorems, SequenceTheorems, TLAPS

allVars == <<vars, armVars>>

Jobs == {"define", "serve", "frontier", "routed", "build", "experiment"} \cup Ended

\* A document in hand.
Shaped(w) ==
    w = [doc |-> w.doc, mode |-> w.mode, stage |-> w.stage, tier |-> w.tier,
         attempt |-> w.attempt, answered |-> w.answered, outcomes |-> w.outcomes,
         spend |-> w.spend]

NoOutcome(w) == w.outcomes = << >>
OneOutcome(w) == \E a : w.outcomes = <<a>>
TwoOutcomes(w) == \E a, b : w.outcomes = <<a, b>>

\* One call leaves one outcome, and there are two calls at most.
Staged(w) ==
    \/ w.stage = "calling" /\ (NoOutcome(w) \/ OneOutcome(w)) /\ w.attempt \in {1, 2}
    \/ w.stage = "assessing" /\ OneOutcome(w)
    \/ w.stage = "decided" /\ (OneOutcome(w) \/ TwoOutcomes(w))
    \/ w.stage \in {"paused", "raised"}

Busy(w) == w # Idle /\ Shaped(w) /\ w.doc \in Documents /\ Staged(w)

Postponed == [status |-> "budget_exceeded"]

\* What a job has left to do, and what it can still do once it has ended.
JobInv ==
    /\ definition \in Configs
    /\ job \in Jobs
    /\ work = Idle \/ Busy(work)
    /\ todo \in Seq(Documents)
    /\ stream \in Seq([phase : {"stable", "drifted"}, doc : Documents])
    /\ arm \in 0..Len(Arms)
    /\ job = "define" => work = Idle /\ arm = 0 /\ stream = << >>
    /\ job \in {"define", "experiment"} => todo = << >>
    /\ job \in Ended => \/ work = Idle /\ todo = << >>
                        \/ work.stage = "decided"
                        \/ work.stage = "paused" /\ job = "done" /\ verdict = Postponed
                        \/ work.stage = "raised" /\ job = "crashed" /\ verdict = None
    /\ job = "experiment" => arm # 0 /\ (work # Idle => stream # << >>)

--------------------------------------------------------------------------
(* The document in hand.                                                   *)

LEMMA Appended ==
    /\ \A x : Append(<< >>, x) = <<x>> /\ Len(<<x>>) = 1 /\ <<x>> # << >>
    /\ \A a, x : Append(<<a>>, x) = <<a, x>> /\ Len(<<a, x>>) = 2 /\ <<a, x>> # << >>
  <1>1. ASSUME NEW x PROVE Append(<< >>, x) = <<x>> /\ Len(<<x>>) = 1 /\ <<x>> # << >>
    <2>1. << >> \in Seq({x}) /\ x \in {x}
      OBVIOUS
    <2>2. Append(<< >>, x) \in Seq({x}) /\ Len(Append(<< >>, x)) = 1 /\ Append(<< >>, x)[1] = x
      BY <2>1
    <2>3. <<x>> \in Seq({x}) /\ Len(<<x>>) = 1 /\ <<x>>[1] = x
      OBVIOUS
    <2>4. \A i \in 1..Len(<<x>>) : Append(<< >>, x)[i] = <<x>>[i]
      BY <2>2, <2>3
    <2>5. Append(<< >>, x) = <<x>>
      BY <2>2, <2>3, <2>4, SeqEqual
    <2> QED BY <2>3, <2>5
  <1>2. ASSUME NEW a, NEW x
        PROVE  Append(<<a>>, x) = <<a, x>> /\ Len(<<a, x>>) = 2 /\ <<a, x>> # << >>
    <2>1. <<a>> \in Seq({a, x}) /\ x \in {a, x} /\ Len(<<a>>) = 1 /\ <<a>>[1] = a
      OBVIOUS
    <2>2. /\ Append(<<a>>, x) \in Seq({a, x}) /\ Len(Append(<<a>>, x)) = 2
          /\ Append(<<a>>, x)[1] = a /\ Append(<<a>>, x)[2] = x
      BY <2>1
    <2>3. <<a, x>> \in Seq({a, x}) /\ Len(<<a, x>>) = 2 /\ <<a, x>>[1] = a /\ <<a, x>>[2] = x
      OBVIOUS
    <2>4. \A i \in 1..Len(<<a, x>>) : Append(<<a>>, x)[i] = <<a, x>>[i]
      BY <2>2, <2>3
    <2>5. Append(<<a>>, x) = <<a, x>>
      BY <2>2, <2>3, <2>4, SeqEqual
    <2> QED BY <2>3, <2>5
  <1> QED BY <1>1, <1>2

LEMMA Lengths ==
    ASSUME NEW w
    PROVE  /\ NoOutcome(w) => Len(w.outcomes) = 0
           /\ OneOutcome(w) => Len(w.outcomes) = 1 /\ w.outcomes # << >>
           /\ TwoOutcomes(w) => Len(w.outcomes) = 2 /\ w.outcomes # << >>
  BY Appended, EmptySeq DEF NoOutcome, OneOutcome, TwoOutcomes

\* What starts on a document.
LEMMA Begun ==
    ASSUME NEW doc \in Documents, NEW mode, Begin(doc, mode)
    PROVE  /\ Busy(work') /\ work'.doc = doc
           /\ work'.stage = "calling" /\ work'.attempt = 1 /\ NoOutcome(work')
  <1> DEFINE w == [doc |-> doc, mode |-> mode, stage |-> "calling", tier |-> FirstTier(mode),
                   attempt |-> 1, answered |-> 0, outcomes |-> << >>, spend |-> 0]
  <1>1. work' = w
    BY DEF Begin
  <1>2. /\ w.doc = doc /\ w.stage = "calling" /\ w.attempt = 1 /\ w.outcomes = << >>
        /\ Shaped(w)
    BY DEF Shaped
  <1>3. w # Idle
    <2>1. Idle.stage = "idle"
      BY DEF Idle
    <2> QED BY <1>2, <2>1
  <1> QED BY <1>1, <1>2, <1>3 DEF Busy, Staged, NoOutcome

\* An end of a call leaves one more outcome.
LEMMA EndedCall ==
    ASSUME Busy(work), work.stage = "calling", NEW record, NEW n, NEW m, EndCall(record, n, m)
    PROVE  /\ Busy(work') /\ work'.doc = work.doc
           /\ \/ NoOutcome(work) /\ work'.stage = "assessing" /\ OneOutcome(work')
              \/ OneOutcome(work) /\ work'.stage = "decided" /\ TwoOutcomes(work')
  <1> DEFINE o == [record |-> record, attempts |-> n]
             next == IF work.outcomes = << >> THEN "assessing" ELSE "decided"
             s == work.spend + m * Price[work.tier]
             w == [doc |-> work.doc, mode |-> work.mode, stage |-> next, tier |-> work.tier,
                   attempt |-> work.attempt, answered |-> work.answered,
                   outcomes |-> Append(work.outcomes, o), spend |-> s]
  <1>1. work' = w
    <2>1. work' = [work EXCEPT !.outcomes = Append(@, o), !.spend = s, !.stage = next]
      BY DEF EndCall
    <2> HIDE DEF o, next, s
    <2> QED BY <2>1 DEF Busy, Shaped
  <1>2. /\ w.doc = work.doc /\ w.stage = next /\ w.outcomes = Append(work.outcomes, o)
        /\ Shaped(w)
    BY DEF Shaped
  <1>3. w # Idle
    <2>1. Idle.stage = "idle"
      BY DEF Idle
    <2> QED BY <1>2, <2>1
  <1> HIDE DEF w, o
  <1>4. CASE NoOutcome(work)
    <2>1. w.outcomes = <<o>> /\ next = "assessing"
      BY <1>2, <1>4, Appended DEF NoOutcome
    <2>2. OneOutcome(w)
      BY <2>1 DEF OneOutcome
    <2> QED BY <1>1, <1>2, <1>3, <1>4, <2>1, <2>2 DEF Busy, Staged
  <1>5. CASE OneOutcome(work)
    <2>1. PICK a : work.outcomes = <<a>>
      BY <1>5 DEF OneOutcome
    <2>2. w.outcomes = <<a, o>> /\ next = "decided"
      BY <1>2, <1>5, <2>1, Appended, Lengths
    <2>3. TwoOutcomes(w)
      BY <2>2 DEF TwoOutcomes
    <2> QED BY <1>1, <1>2, <1>3, <1>5, <2>2, <2>3 DEF Busy, Staged
  <1> QED BY <1>4, <1>5 DEF Busy, Staged

\* What is left to do with a document in hand.
Effort(w) ==
    IF w.stage = "calling" THEN 8 - 3 * Len(w.outcomes) - w.attempt
    ELSE IF w.stage = "assessing" THEN 5 ELSE 1

LEMMA Efforts ==
    ASSUME NEW w, Busy(w)
    PROVE  /\ Effort(w) \in 1..7
           /\ w.stage = "calling" /\ NoOutcome(w) => Effort(w) = 8 - w.attempt
           /\ w.stage = "calling" /\ OneOutcome(w) => Effort(w) = 5 - w.attempt
           /\ w.stage = "assessing" => Effort(w) = 5
           /\ w.stage \notin {"calling", "assessing"} => Effort(w) = 1
  <1>1. CASE w.stage = "calling" /\ NoOutcome(w)
    <2>1. Len(w.outcomes) = 0 /\ w.attempt \in {1, 2} /\ ~OneOutcome(w)
      BY <1>1, Lengths DEF Busy, Staged
    <2> QED BY <1>1, <2>1 DEF Effort
  <1>2. CASE w.stage = "calling" /\ OneOutcome(w)
    <2>1. Len(w.outcomes) = 1 /\ w.attempt \in {1, 2} /\ ~NoOutcome(w)
      BY <1>2, Lengths DEF Busy, Staged
    <2> QED BY <1>2, <2>1 DEF Effort
  <1>3. CASE w.stage # "calling"
    BY <1>3 DEF Effort
  <1> QED BY <1>1, <1>2, <1>3 DEF Busy, Staged

\* Only the stage changes.
LEMMA Restaged ==
    ASSUME Busy(work), NEW stage \in {"decided", "paused", "raised"},
           stage = "decided" => OneOutcome(work),
           work' = [work EXCEPT !.stage = stage]
    PROVE  Busy(work') /\ work'.doc = work.doc /\ work'.stage = stage
  <1> DEFINE w == [doc |-> work.doc, mode |-> work.mode, stage |-> stage, tier |-> work.tier,
                   attempt |-> work.attempt, answered |-> work.answered,
                   outcomes |-> work.outcomes, spend |-> work.spend]
  <1>1. work' = w
    BY DEF Busy, Shaped
  <1>2. w.doc = work.doc /\ w.stage = stage /\ w.outcomes = work.outcomes /\ Shaped(w)
    BY DEF Shaped
  <1>3. w # Idle
    <2>1. Idle.stage = "idle"
      BY DEF Idle
    <2> QED BY <1>2, <2>1
  <1> HIDE DEF w
  <1>4. stage = "decided" => OneOutcome(w)
    BY <1>2 DEF OneOutcome
  <1> QED BY <1>1, <1>2, <1>3, <1>4 DEF Busy, Staged

\* A call that goes on, after a correction or on a stronger tier.
LEMMA Recalled ==
    ASSUME Busy(work), NoOutcome(work) \/ OneOutcome(work),
           NEW tier, NEW attempt \in {1, 2}, NEW answered,
           work' = [work EXCEPT !.stage = "calling", !.tier = tier, !.attempt = attempt,
                                !.answered = answered]
    PROVE  /\ Busy(work') /\ work'.doc = work.doc /\ work'.stage = "calling"
           /\ work'.attempt = attempt /\ work'.outcomes = work.outcomes
  <1> DEFINE w == [doc |-> work.doc, mode |-> work.mode, stage |-> "calling", tier |-> tier,
                   attempt |-> attempt, answered |-> answered,
                   outcomes |-> work.outcomes, spend |-> work.spend]
  <1>1. work' = w
    BY DEF Busy, Shaped
  <1>2. /\ w.doc = work.doc /\ w.stage = "calling" /\ w.attempt = attempt
        /\ w.outcomes = work.outcomes /\ Shaped(w)
    BY DEF Shaped
  <1>3. w # Idle
    <2>1. Idle.stage = "idle"
      BY DEF Idle
    <2> QED BY <1>2, <2>1
  <1> HIDE DEF w
  <1>4. NoOutcome(w) \/ OneOutcome(w)
    BY <1>2 DEF NoOutcome, OneOutcome
  <1> QED BY <1>1, <1>2, <1>3, <1>4 DEF Busy, Staged

\* Every step at a document leaves it with fewer to come, and is taken before its outcome
\* is decided, its tenant's budget is spent or its call has raised.
LEMMA Stepped ==
    ASSUME Busy(work), Step
    PROVE  /\ Busy(work') /\ work'.doc = work.doc /\ Effort(work') < Effort(work)
           /\ work.stage \in {"calling", "assessing"}
  <1>0. Busy(work') => Effort(work') \in 1..7
    BY Efforts
  <1>1. CASE Answer
    <2>1. PICK record : /\ work.stage = "calling"
                        /\ EndCall(Normalize(record), work.attempt, work.answered + 1)
      BY <1>1 DEF Answer
    <2>2. /\ Busy(work') /\ work'.doc = work.doc
          /\ \/ NoOutcome(work) /\ work'.stage = "assessing" /\ OneOutcome(work')
             \/ OneOutcome(work) /\ work'.stage = "decided" /\ TwoOutcomes(work')
      BY <2>1, EndedCall
    <2>3. work.attempt \in {1, 2}
      BY <2>1 DEF Busy, Staged
    <2> QED BY <2>1, <2>2, <2>3, Efforts
  <1>2. CASE Invalid /\ work.attempt = 1
    <2>1. work.stage = "calling" /\ (NoOutcome(work) \/ OneOutcome(work))
      BY <1>2 DEF Invalid, Busy, Staged
    <2>2. work' = [work EXCEPT !.attempt = 2, !.answered = work.answered + 1]
      BY <1>2 DEF Invalid
    <2>3. work' = [work EXCEPT !.stage = "calling", !.tier = work.tier, !.attempt = 2,
                               !.answered = work.answered + 1]
      <3> DEFINE answered == work.answered + 1
      <3>1. work' = [work EXCEPT !.attempt = 2, !.answered = answered]
        BY <2>2
      <3> HIDE DEF answered
      <3>2. work' = [work EXCEPT !.stage = "calling", !.tier = work.tier, !.attempt = 2,
                                 !.answered = answered]
        BY <2>1, <3>1 DEF Busy, Shaped
      <3> QED BY <3>2 DEF answered
    <2>4. /\ Busy(work') /\ work'.doc = work.doc /\ work'.stage = "calling"
          /\ work'.attempt = 2 /\ work'.outcomes = work.outcomes
      BY <2>1, <2>3, Recalled
    <2>5. /\ NoOutcome(work) => NoOutcome(work')
          /\ OneOutcome(work) => OneOutcome(work')
      BY <2>4 DEF NoOutcome, OneOutcome
    <2> QED BY <1>2, <2>1, <2>4, <2>5, Efforts
  <1>3. CASE (Invalid /\ work.attempt # 1) \/ Refused
    <2>1. /\ work.stage = "calling"
          /\ EndCall(None, 2, work.answered + 1) \/ EndCall(None, 2, work.answered)
      BY <1>3 DEF Invalid, Refused
    <2>2. /\ Busy(work') /\ work'.doc = work.doc
          /\ \/ NoOutcome(work) /\ work'.stage = "assessing" /\ OneOutcome(work')
             \/ OneOutcome(work) /\ work'.stage = "decided" /\ TwoOutcomes(work')
      BY <2>1, EndedCall
    <2>3. work.attempt \in {1, 2}
      BY <2>1 DEF Busy, Staged
    <2> QED BY <2>1, <2>2, <2>3, Efforts
  <1>4. CASE CallFails
    <2>1. /\ work.stage = "calling" /\ work' = [work EXCEPT !.stage = "raised"]
          /\ NoOutcome(work) \/ OneOutcome(work)
          /\ work.attempt \in {1, 2}
      BY <1>4 DEF CallFails, Busy, Staged
    <2>2. Busy(work') /\ work'.doc = work.doc /\ work'.stage = "raised"
      BY <2>1, Restaged
    <2>3. Effort(work') = 1
      BY <2>2, Efforts
    <2>4. Effort(work) \in 3..7
      BY <2>1, Efforts
    <2> QED BY <2>1, <2>2, <2>3, <2>4
  <1>5. CASE OverBudget
    <2>1. /\ work.stage = "calling" /\ work.attempt \in {1, 2}
          /\ NoOutcome(work) \/ OneOutcome(work)
      BY <1>5 DEF OverBudget, Busy, Staged
    <2>2. PICK stage \in {"decided", "paused"} :
            /\ work' = [work EXCEPT !.stage = stage]
            /\ stage = "decided" => work.outcomes # << >>
      BY <1>5 DEF OverBudget
    <2>3. stage = "decided" => OneOutcome(work)
      BY <2>1, <2>2 DEF NoOutcome
    <2>4. Busy(work') /\ work'.doc = work.doc /\ work'.stage = stage
      BY <2>2, <2>3, Restaged
    <2> QED BY <2>1, <2>4, Efforts
  <1>6. CASE Assess
    <2>1. work.stage = "assessing" /\ OneOutcome(work)
      BY <1>6 DEF Assess, Busy, Staged
    <2>2. CASE work' = [work EXCEPT !.stage = "raised"]
      <3>1. Busy(work') /\ work'.doc = work.doc /\ work'.stage = "raised"
        BY <2>2, Restaged
      <3> QED BY <2>1, <3>1, Efforts
    <2>3. CASE work' = [work EXCEPT !.stage = "decided"]
      <3>1. Busy(work') /\ work'.doc = work.doc /\ work'.stage = "decided"
        BY <2>1, <2>3, Restaged
      <3> QED BY <2>1, <3>1, Efforts
    <2>4. CASE work' = Call(Policy.escalate_to, work)
      <3> DEFINE tier == Policy.escalate_to
      <3>1. work' = [work EXCEPT !.stage = "calling", !.tier = tier, !.attempt = 1,
                                 !.answered = 0]
        BY <2>4 DEF Call
      <3> HIDE DEF tier
      <3>2. /\ Busy(work') /\ work'.doc = work.doc /\ work'.stage = "calling"
            /\ work'.attempt = 1 /\ work'.outcomes = work.outcomes
        BY <2>1, <3>1, Recalled
      <3>3. OneOutcome(work')
        BY <2>1, <3>2 DEF OneOutcome
      <3> QED BY <2>1, <3>2, <3>3, Efforts
    <2> QED BY <1>6, <2>2, <2>3, <2>4, Zenon DEF Assess
  <1> QED BY <1>1, <1>2, <1>3, <1>4, <1>5, <1>6 DEF Step

--------------------------------------------------------------------------
(* The jobs.                                                               *)

LEMMA IdleStage == Idle.stage = "idle"
  BY DEF Idle

\* A job that has ended has nothing left that could go on.
LEMMA EndedRests ==
    ASSUME JobInv, job \in Ended, [ExperimentNext]_allVars
    PROVE  UNCHANGED allVars
  <1> USE IdleStage DEF Ended, allVars
  <1>1. work.stage \in {"idle", "decided", "paused", "raised"}
    BY DEF JobInv
  <1>2. CASE Define \/ Take \/ Extract \/ Store \/ Grade \/ Build \/ Reroute \/ Gate \/ Fit
    <2>1. ~Extract
      BY <1>1, Stepped DEF Extract, JobInv, Step, Answer, Invalid, Refused, CallFails, OverBudget, Assess
    <2>2. ~Take
      BY DEF Take, JobInv
    <2> QED BY <1>2, <2>1, <2>2 DEF Define, Store, Grade, Build, Reroute, Gate, Fit
  <1>3. CASE Pause /\ UNCHANGED armVars
    BY <1>3 DEF Pause, EndJob, JobInv, Postponed, vars
  <1>4. CASE Raise /\ UNCHANGED armVars
    BY <1>4 DEF Raise, EndJob, JobInv, vars
  <1>5. CASE Rest /\ UNCHANGED armVars
    BY <1>5 DEF Rest
  <1>6. ~(Launch \/ Feed \/ Watch \/ NextArm \/ WriteReport)
    BY DEF Launch, Feed, Watch, NextArm, WriteReport, ArmDone
  <1> QED BY <1>2, <1>3, <1>4, <1>5, <1>6 DEF ExperimentNext, Next

LEMMA InitJob == ExperimentInit => JobInv
  BY EmptySeq, ExperimentAssumption DEF ExperimentInit, Init, JobInv, Jobs, Ended

\* The documents of the gate are of the corpus.
LEMMA GoldenDocuments ==
    /\ EvalGolden \in Seq(Documents) /\ Len(EvalGolden) <= Len(Corpus)
    /\ IsFiniteSet(ToSet(EvalGolden)) /\ IsFiniteSet(HeldOut)
  <1> DEFINE m == Max({1, Len(Corpus) \div 3})
             size == Least(GoldenSize, m)
  <1>1. Corpus \in Seq(Documents) /\ Len(Corpus) \in Nat /\ GoldenSize \in Nat
    BY StudyAssumption
  <1>2. m \in Nat
    <2>1. PICK k \in Nat : k = Len(Corpus) \div 3
      BY <1>1
    <2>2. {1, k} \subseteq Nat /\ \E x \in {1, k} : \A y \in {1, k} : x >= y
      OBVIOUS
    <2> QED BY <2>1, <2>2 DEF Max
  <1>3. ASSUME NEW n \in Nat
        PROVE  /\ Golden(Corpus, n) \in Seq(Documents) /\ Len(Golden(Corpus, n)) <= Len(Corpus)
               /\ IsFiniteSet(ToSet(Golden(Corpus, n)))
    <2>1. PICK k \in 0..Len(Corpus) : k = Least(n, Len(Corpus))
      BY <1>1 DEF Least
    <2>2. \A i \in 1..k : Corpus[i] \in Documents
      BY <1>1
    <2>3. SubSeq(Corpus, 1, k) \in Seq(Documents) /\ Len(SubSeq(Corpus, 1, k)) = k
      BY <1>1, <2>2, SubSeqProperties
    <2>4. IsFiniteSet(ToSet(SubSeq(Corpus, 1, k)))
      <3> DEFINE s == SubSeq(Corpus, 1, k)
      <3>1. DOMAIN s = 1..k
        BY <2>3
      <3> HIDE DEF s
      <3> DEFINE f == [i \in 1..k |-> s[i]]
      <3>2. f \in Surjection(1..k, ToSet(s))
        BY <3>1 DEF Surjection, ToSet
      <3>3. IsFiniteSet(1..k)
        BY FS_Interval
      <3>4. IsFiniteSet(ToSet(s))
        BY <3>2, <3>3, FS_Surjection
      <3> QED BY <3>4 DEF s
    <2> QED BY <2>1, <2>3, <2>4 DEF Golden
  <1>4. size \in Nat
    BY <1>1, <1>2 DEF Least
  <1> QED BY <1>1, <1>3, <1>4 DEF EvalGolden, Capped, HeldOut

\* What an arm is fed.
ArmStream == Seq([phase : {"stable", "drifted"}, doc : Documents])

LEMMA Labelled ==
    ASSUME NEW docs \in Seq(Documents), NEW p \in {"stable", "drifted"}
    PROVE  LET s == [i \in DOMAIN docs |-> [phase |-> p, doc |-> docs[i]]]
           IN  s \in ArmStream /\ Len(s) = Len(docs)
  <1> DEFINE Fed == [phase : {"stable", "drifted"}, doc : Documents]
             g == [i \in 1..Len(docs) |-> [phase |-> p, doc |-> docs[i]]]
  <1>1. DOMAIN docs = 1..Len(docs) /\ Len(docs) \in Nat
    OBVIOUS
  <1>2. \A i \in 1..Len(docs) : [phase |-> p, doc |-> docs[i]] \in Fed
    BY ElementOfSeq
  <1>3. g \in [1..Len(docs) -> Fed]
    BY <1>2
  <1>4. g \in Seq(Fed) /\ Len(g) = Len(docs)
    BY <1>1, <1>3
  <1> QED BY <1>1, <1>4 DEF ArmStream

LEMMA ArmStarts ==
    ASSUME NEW n \in 1..Len(Arms), StartArm(n)
    PROVE  /\ arm' = n /\ steps' = << >> /\ stream' \in ArmStream
           /\ Len(stream') = Len(Arms[n].stable) + Len(Arms[n].drifted)
  <1> DEFINE Fed == [phase : {"stable", "drifted"}, doc : Documents]
             a == Arms[n].stable
             b == Arms[n].drifted
             s == [i \in DOMAIN a |-> [phase |-> "stable", doc |-> a[i]]]
             t == [i \in DOMAIN b |-> [phase |-> "drifted", doc |-> b[i]]]
  <1>1. a \in Seq(Documents) /\ b \in Seq(Documents)
    <2>1. Arms[n] \in [stable : Seq(Documents), drifted : Seq(Documents)]
      BY ExperimentAssumption, ElementOfSeq
    <2> QED BY <2>1
  <1>2. arm' = n /\ steps' = << >> /\ stream' = s \o t
    BY DEF StartArm
  <1>3. s \in Seq(Fed) /\ Len(s) = Len(a)
    BY <1>1, Labelled DEF ArmStream
  <1>4. t \in Seq(Fed) /\ Len(t) = Len(b)
    BY <1>1, Labelled DEF ArmStream
  <1> HIDE DEF s, t, a, b, Fed
  <1>5. s \o t \in Seq(Fed) /\ Len(s \o t) = Len(a) + Len(b)
    BY <1>3, <1>4, ConcatProperties
  <1> QED BY <1>2, <1>5 DEF ArmStream, Fed, a, b

\* A job ends with what it came to; the rest of it stays.
LEMMA JobEnds ==
    ASSUME JobInv, NEW how \in Ended, NEW what, EndJob(how, what),
           UNCHANGED <<definition, work, todo, stream, arm>>,
           \/ work = Idle /\ todo = << >>
           \/ work.stage = "decided"
           \/ work.stage = "paused" /\ how = "done" /\ what = Postponed
           \/ work.stage = "raised" /\ how = "crashed" /\ what = None
    PROVE  JobInv'
  <1>1. work' = Idle <=> work = Idle
    OBVIOUS
  <1>2. Busy(work) => Busy(work')
    OBVIOUS
  <1> QED BY <1>1, <1>2 DEF JobInv, EndJob, Jobs, Ended

LEMMA StepJob == JobInv /\ [ExperimentNext]_allVars => JobInv'
  <1> SUFFICES ASSUME JobInv, [ExperimentNext]_allVars PROVE JobInv'
    OBVIOUS
  <1>1. CASE UNCHANGED allVars
    <2>1. /\ UNCHANGED <<definition, job, work, todo, verdict, stream, arm>>
          /\ Busy(work) => Busy(work')
      BY <1>1 DEF allVars, vars, armVars
    <2> QED BY <2>1 DEF JobInv
  <1>2. SUFFICES ASSUME job \notin Ended PROVE JobInv'
    BY <1>1, EndedRests
  <1>3. \/ work = Idle /\ work.stage = "idle"
        \/ Busy(work) /\ work.stage \in {"calling", "assessing", "decided", "paused", "raised"}
    BY IdleStage DEF JobInv, Busy, Staged
  <1>4. CASE Define /\ UNCHANGED armVars
    <2>1. /\ job = "define" /\ work = Idle /\ todo = << >> /\ arm = 0 /\ stream = << >>
          /\ UNCHANGED <<definition, work, stream, arm>>
      BY <1>4 DEF Define, JobInv, armVars
    <2>2. CASE EndJob("rejected", None) /\ UNCHANGED todo
      BY <2>1, <2>2, JobEnds DEF Ended
    <2>3. ASSUME job' \in {"serve", "frontier", "build"}, todo' \in Seq(Documents) PROVE JobInv'
      BY <2>1, <2>3 DEF JobInv, Jobs, Ended
    <2>4. CASE job' = "serve" /\ \E d \in Served : todo' = <<d>>
      <3>1. todo' \in Seq(Documents)
        BY <2>4, StudyAssumption
      <3> QED BY <2>3, <2>4, <3>1
    <2>5. CASE job' = "frontier" /\ todo' = EvalGolden
      BY <2>3, <2>5, GoldenDocuments
    <2>6. CASE job' = "build" /\ todo' = Corpus
      BY <2>3, <2>6, StudyAssumption
    <2> QED BY <1>4, <2>2, <2>4, <2>5, <2>6 DEF Define
  <1>5. CASE Take /\ UNCHANGED armVars
    <2>1. /\ work = Idle /\ todo # << >> /\ todo' = Tail(todo)
          /\ UNCHANGED <<definition, job, verdict, stream, arm>>
          /\ work' = work \/ Begin(Head(todo), job)
      BY <1>5 DEF Take, armVars
    <2>2. job \notin {"define", "experiment"}
      BY <2>1 DEF JobInv
    <2>3. Head(todo) \in Documents /\ Tail(todo) \in Seq(Documents)
      BY <2>1, HeadTailProperties DEF JobInv
    <2>4. work' = Idle \/ Busy(work')
      BY <2>1, <2>3, Begun
    <2> QED BY <1>2, <2>1, <2>2, <2>3, <2>4 DEF JobInv
  <1>6. CASE Extract /\ UNCHANGED armVars
    <2>1. /\ work.stage \in {"calling", "assessing"}
          /\ Step /\ UNCHANGED <<definition, job, todo, verdict, stream, arm>>
      BY <1>3, <1>6, Stepped, IdleStage
         DEF Extract, armVars, Step, Answer, Invalid, Refused, CallFails, OverBudget, Assess
    <2>2. Busy(work) /\ Busy(work') /\ work # Idle
      BY <1>3, <2>1, Stepped DEF Busy
    <2> QED BY <1>2, <2>1, <2>2 DEF JobInv
  <1>7. CASE Store /\ UNCHANGED armVars
    <2>1. /\ work.stage = "decided"
          /\ \/ EndJob("done", StoredRow(work))
             \/ EndJob("crashed", None)
          /\ UNCHANGED <<definition, work, todo, stream, arm>>
      BY <1>7 DEF Store, armVars
    <2> QED BY <2>1, JobEnds DEF Ended
  <1>8. CASE (Pause \/ Raise) /\ UNCHANGED armVars
    <2>1. /\ \/ work.stage = "paused" /\ EndJob("done", Postponed)
             \/ work.stage = "raised" /\ EndJob("crashed", None)
          /\ UNCHANGED <<definition, work, todo, stream, arm>>
      BY <1>8 DEF Pause, Raise, Postponed, armVars
    <2> QED BY <2>1, JobEnds DEF Ended
  <1>9. CASE (Grade \/ Build) /\ UNCHANGED armVars
    <2>1. /\ work' = Idle /\ job \in {"frontier", "routed", "build"}
          /\ UNCHANGED <<definition, job, todo, verdict, stream, arm>>
      BY <1>9 DEF Grade, Build, armVars
    <2> QED BY <1>2, <2>1 DEF JobInv
  <1>10. CASE Reroute /\ UNCHANGED armVars
    <2>1. /\ work = Idle /\ job' = "routed" /\ todo' = EvalGolden
          /\ UNCHANGED <<definition, work, verdict, stream, arm>>
      BY <1>10 DEF Reroute, PassDone, armVars
    <2> QED BY <2>1, GoldenDocuments DEF JobInv, Jobs, Ended
  <1>11. CASE (Gate \/ Fit) /\ UNCHANGED armVars
    <2>1. /\ work = Idle /\ todo = << >>
          /\ \E how \in Ended : \E what : EndJob(how, what)
          /\ UNCHANGED <<definition, work, todo, stream, arm>>
      BY <1>11 DEF Gate, Fit, PassDone, armVars, Ended
    <2> QED BY <2>1, JobEnds
  <1>12. CASE Rest /\ UNCHANGED armVars
    BY <1>2, <1>12 DEF Rest
  <1>13. CASE Launch
    <2>1. /\ job = "define" /\ job' = "experiment" /\ StartArm(1)
          /\ UNCHANGED <<definition, work, todo, verdict>>
      BY <1>13 DEF Launch
    <2>2. 1 \in 1..Len(Arms)
      BY ExperimentAssumption, EmptySeq
    <2>3. arm' = 1 /\ stream' \in ArmStream
      BY <2>1, <2>2, ArmStarts
    <2> QED BY <2>1, <2>2, <2>3 DEF JobInv, Jobs, Ended, ArmStream
  <1>14. CASE Feed
    <2>1. /\ job = "experiment" /\ stream # << >> /\ Begin(Head(stream).doc, "routed")
          /\ UNCHANGED <<definition, job, todo, verdict, stream, arm>>
      BY <1>14 DEF Feed, armVars
    <2>2. Head(stream).doc \in Documents
      <3>1. Head(stream) \in [phase : {"stable", "drifted"}, doc : Documents]
        BY <2>1, HeadTailProperties DEF JobInv
      <3> QED BY <3>1
    <2>3. Busy(work')
      BY <2>1, <2>2, Begun
    <2> QED BY <1>2, <2>1, <2>3 DEF JobInv
  <1>15. CASE Watch
    <2>1. job = "experiment" /\ work.stage = "decided" /\ UNCHANGED <<definition, todo>>
      BY <1>15 DEF Watch
    <2>2. CASE EndJob("crashed", None) /\ UNCHANGED <<work, armVars>>
      BY <2>1, <2>2, JobEnds DEF Ended, armVars
    <2>3. CASE /\ stream' = Tail(stream) /\ work' = Idle
               /\ UNCHANGED <<job, verdict, arm, summaries>>
      <3>1. stream # << >>
        BY <1>3, <2>1, IdleStage DEF JobInv
      <3>2. Tail(stream) \in ArmStream
        BY <3>1, HeadTailProperties DEF JobInv, ArmStream
      <3> QED BY <1>2, <2>1, <2>3, <3>2 DEF JobInv, ArmStream
    <2> QED BY <1>15, <2>2, <2>3, Zenon DEF Watch
  <1>16. CASE NextArm
    <2>1. /\ job = "experiment" /\ work = Idle /\ arm < Len(Arms) /\ StartArm(arm + 1)
          /\ UNCHANGED <<definition, job, work, todo, verdict>>
      BY <1>16 DEF NextArm, ArmDone, vars
    <2>2. arm + 1 \in 1..Len(Arms) /\ arm + 1 # 0
      BY <2>1, ExperimentAssumption DEF JobInv
    <2>3. arm' = arm + 1 /\ stream' \in ArmStream
      BY <2>1, <2>2, ArmStarts
    <2> QED BY <1>2, <2>1, <2>2, <2>3 DEF JobInv, ArmStream
  <1>17. CASE WriteReport
    <2>1. /\ work = Idle /\ todo = << >>
          /\ \E how \in Ended : \E what : EndJob(how, what)
          /\ UNCHANGED <<definition, work, todo, stream, arm>>
      BY <1>17 DEF WriteReport, ArmDone, Ended, JobInv
    <2> QED BY <2>1, JobEnds
  <1> QED BY <1>1, <1>4, <1>5, <1>6, <1>7, <1>8, <1>9, <1>10, <1>11, <1>12, <1>13, <1>14, <1>15,
             <1>16, <1>17 DEF ExperimentNext, Next

LEMMA JobHolds == ExperimentSpec => []JobInv
  BY InitJob, StepJob, PTL DEF ExperimentSpec, allVars


--------------------------------------------------------------------------
(* What is served.                                                         *)

\* The row that was stored is of the answer that was kept.
KeptInv ==
    (job = "done" /\ work.stage = "decided") => verdict = StoredRow(work)

LEMMA StepKept == JobInv /\ KeptInv /\ [ExperimentNext]_allVars => KeptInv'
  <1> SUFFICES ASSUME JobInv, KeptInv, [ExperimentNext]_allVars, job' = "done",
                      work'.stage = "decided"
               PROVE  (verdict = StoredRow(work))'
    BY DEF KeptInv
  <1>1. CASE job \in Ended
    <2>1. UNCHANGED <<job, work, verdict, definition, model>>
      BY <1>1, EndedRests DEF allVars, vars
    <2>2. verdict = StoredRow(work)
      BY <2>1 DEF KeptInv
    <2> QED BY <2>1, <2>2
         DEF StoredRow, Kept, Routing, Report, Validation
  <1>2. CASE job \notin Ended
    <2>1. job' # job
      BY <1>2 DEF Ended
    <2>2. \/ Store
          \/ EndJob("done", Postponed) /\ work.stage = "paused" /\ work' = work
          \/ work = Idle /\ work' = work
      <3>1. ~(Take \/ Extract \/ Grade \/ Build \/ Rest)
        BY <1>2, <2>1 DEF Take, Extract, Grade, Build, Rest
      <3>2. ~UNCHANGED allVars
        BY <2>1 DEF allVars, vars
      <3>3. Define => work = Idle /\ work' = work
        BY DEF Define, JobInv
      <3>4. Pause => EndJob("done", Postponed) /\ work.stage = "paused" /\ work' = work
        BY DEF Pause, Postponed
      <3>5. ~Raise
        BY DEF Raise, EndJob
      <3>6. Reroute \/ Gate \/ Fit => work = Idle /\ work' = work
        BY DEF Reroute, Gate, Fit, PassDone
      <3>7. ~(Launch \/ Feed \/ NextArm)
        BY <2>1 DEF Launch, Feed, NextArm, vars
      <3>8. ~Watch
        BY <2>1 DEF Watch, EndJob
      <3>9. WriteReport => work = Idle /\ work' = work
        BY DEF WriteReport, ArmDone
      <3> QED BY <3>1, <3>2, <3>3, <3>4, <3>5, <3>6, <3>7, <3>8, <3>9 DEF ExperimentNext, Next
    <2>3. CASE Store
      <3>1. verdict' = StoredRow(work) /\ UNCHANGED <<work, definition, model>>
        BY <2>3 DEF Store, EndJob
      <3> QED BY <3>1 DEF StoredRow, Kept, Routing, Report, Validation
    <2> QED BY <2>2, <2>3, IdleStage
  <1> QED BY <1>1, <1>2

LEMMA LastOfTwo ==
    ASSUME NEW P, P \subseteq {1, 2}
    PROVE  2 \in P => Max(P) = 2
  <1> SUFFICES ASSUME 2 \in P PROVE Max(P) = 2
    OBVIOUS
  <1>1. \E x \in P : \A y \in P : x >= y
    <2>1. \A y \in P : 2 >= y
      OBVIOUS
    <2> QED BY <2>1
  <1>2. Max(P) \in P /\ \A y \in P : Max(P) >= y
    BY <1>1 DEF Max
  <1>3. Max(P) >= 2 /\ Max(P) \in {1, 2}
    BY <1>2
  <1> QED BY <1>3

\* What is kept of a document is the last of its usable answers.
LEMMA KeptIsTheLastUsable ==
    ASSUME NEW w, OneOutcome(w) \/ TwoOutcomes(w)
    PROVE  LET usable == {i \in DOMAIN w.outcomes : w.outcomes[i].record # None}
           IN  IF usable = {} THEN Kept(w).record = None
               ELSE Kept(w).record = w.outcomes[Max(usable)].record /\ Kept(w).record # None
  <1> DEFINE usable == {i \in DOMAIN w.outcomes : w.outcomes[i].record # None}
  <1>1. CASE OneOutcome(w)
    <2>1. PICK a : w.outcomes = <<a>>
      BY <1>1 DEF OneOutcome
    <2>2. DOMAIN w.outcomes = {1} /\ w.outcomes[1] = a /\ Len(w.outcomes) = 1
      BY <2>1, Appended
    <2>3. usable = {} \/ usable = {1}
      BY <2>2
    <2>4. Max({1}) = 1
      BY DEF Max
    <2> QED BY <2>2, <2>3, <2>4 DEF Kept
  <1>2. CASE TwoOutcomes(w)
    <2>1. PICK a, b : w.outcomes = <<a, b>>
      BY <1>2 DEF TwoOutcomes
    <2>2. /\ DOMAIN w.outcomes = {1, 2} /\ w.outcomes[1] = a /\ w.outcomes[2] = b
          /\ Len(w.outcomes) = 2
      BY <2>1, Appended
    <2>3. usable \subseteq {1, 2} /\ (2 \in usable <=> b.record # None)
      BY <2>2
    <2>4. CASE 2 \in usable
      BY <2>2, <2>3, <2>4, LastOfTwo DEF Kept
    <2>5. CASE 2 \notin usable
      <3>1. usable = {} \/ usable = {1}
        BY <2>3, <2>5
      <3>2. Max({1}) = 1
        BY DEF Max
      <3> QED BY <2>2, <2>3, <2>5, <3>1, <3>2 DEF Kept
    <2> QED BY <2>4, <2>5
  <1> QED BY <1>1, <1>2

\* Whatever the models answer, refuse or fail, and whatever the policy escalates on, the
\* row _store_extraction writes is the last usable answer of the document's calls, and a
\* document is marked failed only if none gave one.
THEOREM NoAnswerIsEverLost == ExperimentSpec => []NoAnswerIsLost
  <1>1. ExperimentInit => KeptInv
    BY IdleStage DEF ExperimentInit, Init, KeptInv
  <1>2. JobInv /\ KeptInv => NoAnswerIsLost
    <2> SUFFICES ASSUME JobInv, KeptInv, job = "done", work.stage = "decided"
                 PROVE  NoAnswerIsLost
      BY DEF NoAnswerIsLost
    <2> DEFINE usable == {i \in DOMAIN work.outcomes : work.outcomes[i].record # None}
    <2>1. OneOutcome(work) \/ TwoOutcomes(work)
      BY IdleStage DEF JobInv, Busy, Staged
    <2>2. IF usable = {} THEN Kept(work).record = None
          ELSE Kept(work).record = work.outcomes[Max(usable)].record /\ Kept(work).record # None
      BY <2>1, KeptIsTheLastUsable
    <2>3. verdict = StoredRow(work)
      BY DEF KeptInv
    <2>4. Kept(work).record = None => verdict.status = "failed"
      BY <2>3 DEF StoredRow
    <2>5. Kept(work).record # None => verdict.record = Kept(work).record
      BY <2>3 DEF StoredRow
    <2> HIDE DEF usable
    <2>6. IF usable = {} THEN verdict.status = "failed"
          ELSE verdict.record = work.outcomes[Max(usable)].record
      BY <2>2, <2>4, <2>5
    <2> QED BY <2>6 DEF NoAnswerIsLost, usable
  <1> QED BY <1>1, <1>2, StepKept, JobHolds, PTL DEF ExperimentSpec, allVars

--------------------------------------------------------------------------
(* Every job advances.                                                     *)

\* The documents of the arms after the n-th.
Ahead(n) == SumOver(ArmSize, (n + 1)..Len(Arms))

Pass == 10 * (Len(Corpus) + 1)
Phases(j) == CASE j = "define" -> 4 [] j = "frontier" -> 3 [] j \in Ended -> 0 [] OTHER -> 1
Streamed(j, s, a, w) ==
    IF j \in Ended THEN 0 ELSE Len(s) - When(j = "experiment" /\ w # Idle, 1) + Ahead(a)
Called(j, w) == IF w = Idle \/ j \in Ended THEN 0 ELSE Effort(w)
Total(j, t, s, a, w) == Pass * Phases(j) + 10 * Len(t) + 10 * Streamed(j, s, a, w) + Called(j, w)

LEMMA StreamLeftIs == StreamLeft = Streamed(job, stream, arm, work)
  BY DEF StreamLeft, Streamed, Ahead, SumOver

LEMMA RemainingIs ==
    /\ Remaining = Total(job, todo, stream, arm, work)
    /\ Remaining' = Total(job', todo', stream', arm', work')
  <1>1. PhasesLeft = Phases(job) /\ PhasesLeft' = Phases(job')
    BY DEF PhasesLeft, Phases
  <1>2. WorkLeft = Called(job, work) /\ WorkLeft' = Called(job', work')
    BY DEF WorkLeft, Called, Effort
  <1>3. StreamLeft = Streamed(job, stream, arm, work)
    BY StreamLeftIs
  <1>4. StreamLeft' = Streamed(job', stream', arm', work')
    <2>1. (StreamLeft = Streamed(job, stream, arm, work))'
      BY StreamLeftIs, PTL
    <2> QED BY <2>1
  <1> QED BY <1>1, <1>2, <1>3, <1>4 DEF Remaining, Total, Pass

LEMMA Aheads ==
    ASSUME NEW n \in 0..Len(Arms)
    PROVE  /\ Ahead(n) \in Nat
           /\ n < Len(Arms) =>
                /\ Len(Arms[n + 1].stable) \in Nat /\ Len(Arms[n + 1].drifted) \in Nat
                /\ Ahead(n) = 1 + Len(Arms[n + 1].stable) + Len(Arms[n + 1].drifted) + Ahead(n + 1)
  <1> DEFINE S == (n + 1)..Len(Arms)
  <1>1. Arms \in Seq([stable : Seq(Documents), drifted : Seq(Documents)])
    BY ExperimentAssumption
  <1>2. Len(Arms) \in Nat /\ DOMAIN Arms = 1..Len(Arms)
    BY <1>1
  <1>3. \A i \in 1..Len(Arms) : Arms[i].stable \in Seq(Documents) /\ Arms[i].drifted \in Seq(Documents)
    <2> TAKE i \in 1..Len(Arms)
    <2>1. Arms[i] \in [stable : Seq(Documents), drifted : Seq(Documents)]
      BY <1>1, ElementOfSeq
    <2> QED BY <2>1
  <1>4. \A i \in 1..Len(Arms) :
          /\ Len(Arms[i].stable) \in Nat /\ Len(Arms[i].drifted) \in Nat
          /\ ArmSize[i] = 1 + Len(Arms[i].stable) + Len(Arms[i].drifted)
    BY <1>2, <1>3 DEF ArmSize
  <1>5. IsFiniteSet(S)
    BY <1>2, FS_Interval
  <1>6. \A i \in S : i \in 1..Len(Arms)
    BY <1>2
  <1>7. \A i \in S : ArmSize[i] \in Nat
    <2> TAKE i \in S
    <2>1. i \in 1..Len(Arms)
      BY <1>6
    <2>2. PICK a \in Nat, b \in Nat : ArmSize[i] = 1 + a + b
      BY <1>4, <2>1
    <2> QED BY <2>2
  <1>8. Ahead(n) \in Nat
    BY <1>5, <1>7, SumIsNat DEF Ahead
  <1>9. ASSUME n < Len(Arms)
        PROVE  Ahead(n) = ArmSize[n + 1] + Ahead(n + 1)
    <2>1. n + 1 \in S /\ S \ {n + 1} = ((n + 1) + 1)..Len(Arms)
      BY <1>2, <1>9
    <2>2. \A i \in S : ArmSize[i] \in Int
      BY <1>7
    <2>3. SumOver(ArmSize, S) = ArmSize[n + 1] + SumOver(ArmSize, S \ {n + 1})
      BY <1>5, <2>1, <2>2, SumRemove
    <2> QED BY <2>1, <2>3 DEF Ahead
  <1>10. ASSUME n < Len(Arms) PROVE n + 1 \in 1..Len(Arms) /\ n + 1 \in 0..Len(Arms)
    BY <1>2, <1>10
  <1> QED BY <1>4, <1>8, <1>9, <1>10

\* A job's numbers.
LEMMA Totals ==
    ASSUME NEW j \in Jobs, NEW t \in Seq(Documents), NEW s \in ArmStream,
           NEW a \in 0..Len(Arms), NEW w, w = Idle \/ Busy(w),
           j = "experiment" /\ w # Idle => s # << >>
    PROVE  /\ Len(t) \in Nat /\ Len(s) \in Nat /\ Ahead(a) \in Nat
           /\ w # Idle => Effort(w) \in 1..7
           /\ s # << >> => Len(s) > 0
           /\ Pass \in Nat /\ Pass = 10 * Len(Corpus) + 10 /\ Len(Corpus) \in Nat
           /\ Streamed(j, s, a, w) \in Nat /\ Called(j, w) \in 0..7 /\ Phases(j) \in {0, 1, 3, 4}
           /\ j \in Ended => Phases(j) = 0 /\ Streamed(j, s, a, w) = 0 /\ Called(j, w) = 0
           /\ j = "define" => Phases(j) = 4
           /\ j = "frontier" => Phases(j) = 3
           /\ j \in {"serve", "routed", "build", "experiment"} => Phases(j) = 1
           /\ j \notin Ended =>
                /\ Streamed(j, s, a, w) = Len(s) - (IF j = "experiment" /\ w # Idle THEN 1 ELSE 0)
                                            + Ahead(a)
                /\ Called(j, w) = IF w = Idle THEN 0 ELSE Effort(w)
  <1>1. Len(t) \in Nat /\ Len(s) \in Nat /\ (s # << >> => Len(s) > 0)
    BY EmptySeq DEF ArmStream
  <1>2. Ahead(a) \in Nat
    BY Aheads
  <1>3. Len(Corpus) \in Nat
    BY StudyAssumption
  <1>4. Pass \in Nat /\ Pass = 10 * Len(Corpus) + 10
    BY <1>3 DEF Pass
  <1>5. w # Idle => Effort(w) \in 1..7
    BY Efforts
  <1>6. /\ j \in Ended => Phases(j) = 0
        /\ j = "define" => Phases(j) = 4
        /\ j = "frontier" => Phases(j) = 3
        /\ j \in {"serve", "routed", "build", "experiment"} => Phases(j) = 1
    BY DEF Phases, Ended
  <1>7. Phases(j) \in {0, 1, 3, 4}
    BY <1>6 DEF Jobs
  <1>8. /\ Streamed(j, s, a, w) = IF j \in Ended THEN 0
             ELSE Len(s) - (IF j = "experiment" /\ w # Idle THEN 1 ELSE 0) + Ahead(a)
        /\ Called(j, w) = IF w = Idle \/ j \in Ended THEN 0 ELSE Effort(w)
    BY DEF Streamed, Called, When
  <1>9. Streamed(j, s, a, w) \in Nat
    BY <1>1, <1>2, <1>8
  <1>10. Called(j, w) \in 0..7
    BY <1>5, <1>8
  <1> QED BY <1>1, <1>2, <1>3, <1>4, <1>5, <1>6, <1>7, <1>8, <1>9, <1>10

\* The end of a job leaves it nothing.
LEMMA EndLeavesNothing ==
    ASSUME JobInv, JobInv', job \notin Ended, job' \in Ended, UNCHANGED todo
    PROVE  Remaining' < Remaining
  <1>0. /\ job \in Jobs /\ todo \in Seq(Documents) /\ stream \in ArmStream
        /\ arm \in 0..Len(Arms) /\ (work = Idle \/ Busy(work))
        /\ job = "experiment" /\ work # Idle => stream # << >>
        /\ job' \in Jobs /\ todo' \in Seq(Documents) /\ stream' \in ArmStream
        /\ arm' \in 0..Len(Arms) /\ (work' = Idle \/ Busy(work'))
        /\ job' = "experiment" /\ work' # Idle => stream' # << >>
    BY DEF JobInv, ArmStream
  <1>1. /\ Len(todo) \in Nat /\ Pass \in Nat /\ Pass > 0
        /\ Streamed(job, stream, arm, work) \in Nat /\ Called(job, work) \in 0..7
        /\ Phases(job) \in {1, 3, 4}
    <2>1. /\ Len(todo) \in Nat /\ Pass \in Nat /\ Pass = 10 * Len(Corpus) + 10
          /\ Len(Corpus) \in Nat
          /\ Streamed(job, stream, arm, work) \in Nat /\ Called(job, work) \in 0..7
          /\ job = "define" => Phases(job) = 4
          /\ job = "frontier" => Phases(job) = 3
          /\ job \in {"serve", "routed", "build", "experiment"} => Phases(job) = 1
      BY <1>0, Totals
    <2>2. Phases(job) \in {1, 3, 4}
      BY <1>0, <2>1 DEF Jobs
    <2> QED BY <2>1, <2>2
  <1>2. /\ Phases(job') = 0 /\ Streamed(job', stream', arm', work') = 0
        /\ Called(job', work') = 0
    BY <1>0, Totals
  <1> DEFINE p == Pass
             q == Phases(job)
             l == Len(todo)
             s == Streamed(job, stream, arm, work)
             c == Called(job, work)
  <1>3. Remaining = p * q + 10 * l + 10 * s + c /\ Remaining' = p * 0 + 10 * l + 10 * 0 + 0
    BY <1>2, RemainingIs DEF Total
  <1>4. p \in Nat /\ p > 0 /\ q \in {1, 3, 4} /\ l \in Nat /\ s \in Nat /\ c \in 0..7
    BY <1>1
  <1> HIDE DEF p, q, l, s, c
  <1> QED BY <1>3, <1>4

\* The numbers before and after a step.
LEMMA Counted ==
    ASSUME JobInv, JobInv'
    PROVE  /\ Remaining = Pass * Phases(job) + 10 * Len(todo)
                            + 10 * Streamed(job, stream, arm, work) + Called(job, work)
           /\ Remaining' = Pass * Phases(job') + 10 * Len(todo')
                             + 10 * Streamed(job', stream', arm', work') + Called(job', work')
           /\ Len(todo) \in Nat /\ Len(todo') \in Nat
           /\ Len(stream) \in Nat /\ Len(stream') \in Nat
           /\ Ahead(arm) \in Nat /\ Ahead(arm') \in Nat
           /\ Streamed(job, stream, arm, work) \in Nat
           /\ Streamed(job', stream', arm', work') \in Nat
           /\ Called(job, work) \in 0..7 /\ Called(job', work') \in 0..7
           /\ Pass \in Nat /\ Pass = 10 * Len(Corpus) + 10 /\ Len(Corpus) \in Nat
           /\ Phases(job) \in Nat /\ Phases(job') \in Nat
  <1>1. /\ job \in Jobs /\ todo \in Seq(Documents) /\ stream \in ArmStream
        /\ arm \in 0..Len(Arms) /\ (work = Idle \/ Busy(work))
        /\ job = "experiment" /\ work # Idle => stream # << >>
    BY DEF JobInv, ArmStream
  <1>2. /\ job' \in Jobs /\ todo' \in Seq(Documents) /\ stream' \in ArmStream
        /\ arm' \in 0..Len(Arms) /\ (work' = Idle \/ Busy(work'))
        /\ job' = "experiment" /\ work' # Idle => stream' # << >>
    BY DEF JobInv, ArmStream
  <1>3. /\ Len(todo) \in Nat /\ Len(stream) \in Nat /\ Ahead(arm) \in Nat
        /\ Streamed(job, stream, arm, work) \in Nat
        /\ Called(job, work) \in 0..7 /\ Phases(job) \in {0, 1, 3, 4}
        /\ Pass \in Nat /\ Pass = 10 * Len(Corpus) + 10 /\ Len(Corpus) \in Nat
    BY <1>1, Totals
  <1>4. /\ Len(todo') \in Nat /\ Len(stream') \in Nat /\ Ahead(arm') \in Nat
        /\ Streamed(job', stream', arm', work') \in Nat
        /\ Called(job', work') \in 0..7 /\ Phases(job') \in {0, 1, 3, 4}
    BY <1>2, Totals
  <1>5. Phases(job) \in Nat /\ Phases(job') \in Nat
    BY <1>3, <1>4
  <1> QED BY <1>3, <1>4, <1>5, RemainingIs DEF Total

\* Within a job it is the documents and the calls that count.
LEMMA SameJob ==
    ASSUME JobInv, JobInv', UNCHANGED job,
           \/ /\ Len(todo') = Len(todo)
              /\ Streamed(job', stream', arm', work') = Streamed(job, stream, arm, work)
              /\ Called(job', work') < Called(job, work)
           \/ Len(todo') + Streamed(job', stream', arm', work')
                < Len(todo) + Streamed(job, stream, arm, work)
    PROVE  Remaining' < Remaining
  <1>1. PICK x \in Int : x = Pass * Phases(job)
    <2>1. PICK p \in Nat, q \in Nat : p = Pass /\ q = Phases(job)
      BY Counted
    <2>2. \A a, b \in Nat : a * b \in Int
      OBVIOUS
    <2> QED BY <2>1, <2>2
  <1>2. Pass * Phases(job') = x
    BY <1>1
  <1>3. Remaining = x + 10 * Len(todo) + 10 * Streamed(job, stream, arm, work) + Called(job, work)
    BY <1>1, Counted
  <1>4. Remaining' = x + 10 * Len(todo') + 10 * Streamed(job', stream', arm', work')
                       + Called(job', work')
    BY <1>2, Counted
  <1> DEFINE a == Len(todo)
             b == Streamed(job, stream, arm, work)
             c == Called(job, work)
             d == Len(todo')
             e == Streamed(job', stream', arm', work')
             f == Called(job', work')
  <1>5. a \in Nat /\ b \in Nat /\ c \in 0..7 /\ d \in Nat /\ e \in Nat /\ f \in 0..7
    BY Counted
  <1>6. Remaining = x + 10 * a + 10 * b + c /\ Remaining' = x + 10 * d + 10 * e + f
    BY <1>3, <1>4
  <1>7. \/ d = a /\ e = b /\ f < c
        \/ d + e < a + b
    OBVIOUS
  <1> HIDE DEF a, b, c, d, e, f
  <1> QED BY <1>5, <1>6, <1>7

\* What a job streams and calls, while it goes on.
LEMMA Going ==
    ASSUME JobInv
    PROVE  job \notin Ended =>
             /\ Streamed(job, stream, arm, work)
                  = Len(stream) - (IF job = "experiment" /\ work # Idle THEN 1 ELSE 0) + Ahead(arm)
             /\ Called(job, work) = IF work = Idle THEN 0 ELSE Effort(work)
             /\ work # Idle => Effort(work) \in 1..7
  <1>1. /\ job \in Jobs /\ todo \in Seq(Documents) /\ stream \in ArmStream
        /\ arm \in 0..Len(Arms) /\ (work = Idle \/ Busy(work))
        /\ job = "experiment" /\ work # Idle => stream # << >>
    BY DEF JobInv, ArmStream
  <1> QED BY <1>1, Totals

LEMMA GoingOn ==
    ASSUME JobInv'
    PROVE  job' \notin Ended =>
             /\ Streamed(job', stream', arm', work')
                  = Len(stream') - (IF job' = "experiment" /\ work' # Idle THEN 1 ELSE 0) + Ahead(arm')
             /\ Called(job', work') = IF work' = Idle THEN 0 ELSE Effort(work')
             /\ work' # Idle => Effort(work') \in 1..7
  <1>1. /\ job' \in Jobs /\ todo' \in Seq(Documents) /\ stream' \in ArmStream
        /\ arm' \in 0..Len(Arms) /\ (work' = Idle \/ Busy(work'))
        /\ job' = "experiment" /\ work' # Idle => stream' # << >>
    BY DEF JobInv, ArmStream
  <1> QED BY <1>1, Totals

\* A job that gives way to another: its own documents are at most the corpus.
LEMMA NextJob ==
    ASSUME JobInv, JobInv', job \in {"define", "frontier"}, job' \notin Ended,
           work = Idle, work' = Idle, todo = << >>,
           job = "define" => job' \in {"serve", "frontier", "build", "experiment"},
           job = "frontier" => job' = "routed",
           Len(todo') <= Len(Corpus) + 1, job' = "frontier" => Len(todo') <= Len(Corpus),
           Streamed(job', stream', arm', work') <= Streamed(job, stream, arm, work)
    PROVE  Remaining' < Remaining
  <1> DEFINE b == Streamed(job, stream, arm, work)
             e == Streamed(job', stream', arm', work')
             d == Len(todo')
             n == Len(Corpus)
  <1>1. /\ Len(todo) = 0 /\ Called(job, work) = 0 /\ Called(job', work') = 0
        /\ b \in Nat /\ e \in Nat /\ d \in Nat /\ n \in Nat /\ Pass = 10 * n + 10
    BY Counted, Going, GoingOn, EmptySeq DEF Ended
  <1>2. /\ Phases(job) = IF job = "define" THEN 4 ELSE 3
        /\ Phases(job') = IF job' = "frontier" THEN 3 ELSE 1
    BY DEF Phases, Ended
  <1>3. /\ Remaining = (10 * n + 10) * Phases(job) + 10 * b
        /\ Remaining' = (10 * n + 10) * Phases(job') + 10 * d + 10 * e
    <2>1. /\ Remaining = Pass * Phases(job) + 10 * Len(todo) + 10 * b + Called(job, work)
          /\ Remaining' = Pass * Phases(job') + 10 * d + 10 * e + Called(job', work')
      BY Counted
    <2>2. PICK q \in Nat, r \in Nat : q = Phases(job) /\ r = Phases(job')
      BY Counted
    <2> HIDE DEF b, e, d, n
    <2>3. /\ Remaining = Pass * q + 10 * 0 + 10 * b + 0
          /\ Remaining' = Pass * r + 10 * d + 10 * e + 0
      BY <1>1, <2>1, <2>2
    <2>4. PICK p \in Nat : p = Pass /\ p = 10 * n + 10
      BY <1>1
    <2>5. p * q \in Int /\ p * r \in Int
      BY <2>2
    <2>6. Remaining = p * q + 10 * b /\ Remaining' = p * r + 10 * d + 10 * e
      BY <1>1, <2>3, <2>4, <2>5
    <2> QED BY <2>2, <2>4, <2>6
  <1>4. d <= n + 1 /\ (job' = "frontier" => d <= n) /\ e <= b
    OBVIOUS
  <1> HIDE DEF b, e, d, n
  <1>5. CASE job = "define" /\ job' = "frontier"
    <2>1. Remaining = (10 * n + 10) * 4 + 10 * b /\ Remaining' = (10 * n + 10) * 3 + 10 * d + 10 * e
      BY <1>2, <1>3, <1>5
    <2> QED BY <1>1, <1>4, <1>5, <2>1
  <1>6. CASE job = "define" /\ job' # "frontier"
    <2>1. Remaining = (10 * n + 10) * 4 + 10 * b /\ Remaining' = (10 * n + 10) * 1 + 10 * d + 10 * e
      BY <1>2, <1>3, <1>6
    <2> QED BY <1>1, <1>4, <1>6, <2>1
  <1>7. CASE job = "frontier"
    <2>1. Remaining = (10 * n + 10) * 3 + 10 * b /\ Remaining' = (10 * n + 10) * 1 + 10 * d + 10 * e
      BY <1>2, <1>3, <1>7
    <2> QED BY <1>1, <1>4, <1>7, <2>1
  <1> QED BY <1>5, <1>6, <1>7

LEMMA StepAdvances ==
    JobInv /\ JobInv' /\ [ExperimentNext]_allVars => Remaining' < Remaining \/ UNCHANGED allVars
  <1> SUFFICES ASSUME JobInv, JobInv', ExperimentNext, ~UNCHANGED allVars
               PROVE  Remaining' < Remaining
    OBVIOUS
  <1>1. job \notin Ended
    BY EndedRests
  <1>2. \/ work = Idle /\ work.stage = "idle"
        \/ Busy(work) /\ work.stage \in {"calling", "assessing", "decided", "paused", "raised"}
    BY IdleStage DEF JobInv, Busy, Staged
  <1>3. CASE \E how \in Ended : \E what : EndJob(how, what) /\ UNCHANGED todo
    <2>1. job' \in Ended
      BY <1>3 DEF EndJob
    <2> QED BY <1>1, <1>3, <2>1, EndLeavesNothing
  <1>4. CASE Define /\ UNCHANGED armVars
    <2>1. /\ job = "define" /\ work = Idle /\ todo = << >>
          /\ UNCHANGED <<definition, work, stream, arm>>
      BY <1>4 DEF Define, JobInv, armVars
    <2>2. CASE EndJob("rejected", None) /\ UNCHANGED todo
      BY <1>3, <2>2 DEF Ended
    <2>3. ASSUME job' \in {"serve", "frontier", "build"}, Len(todo') <= Len(Corpus) + 1,
                 job' = "frontier" => Len(todo') <= Len(Corpus)
          PROVE  Remaining' < Remaining
      <3>1. job' \notin Ended /\ job' # "experiment"
        BY <2>3 DEF Ended
      <3>2. Streamed(job', stream', arm', work') = Streamed(job, stream, arm, work)
        BY <1>1, <2>1, <3>1 DEF Streamed
      <3>3. Streamed(job', stream', arm', work') <= Streamed(job, stream, arm, work)
        BY <3>2, Counted
      <3> QED BY <2>1, <2>3, <3>1, <3>3, NextJob
    <2>4. CASE job' = "serve" /\ \E d \in Served : todo' = <<d>>
      <3>1. Len(todo') = 1 /\ Len(Corpus) \in Nat
        BY <2>4, Appended, StudyAssumption
      <3>2. Len(todo') <= Len(Corpus) + 1
        BY <3>1
      <3> QED BY <2>3, <2>4, <3>2
    <2>5. CASE job' = "frontier" /\ todo' = EvalGolden
      <3>1. Len(todo') <= Len(Corpus) /\ Len(todo') \in Nat /\ Len(Corpus) \in Nat
        BY <2>5, GoldenDocuments, StudyAssumption
      <3>2. Len(todo') <= Len(Corpus) + 1
        BY <3>1
      <3> QED BY <2>3, <2>5, <3>1, <3>2
    <2>6. CASE job' = "build" /\ todo' = Corpus
      <3>1. Len(todo') = Len(Corpus) /\ Len(Corpus) \in Nat
        BY <2>6, StudyAssumption
      <3>2. Len(todo') <= Len(Corpus) + 1
        BY <3>1
      <3> QED BY <2>3, <2>6, <3>2
    <2> QED BY <1>4, <2>2, <2>4, <2>5, <2>6 DEF Define
  <1>5. CASE Take /\ UNCHANGED armVars
    <2>1. /\ work = Idle /\ todo # << >> /\ todo' = Tail(todo)
          /\ UNCHANGED <<definition, job, verdict, stream, arm>>
      BY <1>5 DEF Take, armVars
    <2>2. job # "experiment" /\ job' # "experiment" /\ job' \notin Ended
      BY <1>1, <2>1 DEF JobInv
    <2>3. Len(todo') = Len(todo) - 1
      BY <2>1, HeadTailProperties DEF JobInv
    <2>4. Streamed(job', stream', arm', work') = Streamed(job, stream, arm, work)
      BY <1>1, <2>1, <2>2 DEF Streamed
    <2>5. Called(job', work') \in 0..7 /\ Called(job, work) = 0
      BY <1>1, <2>1, Counted, Going
    <2>6. Len(todo') + Streamed(job', stream', arm', work')
               < Len(todo) + Streamed(job, stream, arm, work)
      <3>1. PICK l \in Nat, s \in Nat : l = Len(todo) /\ s = Streamed(job, stream, arm, work)
        BY Counted
      <3>2. Len(todo') = l - 1 /\ Streamed(job', stream', arm', work') = s
        BY <2>3, <2>4, <3>1
      <3> QED BY <3>1, <3>2
    <2> QED BY <2>1, <2>6, SameJob
  <1>6. CASE Extract /\ UNCHANGED armVars
    <2>1. /\ work.stage \in {"calling", "assessing"}
          /\ Step /\ UNCHANGED <<definition, job, todo, verdict, stream, arm>>
      BY <1>2, <1>6, Stepped, IdleStage
         DEF Extract, armVars, Step, Answer, Invalid, Refused, CallFails, OverBudget, Assess
    <2>2. Busy(work) /\ Busy(work') /\ work # Idle /\ work' # Idle /\ Effort(work') < Effort(work)
      BY <1>2, <2>1, Stepped, IdleStage DEF Busy
    <2>3. Streamed(job', stream', arm', work') = Streamed(job, stream, arm, work)
      BY <1>1, <2>1, <2>2 DEF Streamed
    <2>4. /\ Called(job, work) = Effort(work) /\ Called(job', work') = Effort(work')
          /\ Effort(work) \in 1..7 /\ Effort(work') \in 1..7
      BY <1>1, <2>1, <2>2, Going, GoingOn
    <2>5. Len(todo') = Len(todo) /\ Called(job', work') < Called(job, work)
      BY <2>1, <2>2, <2>4
    <2> QED BY <2>1, <2>3, <2>5, SameJob
  <1>7. CASE (Store \/ Pause \/ Raise) /\ UNCHANGED armVars
    <2>1. /\ \E how \in {"done", "crashed"} : \E what : EndJob(how, what)
          /\ UNCHANGED todo
      BY <1>7 DEF Store, Pause, Raise
    <2> QED BY <1>3, <2>1 DEF Ended
  <1>8. CASE (Grade \/ Build) /\ UNCHANGED armVars
    <2>1. /\ work.stage = "decided" /\ work' = Idle /\ job \in {"frontier", "routed", "build"}
          /\ UNCHANGED <<definition, job, todo, verdict, stream, arm>>
      BY <1>8 DEF Grade, Build, armVars
    <2>2. work # Idle /\ job # "experiment" /\ job' # "experiment"
      BY <2>1, IdleStage
    <2>3. Streamed(job', stream', arm', work') = Streamed(job, stream, arm, work)
      BY <1>1, <2>1, <2>2 DEF Streamed
    <2>4. Called(job, work) \in 1..7 /\ Called(job', work') = 0
      BY <1>1, <2>1, <2>2, Going, GoingOn
    <2>5. Len(todo') = Len(todo) /\ Called(job', work') < Called(job, work)
      BY <2>1, <2>4
    <2> QED BY <2>1, <2>3, <2>5, SameJob
  <1>9. CASE Reroute /\ UNCHANGED armVars
    <2>1. /\ job = "frontier" /\ work = Idle /\ todo = << >> /\ job' = "routed"
          /\ todo' = EvalGolden /\ UNCHANGED <<work, stream, arm>>
      BY <1>9 DEF Reroute, PassDone, armVars
    <2>2. Len(todo') <= Len(Corpus) + 1
      <3>1. Len(todo') <= Len(Corpus) /\ Len(todo') \in Nat /\ Len(Corpus) \in Nat
        BY <2>1, GoldenDocuments, StudyAssumption
      <3> QED BY <3>1
    <2>3. job' \notin Ended
      BY <2>1 DEF Ended
    <2>4. Streamed(job', stream', arm', work') = Streamed(job, stream, arm, work)
      BY <1>1, <2>1, <2>3 DEF Streamed
    <2>5. Streamed(job', stream', arm', work') <= Streamed(job, stream, arm, work)
      BY <2>4, Counted
    <2> QED BY <2>1, <2>2, <2>3, <2>5, NextJob
  <1>10. CASE (Gate \/ Fit) /\ UNCHANGED armVars
    <2>1. /\ \E how \in {"done", "exited"} : \E what : EndJob(how, what)
          /\ UNCHANGED todo
      BY <1>10 DEF Gate, Fit
    <2> QED BY <1>3, <2>1 DEF Ended
  <1>11. CASE Rest /\ UNCHANGED armVars
    BY <1>1, <1>11 DEF Rest
  <1>12. CASE Launch
    <2>1. /\ job = "define" /\ job' = "experiment" /\ StartArm(1)
          /\ UNCHANGED <<work, todo>>
      BY <1>12 DEF Launch
    <2>2. work = Idle /\ todo = << >> /\ arm = 0 /\ stream = << >> /\ Len(stream) = 0
      BY <2>1, EmptySeq DEF JobInv
    <2>3. 1 \in 1..Len(Arms) /\ 0 \in 0..Len(Arms) /\ 0 < Len(Arms) /\ 0 + 1 = 1
      BY ExperimentAssumption, EmptySeq
    <2>4. arm' = 1 /\ Len(stream') = Len(Arms[1].stable) + Len(Arms[1].drifted)
      BY <2>1, <2>3, ArmStarts
    <2>5. /\ Len(Arms[1].stable) \in Nat /\ Len(Arms[1].drifted) \in Nat
          /\ Ahead(0) = 1 + Len(Arms[1].stable) + Len(Arms[1].drifted) + Ahead(1)
      BY <2>3, Aheads
    <2>6. job' \notin Ended
      BY <2>1 DEF Ended
    <2>7. /\ Streamed(job, stream, arm, work) = 0 - 0 + Ahead(0)
          /\ Streamed(job', stream', arm', work') = Len(stream') - 0 + Ahead(1)
      BY <1>1, <2>1, <2>2, <2>4, <2>6, Going, GoingOn
    <2>8. Ahead(0) \in Nat /\ Ahead(1) \in Nat /\ Len(stream') \in Nat
      BY <2>2, <2>4, Counted
    <2>9. Streamed(job', stream', arm', work') <= Streamed(job, stream, arm, work)
      <3>1. PICK a \in Nat, b \in Nat, c \in Nat :
              a = Len(Arms[1].stable) /\ b = Len(Arms[1].drifted) /\ c = Ahead(1)
        BY <2>5, <2>8
      <3>2. PICK x \in Nat, y \in Nat :
              x = Ahead(0) /\ x = 1 + a + b + c /\ y = Len(stream') /\ y = a + b
        <4>1. Ahead(0) = 1 + a + b + c /\ Len(stream') = a + b
          BY <2>4, <2>5, <3>1
        <4>2. 1 + a + b + c \in Nat /\ a + b \in Nat
          OBVIOUS
        <4> QED BY <4>1, <4>2, Zenon
      <3>3. /\ Streamed(job, stream, arm, work) = 0 - 0 + x
            /\ Streamed(job', stream', arm', work') = y - 0 + c
        BY <2>7, <3>1, <3>2, Zenon
      <3>6. /\ Streamed(job, stream, arm, work) = 1 + a + b + c
            /\ Streamed(job', stream', arm', work') = a + b + c
        BY <3>2, <3>3
      <3> QED BY <3>6
    <2>10. Len(todo') <= Len(Corpus) + 1
      BY <2>1, <2>2, Counted, EmptySeq
    <2> QED BY <2>1, <2>2, <2>6, <2>9, <2>10, NextJob
  <1>13. CASE Feed
    <2>1. /\ job = "experiment" /\ stream # << >> /\ work = Idle
          /\ Begin(Head(stream).doc, "routed")
          /\ UNCHANGED <<job, todo, stream, arm>>
      BY <1>13 DEF Feed, armVars
    <2>2. work' # Idle
      <3>1. Head(stream).doc \in Documents
        <4>1. Head(stream) \in [phase : {"stable", "drifted"}, doc : Documents]
          BY <2>1, HeadTailProperties DEF JobInv
        <4> QED BY <4>1
      <3> QED BY <2>1, <3>1, Begun DEF Busy
    <2>3. /\ Streamed(job, stream, arm, work) = Len(stream) - 0 + Ahead(arm)
          /\ Streamed(job', stream', arm', work') = Len(stream) - 1 + Ahead(arm)
          /\ Called(job, work) = 0 /\ Called(job', work') \in 0..7
      BY <1>1, <2>1, <2>2, Going, GoingOn, Counted
    <2>4. Len(todo') + Streamed(job', stream', arm', work')
               < Len(todo) + Streamed(job, stream, arm, work)
      <3>1. PICK l \in Nat, n \in Nat, a \in Nat :
              l = Len(todo) /\ n = Len(stream) /\ a = Ahead(arm)
        BY Counted
      <3>2. /\ Len(todo') = l
            /\ Streamed(job, stream, arm, work) = n - 0 + a
            /\ Streamed(job', stream', arm', work') = n - 1 + a
        BY <2>1, <2>3, <3>1
      <3> QED BY <3>1, <3>2
    <2> QED BY <2>1, <2>4, SameJob
  <1>14. CASE Watch
    <2>1. /\ job = "experiment" /\ work.stage = "decided" /\ work # Idle /\ UNCHANGED todo
          /\ stream # << >>
      BY <1>14, IdleStage DEF Watch, JobInv
    <2>2. CASE EndJob("crashed", None) /\ UNCHANGED <<work, armVars>>
      BY <1>3, <2>1, <2>2 DEF Ended
    <2>3. CASE stream' = Tail(stream) /\ work' = Idle /\ UNCHANGED <<job, verdict, arm, summaries>>
      <3>1. Len(stream') = Len(stream) - 1
        BY <2>1, <2>3, HeadTailProperties DEF JobInv
      <3>2. /\ Streamed(job, stream, arm, work) = Len(stream) - 1 + Ahead(arm)
            /\ Streamed(job', stream', arm', work') = Len(stream') - 0 + Ahead(arm)
            /\ Called(job, work) = Effort(work) /\ Called(job', work') = 0
            /\ Effort(work) \in 1..7
        BY <1>1, <2>1, <2>3, Going, GoingOn
      <3>3. Len(todo') = Len(todo) /\ Called(job', work') < Called(job, work)
        BY <2>1, <3>2
      <3>4. Streamed(job', stream', arm', work') = Streamed(job, stream, arm, work)
        <4>1. PICK n \in Nat, a \in Nat : n = Len(stream) /\ a = Ahead(arm)
          BY Counted
        <4>2. /\ Streamed(job, stream, arm, work) = n - 1 + a
              /\ Streamed(job', stream', arm', work') = (n - 1) - 0 + a
          BY <3>1, <3>2, <4>1
        <4> QED BY <4>2
      <3> QED BY <2>3, <3>3, <3>4, SameJob
    <2> QED BY <1>14, <2>2, <2>3, Zenon DEF Watch
  <1>15. CASE NextArm
    <2>1. /\ job = "experiment" /\ work = Idle /\ stream = << >> /\ arm < Len(Arms)
          /\ StartArm(arm + 1) /\ UNCHANGED <<job, work, todo>>
      BY <1>15 DEF NextArm, ArmDone, vars
    <2>2. PICK n \in 0..Len(Arms) : n = arm
      BY DEF JobInv
    <2>3. n + 1 \in 1..Len(Arms) /\ n < Len(Arms)
      BY <2>1, <2>2, ExperimentAssumption
    <2>4. arm' = n + 1 /\ Len(stream') = Len(Arms[n + 1].stable) + Len(Arms[n + 1].drifted)
      BY <2>1, <2>2, <2>3, ArmStarts
    <2>5. /\ Len(Arms[n + 1].stable) \in Nat /\ Len(Arms[n + 1].drifted) \in Nat
          /\ Ahead(n) = 1 + Len(Arms[n + 1].stable) + Len(Arms[n + 1].drifted) + Ahead(n + 1)
      BY <2>3, Aheads
    <2>6. /\ Len(stream) = 0 /\ Ahead(n) \in Nat /\ Ahead(n + 1) \in Nat
      BY <2>1, <2>2, <2>4, Counted, EmptySeq
    <2>7. /\ Streamed(job, stream, arm, work) = 0 - 0 + Ahead(n)
          /\ Streamed(job', stream', arm', work') = Len(stream') - 0 + Ahead(n + 1)
          /\ Called(job, work) = 0 /\ Called(job', work') = 0
      BY <1>1, <2>1, <2>2, <2>4, <2>6, Going, GoingOn
    <2>8. Len(todo') + Streamed(job', stream', arm', work')
               < Len(todo) + Streamed(job, stream, arm, work)
      <3>1. PICK l \in Nat, a \in Nat, b \in Nat, c \in Nat :
              /\ l = Len(todo) /\ c = Ahead(n + 1)
              /\ a = Len(Arms[n + 1].stable) /\ b = Len(Arms[n + 1].drifted)
        BY <2>5, <2>6, Counted
      <3>2. PICK x \in Nat, y \in Nat :
              x = Ahead(n) /\ x = 1 + a + b + c /\ y = Len(stream') /\ y = a + b
        <4>1. Ahead(n) = 1 + a + b + c /\ Len(stream') = a + b
          BY <2>4, <2>5, <3>1
        <4>2. 1 + a + b + c \in Nat /\ a + b \in Nat
          OBVIOUS
        <4> QED BY <4>1, <4>2, Zenon
      <3>3. /\ Streamed(job, stream, arm, work) = 0 - 0 + x
            /\ Streamed(job', stream', arm', work') = y - 0 + c
        BY <2>7, <3>1, <3>2, Zenon
      <3>6. /\ Streamed(job, stream, arm, work) = 1 + a + b + c
            /\ Streamed(job', stream', arm', work') = a + b + c
        BY <3>2, <3>3
      <3>4. Len(todo') = l
        BY <2>1, <3>1
      <3>5. l + (a + b + c) < l + (1 + a + b + c)
        OBVIOUS
      <3> QED BY <3>1, <3>4, <3>5, <3>6, Zenon
    <2> QED BY <2>1, <2>8, SameJob
  <1>16. CASE WriteReport
    <2>1. /\ \E how \in {"done", "crashed"} : \E what : EndJob(how, what)
          /\ UNCHANGED todo
      BY <1>16 DEF WriteReport
    <2> QED BY <1>3, <2>1 DEF Ended
  <1> QED BY <1>4, <1>5, <1>6, <1>7, <1>8, <1>9, <1>10, <1>11, <1>12, <1>13, <1>14, <1>15, <1>16
          DEF ExperimentNext, Next

\* What is left is a natural number.
LEMMA RemainingIsNatural == JobInv => Remaining \in Nat
  <1> SUFFICES ASSUME JobInv PROVE Remaining \in Nat
    OBVIOUS
  <1>1. /\ job \in Jobs /\ todo \in Seq(Documents) /\ stream \in ArmStream
        /\ arm \in 0..Len(Arms) /\ (work = Idle \/ Busy(work))
        /\ job = "experiment" /\ work # Idle => stream # << >>
    BY DEF JobInv, ArmStream
  <1>2. /\ Len(todo) \in Nat /\ Pass \in Nat /\ Streamed(job, stream, arm, work) \in Nat
        /\ Called(job, work) \in 0..7 /\ Phases(job) \in {0, 1, 3, 4}
    BY <1>1, Totals
  <1>3. PICK p \in Nat, q \in {0, 1, 3, 4}, l \in Nat, s \in Nat, c \in 0..7 :
          p = Pass /\ q = Phases(job) /\ l = Len(todo)
            /\ s = Streamed(job, stream, arm, work) /\ c = Called(job, work)
    BY <1>2, Zenon
  <1>4. Remaining = p * q + 10 * l + 10 * s + c
    BY <1>3, RemainingIs DEF Total
  <1> QED BY <1>4

\* Whatever the model answers and whichever calls are made again, every step of every job
\* leaves fewer documents, passes, arms, calls and attempts, of which there are a natural
\* number: run_extraction's correction, the escalation, the gate's second pass and the
\* experiment's arms are each taken a bounded number of times, so no job runs for ever.
THEOREM EveryJobAdvances == ExperimentSpec => JobsAdvance /\ [](Remaining \in Nat)
  <1>1. JobInv /\ JobInv' /\ [ExperimentNext]_allVars => [Remaining' < Remaining]_allVars
    BY StepAdvances
  <1> QED BY <1>1, RemainingIsNatural, JobHolds, PTL DEF ExperimentSpec, JobsAdvance, allVars

--------------------------------------------------------------------------
(* The arms of the experiment.                                             *)

\* A run of breaches is of documents that came after the baseline.
RunsAfterBaseline(r) ==
    /\ r.n_observed \in Nat
    /\ \A s \in Monitor!Signals :
          /\ "consecutive" \in DOMAIN r.stats[s] /\ r.stats[s].consecutive \in Nat
          /\ r.stats[s].consecutive # 0 => BaselineN + r.stats[s].consecutive <= r.n_observed

\* The row that is observed, or the one that is inserted.
Before == IF row = None THEN Monitor!NewRow ELSE row

ArmInv ==
    /\ \E S : steps \in Seq(S)
    /\ RunsAfterBaseline(Before) /\ Before.n_observed <= Len(steps)
    /\ ArmsAreApart

LEMMA NewRowRuns == RunsAfterBaseline(Monitor!NewRow) /\ Monitor!NewRow.n_observed = 0
  BY DEF RunsAfterBaseline, Monitor!NewRow, Monitor!NoStat

\* One observation: a statistic's run is as it was, one longer, or over.
LEMMA ObservedRuns ==
    ASSUME NEW r, RunsAfterBaseline(r), NEW doc, NEW id, NEW dim
    PROVE  LET after == Monitor!Observe(r, doc, id, dim)
           IN  RunsAfterBaseline(after) /\ after.n_observed = r.n_observed + 1
  <1> DEFINE after == Monitor!Observe(r, doc, id, dim)
             v == Monitor!SignalValues(r, doc, dim)
             n == r.n_observed + 1
             stats == [s \in Monitor!Signals |->
                         IF Monitor!Collecting(n) THEN Monitor!Collected(r.stats[s], v[s])
                         ELSE Monitor!Judged(s, r.stats[s], v[s])]
  <1>1. after.n_observed = n /\ after.stats = stats
    BY DEF Monitor!Observe
  <1>2. n \in Nat /\ r.n_observed \in Nat /\ BaselineN \in Nat
    BY ExperimentAssumption DEF RunsAfterBaseline
  <1>3. ASSUME NEW s \in Monitor!Signals
        PROVE  /\ "consecutive" \in DOMAIN stats[s] /\ stats[s].consecutive \in Nat
               /\ stats[s].consecutive # 0 => BaselineN + stats[s].consecutive <= n
    <2> DEFINE old == r.stats[s]
    <2>1. PICK c \in Nat : c = old.consecutive /\ (c # 0 => BaselineN + c <= r.n_observed)
      BY DEF RunsAfterBaseline
    <2>2. "consecutive" \in DOMAIN old
      BY DEF RunsAfterBaseline
    <2>3. CASE Monitor!Collecting(n)
      <3>1. stats[s] = Monitor!Collected(old, v[s])
        BY <2>3
      <3> HIDE DEF stats, old, v
      <3>2. "consecutive" \in DOMAIN stats[s] /\ stats[s].consecutive = c
        BY <2>1, <2>2, <3>1 DEF Monitor!Collected, Monitor!WelfordUpdate
      <3> QED BY <1>2, <2>1, <3>2
    <2>4. CASE ~Monitor!Collecting(n)
      <3>1. stats[s] = Monitor!Judged(s, old, v[s])
        BY <2>4
      <3>2. BaselineN < n
        BY <1>2, <2>4 DEF Monitor!Collecting
      <3> HIDE DEF stats, old, v
      <3>3. "consecutive" \in DOMAIN stats[s] /\ stats[s].consecutive \in {0, c, c + 1}
        BY <2>1, <2>2, <3>1 DEF Monitor!Judged
      <3> QED BY <1>2, <2>1, <3>2, <3>3
    <2> QED BY <2>3, <2>4
  <1> HIDE DEF stats, after
  <1>4. RunsAfterBaseline(after) /\ after.n_observed = n
    BY <1>1, <1>2, <1>3 DEF RunsAfterBaseline
  <1> QED BY <1>4 DEF after

\* s with x after it.
Longer(t, s, x) ==
    /\ \E R : t \in Seq(R)
    /\ Len(t) = Len(s) + 1 /\ t[Len(s) + 1] = x
    /\ DOMAIN t = 1..(Len(s) + 1) /\ DOMAIN s = 1..Len(s) /\ Len(s) \in Nat
    /\ \A i \in 1..Len(s) : t[i] = s[i]

LEMMA StepAdded == ASSUME NEW S, NEW s \in Seq(S), NEW x PROVE Longer(Append(s, x), s, x)
  <1> DEFINE R == S \cup {x}
             t == Append(s, x)
  <1>1. s \in Seq(R) /\ x \in R
    BY SeqMonotonic
  <1> HIDE DEF R
  <1>2. t \in Seq(R)
    BY <1>1
  <1>3. /\ Len(t) = Len(s) + 1 /\ t[Len(s) + 1] = x
        /\ \A i \in 1..Len(s) : t[i] = s[i]
    BY <1>1, AppendProperties
  <1>4. DOMAIN t = 1..Len(t) /\ DOMAIN s = 1..Len(s) /\ Len(s) \in Nat
    BY <1>1, <1>2, LenProperties
  <1> HIDE DEF t
  <1>5. Longer(t, s, x)
    BY <1>2, <1>3, <1>4 DEF Longer
  <1> QED BY <1>5 DEF t

LEMMA StepArm == ArmInv /\ [ExperimentNext]_allVars => ArmInv'
  <1> SUFFICES ASSUME ArmInv, [ExperimentNext]_allVars PROVE ArmInv'
    OBVIOUS
  <1>1. CASE UNCHANGED armVars
    BY <1>1 DEF ArmInv, ArmsAreApart, Before, armVars, RunsAfterBaseline
  <1>2. ASSUME row' = None, steps' = << >> PROVE ArmInv'
    <2>1. steps' \in Seq({}) /\ Len(steps') = 0 /\ DOMAIN steps' = {}
      BY <1>2
    <2>2. Before' = Monitor!NewRow
      BY <1>2 DEF Before
    <2>3. RunsAfterBaseline(Before') /\ Before'.n_observed = 0
      BY <2>2, NewRowRuns
    <2>4. ArmsAreApart'
      BY <2>1 DEF ArmsAreApart
    <2>5. \E S : steps' \in Seq(S)
      BY <2>1
    <2> QED BY <2>1, <2>3, <2>4, <2>5 DEF ArmInv
  <1>3. CASE Launch \/ NextArm
    BY <1>2, <1>3 DEF Launch, NextArm, StartArm, Reset
  <1>4. CASE WriteReport
    <2>1. steps' = steps /\ (row' = None \/ row' = row)
      BY <1>4 DEF WriteReport
    <2>2. Before' = Before \/ Before' = Monitor!NewRow
      BY <2>1 DEF Before
    <2>3. PICK S : steps \in Seq(S)
      BY DEF ArmInv
    <2>4. Len(steps) \in Nat
      BY <2>3
    <2>5. RunsAfterBaseline(Before') /\ Before'.n_observed <= Len(steps')
      BY <2>1, <2>2, <2>4, NewRowRuns DEF ArmInv
    <2>6. ArmsAreApart'
      BY <2>1 DEF ArmInv, ArmsAreApart
    <2>7. \E T : steps' \in Seq(T)
      BY <2>1, <2>3
    <2> QED BY <2>5, <2>6, <2>7 DEF ArmInv
  <1>5. CASE Watch /\ ~UNCHANGED armVars
    <2> DEFINE seen == Observed(Kept(work), work.doc)
               after == Monitor!Observe(Before, seen, None, 1)
               x == StepOf(Kept(work), work.doc, Head(stream).phase, Before, after)
    <2>1. row' = after /\ steps' = Append(steps, x)
      BY <1>5, Zenon DEF Watch, Before
    <2>2. RunsAfterBaseline(Before) /\ Before.n_observed <= Len(steps) /\ ArmsAreApart
      BY DEF ArmInv
    <2>3. RunsAfterBaseline(after) /\ after.n_observed = Before.n_observed + 1
      BY <2>2, ObservedRuns
    <2>4. PICK S : steps \in Seq(S)
      BY DEF ArmInv
    <2>5. x.flagged = Monitor!Flagged(after.stats)
      BY DEF StepOf
    <2> HIDE DEF after, x, seen
    <2>6. /\ \E R : steps' \in Seq(R)
          /\ Len(steps') = Len(steps) + 1 /\ steps'[Len(steps) + 1] = x
          /\ DOMAIN steps' = 1..(Len(steps) + 1) /\ DOMAIN steps = 1..Len(steps)
          /\ Len(steps) \in Nat
          /\ \A i \in 1..Len(steps) : steps'[i] = steps[i]
      <3>1. Longer(steps', steps, x)
        BY <2>1, <2>4, StepAdded
      <3> QED BY <3>1 DEF Longer
    <2>7. Before.n_observed \in Nat /\ after.n_observed <= Len(steps')
      BY <2>2, <2>3, <2>6 DEF RunsAfterBaseline
    <2>8. RunsAfterBaseline(Before') /\ Before'.n_observed <= Len(steps')
      <3>1. Before' = after \/ Before' = Monitor!NewRow
        BY <2>1 DEF Before
      <3> QED BY <2>3, <2>6, <2>7, <3>1, NewRowRuns
    <2>9. x.flagged # {} => Len(steps) + 1 >= BaselineN + K
      <3> SUFFICES ASSUME x.flagged # {} PROVE Len(steps) + 1 >= BaselineN + K
        OBVIOUS
      <3>1. PICK s \in Monitor!Signals : after.stats[s].consecutive >= K
        BY <2>5 DEF Monitor!Flagged
      <3>2. PICK c \in Nat : c = after.stats[s].consecutive
        BY <2>3 DEF RunsAfterBaseline
      <3>3. c >= K /\ K \in Nat \ {0} /\ BaselineN \in Nat
        BY <3>1, <3>2, ExperimentAssumption
      <3>4. BaselineN + c <= after.n_observed
        BY <2>3, <3>2, <3>3 DEF RunsAfterBaseline
      <3> QED BY <2>2, <2>3, <2>6, <2>7, <3>3, <3>4
    <2>10. ArmsAreApart'
      <3> SUFFICES ASSUME NEW i \in DOMAIN steps', steps'[i].flagged # {}
                   PROVE  i >= BaselineN + K
        BY DEF ArmsAreApart
      <3>1. CASE i \in DOMAIN steps
        BY <2>2, <2>6, <3>1 DEF ArmsAreApart
      <3>2. CASE i \notin DOMAIN steps
        <4>1. i = Len(steps) + 1
          BY <2>6, <3>2
        <4> QED BY <2>6, <2>9, <4>1
      <3> QED BY <3>1, <3>2
    <2> QED BY <2>6, <2>8, <2>10 DEF ArmInv
  <1> QED BY <1>1, <1>3, <1>4, <1>5 DEF ExperimentNext, Feed, allVars

LEMMA ArmHolds == ExperimentSpec => []ArmInv
  <1>1. ExperimentInit => ArmInv
    <2> SUFFICES ASSUME ExperimentInit PROVE ArmInv
      OBVIOUS
    <2>1. steps = << >> /\ row = None
      BY DEF ExperimentInit
    <2>2. steps \in Seq({}) /\ Len(steps) = 0 /\ DOMAIN steps = {}
      BY <2>1
    <2>3. RunsAfterBaseline(Before) /\ Before.n_observed = 0
      BY <2>1, NewRowRuns DEF Before
    <2>4. \E S : steps \in Seq(S)
      BY <2>2
    <2> QED BY <2>2, <2>3, <2>4 DEF ArmInv, ArmsAreApart
  <1> QED BY <1>1, StepArm, PTL DEF ExperimentSpec, allVars

\* Both arms use one tenant, whose row is deleted before each: a document is flagged only
\* once its own arm has had BaselineN documents and K breaching ones after them, so
\* nothing of one arm's run is a detection, or a false positive, of the next.
THEOREM TheArmsAreApart == ExperimentSpec => []ArmsAreApart
  <1>1. ArmInv => ArmsAreApart
    BY DEF ArmInv
  <1> QED BY <1>1, ArmHolds, PTL

--------------------------------------------------------------------------
(* What the experiment's report says.                                      *)

\* The positions from i to n that are marked, and those with W marked ones at most to n.
MarkedFrom(P, n, i) == {j \in i..n : j \in P}
LastMarked(P, n, W) == {i \in 1..n : i \in P /\ Cardinality(MarkedFrom(P, n, i)) <= W}

\* The last W of the marked positions are a stretch of them.
LEMMA LastOnes ==
    ASSUME NEW P, NEW n \in Nat, NEW W \in Nat \ {0}
    PROVE  /\ \A a \in 1..n : Cardinality(MarkedFrom(P, n, a)) = W =>
                              MarkedFrom(P, n, a) = LastMarked(P, n, W)
           /\ Cardinality(LastMarked(P, n, W)) = W =>
                \E a \in 1..n : MarkedFrom(P, n, a) = LastMarked(P, n, W)
  <1> DEFINE Marked(i) == {j \in i..n : j \in P}
             last == {i \in 1..n : i \in P /\ Cardinality(Marked(i)) <= W}
  <1>1. \A i \in Nat : IsFiniteSet(Marked(i)) /\ Cardinality(Marked(i)) \in Nat
    <2>1. ASSUME NEW i \in Nat PROVE IsFiniteSet(Marked(i))
      <3>1. IsFiniteSet(i..n)
        BY FS_Interval
      <3>2. QED
        BY <3>1, FS_Subset
    <2>2. QED
      BY <2>1, FS_CardinalityType
  <1>2. \A i \in Nat : \A k \in i..n : Cardinality(Marked(k)) <= Cardinality(Marked(i))
    <2>1. ASSUME NEW i \in Nat, NEW k \in i..n
          PROVE  Cardinality(Marked(k)) <= Cardinality(Marked(i))
      <3>1. Marked(k) \subseteq Marked(i)
        OBVIOUS
      <3>2. QED
        BY <1>1, <3>1, FS_Subset
    <2>2. QED
      BY <2>1
  <1>3. ASSUME NEW a \in 1..n, Cardinality(Marked(a)) = W PROVE Marked(a) = last
    <2>1. Marked(a) \subseteq last
      <3>1. ASSUME NEW i \in Marked(a) PROVE i \in last
        <4>1. i \in a..n /\ i \in P /\ i \in 1..n
          OBVIOUS
        <4>2. Cardinality(Marked(i)) <= Cardinality(Marked(a))
          BY <1>2, <4>1
        <4>3. QED
          BY <1>3, <4>1, <4>2
      <3>2. QED
        BY <3>1
    <2>2. ASSUME NEW i \in last, i \notin Marked(a) PROVE FALSE
      <3>1. i \in 1..n /\ i \in P /\ Cardinality(Marked(i)) <= W
        OBVIOUS
      <3>2. i < a
        BY <2>2, <3>1
      <3>3. i \in Marked(i) /\ i \notin Marked(a)
        BY <3>1, <2>2
      <3>4. Marked(a) \subseteq Marked(i) \ {i}
        BY <3>1, <3>2, <2>2
      <3>5. IsFiniteSet(Marked(i)) /\ Cardinality(Marked(i)) \in Nat
        BY <1>1, <3>1
      <3> HIDE DEF Marked, last
      <3>6. Cardinality(Marked(i) \ {i}) = Cardinality(Marked(i)) - 1 /\ IsFiniteSet(Marked(i) \ {i})
        BY <3>3, <3>5, FS_RemoveElement
      <3>7. Cardinality(Marked(a)) <= Cardinality(Marked(i) \ {i})
        BY <3>4, <3>6, FS_Subset
      <3>8. QED
        BY <1>3, <3>1, <3>5, <3>6, <3>7
    <2>3. QED
      BY <2>1, <2>2
  <1>4. ASSUME Cardinality(last) = W PROVE \E a \in 1..n : Marked(a) = last
    <2>1. last # {}
      <3>1. Cardinality({}) = 0
        BY FS_EmptySet
      <3>2. QED
        BY <1>4, <3>1
    <2>2. last \subseteq Nat
      OBVIOUS
    <2>3. PICK a \in last : \A i \in last : a <= i
      BY <2>1, <2>2, LeastNumber
    <2>4. a \in 1..n /\ a \in P /\ Cardinality(Marked(a)) <= W
      OBVIOUS
    <2>5. last \subseteq Marked(a)
      BY <2>3, <2>4
    <2>6. ASSUME NEW i \in Marked(a) PROVE i \in last
      <3>1. i \in a..n /\ i \in P /\ i \in 1..n
        BY <2>4
      <3>2. Cardinality(Marked(i)) <= Cardinality(Marked(a))
        BY <1>2, <2>4, <3>1
      <3>3. Cardinality(Marked(i)) \in Nat /\ Cardinality(Marked(a)) \in Nat
        BY <1>1, <2>4, <3>1
      <3>4. Cardinality(Marked(i)) <= W
        <4> HIDE DEF Marked, last
        <4> QED
          BY <2>4, <3>2, <3>3
      <3>5. QED
        BY <3>1, <3>4
    <2>7. QED
      BY <2>4, <2>5, <2>6
  <1>5. QED
    BY <1>3, <1>4 DEF MarkedFrom, LastMarked

LEMMA LargerOfTwo ==
    ASSUME NEW a \in Int, NEW b \in Int
    PROVE  Max({a, b}) = IF a <= b THEN b ELSE a
  <1>1. \E x \in {a, b} : \A y \in {a, b} : x >= y
    OBVIOUS
  <1>2. Max({a, b}) \in {a, b} /\ \A y \in {a, b} : Max({a, b}) >= y
    BY <1>1 DEF Max
  <1>3. QED
    BY <1>2

LEMMA FirstIs ==
    ASSUME NEW set \in SUBSET Nat
    PROVE  /\ set = {} => First(set) = None
           /\ set # {} => /\ First(set) \in set /\ First(set) # None
                          /\ \A x \in set : First(set) <= x
  <1>1. ASSUME set # {}
        PROVE  First(set) \in set /\ First(set) # None /\ \A x \in set : First(set) <= x
    <2>1. \E x \in set : \A y \in set : x <= y
      BY <1>1, LeastNumber
    <2>2. Min(set) \in set /\ \A y \in set : Min(set) <= y
      BY <2>1 DEF Min
    <2>3. set \subseteq Int
      OBVIOUS
    <2>4. Min(set) \in Int
      BY <2>2, <2>3, Zenon
    <2>5. First(set) = Min(set)
      BY <1>1 DEF First
    <2>6. QED
      BY <2>2, <2>4, <2>5, DefinitionAssumption, Zenon
  <1>2. QED
    BY <1>1 DEF First

\* A stretch of documents with Window approved ones is what the report's series looks at.
LEMMA StretchIsRecent ==
    ASSUME NEW S, NEW ran \in Seq(S), NEW n \in 1..Len(ran)
    PROVE  LET Stretch(a) == {i \in a..n : ran[i].approved} IN
           /\ \A a \in 1..n : Cardinality(Stretch(a)) = Window => Stretch(a) = Recent(ran, n)
           /\ Cardinality(Recent(ran, n)) = Window => \E a \in 1..n : Stretch(a) = Recent(ran, n)
  <1> DEFINE P == {i \in DOMAIN ran : ran[i].approved}
             Stretch(a) == {i \in a..n : ran[i].approved}
  <1>1. Window \in Nat \ {0} /\ n \in Nat /\ DOMAIN ran = 1..Len(ran) /\ Len(ran) \in Nat
    BY ExperimentAssumption
  <1>2. 1..n \subseteq DOMAIN ran
    BY <1>1
  <1>3. \A a \in 1..n : a..n \subseteq DOMAIN ran
    BY <1>1
  <1>4. \A a \in 1..n : Stretch(a) = MarkedFrom(P, n, a)
    BY <1>3, Zenon DEF MarkedFrom
  <1>5. Recent(ran, n) = LastMarked(P, n, Window)
    <2>1. \A i \in 1..n : ran[i].approved <=> i \in P
      BY <1>2, Zenon
    <2>2. QED
      BY <1>4, <2>1, Zenon DEF Recent, LastMarked
  <1>6. /\ \A a \in 1..n : Cardinality(MarkedFrom(P, n, a)) = Window =>
                            MarkedFrom(P, n, a) = LastMarked(P, n, Window)
        /\ Cardinality(LastMarked(P, n, Window)) = Window =>
              \E a \in 1..n : MarkedFrom(P, n, a) = LastMarked(P, n, Window)
    <2> HIDE DEF P
    <2> QED
      BY <1>1, LastOnes
  <1> HIDE DEF Stretch, P
  <1>7. /\ \A a \in 1..n : Cardinality(Stretch(a)) = Window => Stretch(a) = Recent(ran, n)
        /\ Cardinality(Recent(ran, n)) = Window => \E a \in 1..n : Stretch(a) = Recent(ran, n)
    BY <1>4, <1>5, <1>6, Zenon
  <1>8. QED
    BY <1>7 DEF Stretch

\* Some run of Window approved documents is under the floor exactly if a trailing one is.
LEMMA FellIs ==
    ASSUME NEW S, NEW ran \in Seq(S), NEW from \in Nat \ {0}, NEW to \in 0..Len(ran)
    PROVE  Fell(ran, from, to) <=> \E n \in BelowFloor(ran) : from <= n /\ n <= to
  <1>1. Len(ran) \in Nat /\ DOMAIN ran = 1..Len(ran) /\ to \in Nat
    OBVIOUS
  <1>2. ASSUME Fell(ran, from, to) PROVE \E n \in BelowFloor(ran) : from <= n /\ n <= to
    <2>1. PICK a \in 1..to : \E n \in Max({a, from})..to :
             LET run == {i \in a..n : ran[i].approved} IN
             ran[n].approved /\ Cardinality(run) = Window /\ ~Precise(ran, run)
      BY <1>2 DEF Fell
    <2>2. PICK n \in Max({a, from})..to :
             LET run == {i \in a..n : ran[i].approved} IN
             ran[n].approved /\ Cardinality(run) = Window /\ ~Precise(ran, run)
      BY <2>1, Zenon
    <2>3. Max({a, from}) = IF a <= from THEN from ELSE a
      BY LargerOfTwo
    <2>4. n \in 1..Len(ran) /\ a \in 1..n /\ from <= n /\ n <= to
      BY <1>1, <2>3
    <2>5. {i \in a..n : ran[i].approved} = Recent(ran, n)
      BY <2>2, <2>4, StretchIsRecent
    <2>6. n \in BelowFloor(ran)
      BY <1>1, <2>2, <2>4, <2>5 DEF BelowFloor
    <2>7. QED
      BY <2>4, <2>6
  <1>3. ASSUME NEW n \in BelowFloor(ran), from <= n, n <= to PROVE Fell(ran, from, to)
    <2>1. /\ n \in 1..Len(ran) /\ ran[n].approved
          /\ Cardinality(Recent(ran, n)) = Window /\ ~Precise(ran, Recent(ran, n))
      BY <1>1 DEF BelowFloor
    <2>2. PICK a \in 1..n : {i \in a..n : ran[i].approved} = Recent(ran, n)
      BY <2>1, StretchIsRecent
    <2>3. Max({a, from}) = IF a <= from THEN from ELSE a
      BY LargerOfTwo
    <2>4. a \in 1..to /\ n \in Max({a, from})..to
      BY <1>1, <1>3, <2>1, <2>3
    <2>5. QED
      BY <2>1, <2>2, <2>4 DEF Fell
  <1>4. QED
    BY <1>2, <1>3

HasDrifted(ran) == \E i \in DOMAIN ran : ran[i].phase = "drifted"

\* The headline about a stream that has the redesign in it.
LEMMA ClaimsHold ==
    ASSUME NEW S, NEW ran \in Seq(S), HasDrifted(ran)
    PROVE  HeadlineIsSo(ran)
  <1> DEFINE swap == SwapIndex(ran)
             flag == DetectionIndex(ran)
             late == {n \in BelowFloor(ran) : n >= swap}
             breach == FirstBreach(ran, swap)
             says == Headline(Summary(ran))
             Document(count) == swap + count - 1
  <1>1. Len(ran) \in Nat /\ DOMAIN ran = 1..Len(ran)
    OBVIOUS
  <1>2. swap \in 1..Len(ran) /\ swap # None
    <2>1. {i \in DOMAIN ran : ran[i].phase = "drifted"} \in SUBSET Nat
      BY <1>1
    <2>2. QED
      BY <1>1, <2>1, FirstIs DEF SwapIndex, HasDrifted
  <1>3. flag = None \/ flag \in 1..Len(ran)
    <2>1. {i \in DOMAIN ran : ran[i].flagged # {}} \in SUBSET Nat
      BY <1>1
    <2>2. QED
      BY <1>1, <2>1, FirstIs DEF DetectionIndex
  <1>4. \A to \in 0..Len(ran) : Fell(ran, swap, to) <=> \E n \in late : n <= to
    <2>1. BelowFloor(ran) \subseteq 1..Len(ran) /\ swap \in Nat \ {0}
      BY <1>1, <1>2 DEF BelowFloor
    <2>2. ASSUME NEW to \in 0..Len(ran)
          PROVE  Fell(ran, swap, to) <=> \E n \in late : n <= to
      <3>1. Fell(ran, swap, to) <=> \E n \in BelowFloor(ran) : swap <= n /\ n <= to
        BY <2>1, FellIs
      <3>2. QED
        BY <2>1, <3>1
    <2>3. QED
      BY <2>2
  <1>5. late \subseteq 1..Len(ran)
    BY <1>1 DEF BelowFloor
  <1>6. /\ late = {} => breach = None
        /\ late # {} => breach \in late /\ breach # None /\ \A n \in late : breach <= n
    <2>1. breach = First(late)
      BY <1>2 DEF FirstBreach
    <2>2. late \in SUBSET Nat
      BY <1>1, <1>5
    <2>3. QED
      BY <2>1, <2>2, FirstIs
  <1>7. /\ Summary(ran).breach_lag = IF breach = None THEN None ELSE breach - swap + 1
        /\ Summary(ran).lag = IF flag = None THEN None ELSE flag - swap + 1
    BY <1>2 DEF Summary, Lag
  <1>8. None \notin Int
    BY DefinitionAssumption
  <1>9. /\ flag = None => \A i \in DOMAIN ran : ran[i].flagged = {}
        /\ flag # None => /\ ran[flag].flagged # {}
                          /\ \A i \in 1..(flag - 1) : ran[i].flagged = {}
    <2> DEFINE marked == {i \in DOMAIN ran : ran[i].flagged # {}}
    <2>1. marked \in SUBSET Nat
      BY <1>1
    <2>2. /\ marked = {} => flag = None
          /\ marked # {} => flag \in marked /\ \A i \in marked : flag <= i
      BY <2>1, FirstIs DEF DetectionIndex
    <2>3. flag = None => marked = {}
      BY <1>1, <1>8, <2>2
    <2>4. flag # None => flag \in marked /\ \A i \in marked : flag <= i
      BY <2>2
    <2>5. ASSUME flag # None, NEW i \in 1..(flag - 1) PROVE ran[i].flagged = {}
      <3>1. flag \in 1..Len(ran)
        BY <1>3, <2>5
      <3>2. i \in DOMAIN ran /\ ~(flag <= i)
        BY <1>1, <2>5, <3>1
      <3>3. QED
        BY <2>4, <2>5, <3>2
    <2>6. QED
      BY <2>3, <2>4, <2>5
  <1>10. says.lag = Summary(ran).lag
    BY DEF Headline
  <1> HIDE DEF swap, flag, late, breach
  \* The flag is where the headline says.
  <1>11. IF says.lag = None
           THEN \A i \in DOMAIN ran : ran[i].flagged = {}
           ELSE /\ ran[Document(says.lag)].flagged # {}
                /\ \A i \in 1..(Document(says.lag) - 1) : ran[i].flagged = {}
    <2>1. CASE flag = None
      BY <1>7, <1>9, <1>10, <2>1
    <2>2. CASE flag # None
      <3>1. flag \in 1..Len(ran) /\ says.lag = flag - swap + 1
        BY <1>3, <1>7, <1>10, <2>2
      <3>2. says.lag # None /\ Document(says.lag) = flag
        BY <1>1, <1>2, <1>8, <3>1
      <3>3. QED
        BY <1>9, <2>2, <3>2
    <2>3. QED
      BY <2>1, <2>2
  <1>12. CASE late = {}
    <2>1. says.breach = None /\ says.verdict = "never_breached"
      BY <1>6, <1>7, <1>12 DEF Headline
    <2>2. ~Fell(ran, swap, Len(ran))
      BY <1>1, <1>4, <1>12
    <2>3. QED
      BY <1>11, <2>1, <2>2 DEF HeadlineIsSo, swap
  <1>13. CASE late # {}
    <2>1. /\ breach \in late /\ breach # None /\ breach \in 1..Len(ran)
          /\ \A n \in late : breach <= n /\ n \in 1..Len(ran)
      BY <1>5, <1>6, <1>13
    <2>2. Summary(ran).breach_lag = breach - swap + 1 /\ Summary(ran).breach_lag # None
      BY <1>1, <1>2, <1>7, <1>8, <2>1
    <2>3. says.breach = breach - swap + 1 /\ says.breach # None
      BY <2>2 DEF Headline
    <2>4. Document(says.breach) = breach
      BY <1>1, <1>2, <2>1, <2>3
    <2>5. Fell(ran, swap, breach)
      BY <1>1, <1>4, <2>1
    <2>6. ~Fell(ran, swap, breach - 1)
      <3>1. breach - 1 \in 0..Len(ran) /\ \A n \in late : ~(n <= breach - 1)
        BY <1>1, <2>1
      <3>2. QED
        BY <1>4, <3>1
    <2>7. ASSUME says.verdict = "preceded"
          PROVE  says.lead > 0 /\ breach = flag + says.lead
      <3>1. /\ Summary(ran).lag # None /\ Summary(ran).lag < Summary(ran).breach_lag
            /\ says.lead = Summary(ran).breach_lag - Summary(ran).lag
        BY <2>2, <2>7 DEF Headline
      <3>2. flag \in 1..Len(ran) /\ Summary(ran).lag = flag - swap + 1
        BY <1>3, <1>7, <3>1
      <3>3. QED
        BY <1>1, <1>2, <2>1, <2>2, <3>1, <3>2
    <2>8. ASSUME says.verdict = "too_late"
          PROVE  flag = None \/ breach <= flag
      <3>1. Summary(ran).lag = None \/ ~(Summary(ran).lag < Summary(ran).breach_lag)
        BY <2>2, <2>8 DEF Headline
      <3>2. SUFFICES ASSUME flag # None PROVE breach <= flag
        OBVIOUS
      <3>3. flag \in 1..Len(ran) /\ Summary(ran).lag = flag - swap + 1
        BY <1>3, <1>7, <3>2
      <3>4. Summary(ran).lag # None
        BY <1>1, <1>2, <1>8, <3>3
      <3>5. QED
        BY <1>1, <1>2, <2>1, <2>2, <3>1, <3>3, <3>4
    <2> HIDE DEF says, Document
    <2>9. /\ says.verdict = "preceded" =>
               says.lead > 0 /\ Document(says.breach) = flag + says.lead
          /\ says.verdict = "too_late" => flag = None \/ Document(says.breach) <= flag
      BY <2>4, <2>7, <2>8
    <2>10. Fell(ran, swap, Document(says.breach)) /\ ~Fell(ran, swap, Document(says.breach) - 1)
      BY <2>4, <2>5, <2>6
    <2>11. QED
      BY <1>11, <2>3, <2>9, <2>10 DEF HeadlineIsSo, says, Document, swap, flag
  <1>14. QED
    BY <1>12, <1>13

\* What an arm is fed has the redesign in it, if the arm has.
LEMMA RedesignIsFed ==
    ASSUME NEW n \in 1..Len(Arms), Arms[n].drifted # << >>, StartArm(n)
    PROVE  HasDrifted(stream')
  <1> DEFINE Fed == [phase : {"stable", "drifted"}, doc : Documents]
             a == Arms[n].stable
             b == Arms[n].drifted
             s == [i \in DOMAIN a |-> [phase |-> "stable", doc |-> a[i]]]
             t == [i \in DOMAIN b |-> [phase |-> "drifted", doc |-> b[i]]]
  <1>1. a \in Seq(Documents) /\ b \in Seq(Documents)
    <2>1. Arms[n] \in [stable : Seq(Documents), drifted : Seq(Documents)]
      BY ExperimentAssumption, ElementOfSeq
    <2> QED BY <2>1
  <1>2. stream' = s \o t
    BY DEF StartArm
  <1>3. s \in Seq(Fed) /\ Len(s) = Len(a)
    BY <1>1, Labelled DEF ArmStream
  <1>4. t \in Seq(Fed) /\ Len(t) = Len(b)
    BY <1>1, Labelled DEF ArmStream
  <1>5. Len(b) \in Nat /\ Len(b) # 0 /\ DOMAIN b = 1..Len(b) /\ Len(a) \in Nat
    BY <1>1, EmptySeq
  <1>6. t[1].phase = "drifted"
    BY <1>5
  <1> HIDE DEF s, t, a, b, Fed
  <1>7. /\ s \o t \in Seq(Fed) /\ Len(s \o t) = Len(s) + Len(t)
        /\ (s \o t)[Len(s) + 1] = t[1]
    BY <1>3, <1>4, <1>5, ConcatProperties
  <1>8. Len(s) + 1 \in DOMAIN (s \o t)
    BY <1>3, <1>4, <1>5, <1>7, LenProperties
  <1> QED BY <1>2, <1>6, <1>7, <1>8 DEF HasDrifted

\* The redesign is in what an arm has had or in what it has left.
PhaseInv == job = "experiment" => HasDrifted(steps) \/ HasDrifted(stream)

LEMMA StepPhase ==
    ASSUME \A n \in DOMAIN Arms : Arms[n].drifted # << >>,
           JobInv, ArmInv, PhaseInv, [ExperimentNext]_allVars
    PROVE  PhaseInv'
  <1> SUFFICES ASSUME job' = "experiment" PROVE HasDrifted(steps') \/ HasDrifted(stream')
    BY DEF PhaseInv
  <1>1. CASE UNCHANGED armVars /\ job' = job
    BY <1>1 DEF PhaseInv, armVars
  <1>2. ASSUME NEW n \in 1..Len(Arms), StartArm(n) PROVE HasDrifted(stream')
    <2>1. DOMAIN Arms = 1..Len(Arms)
      BY ExperimentAssumption
    <2> QED BY <1>2, <2>1, RedesignIsFed
  <1>3. CASE Launch
    <2>1. 1 \in 1..Len(Arms)
      BY ExperimentAssumption, EmptySeq, LenProperties
    <2> QED BY <1>2, <1>3, <2>1 DEF Launch
  <1>4. CASE NextArm
    <2>1. arm + 1 \in 1..Len(Arms)
      <3>1. Len(Arms) \in Nat /\ arm \in 0..Len(Arms) /\ arm < Len(Arms)
        BY <1>4, ExperimentAssumption DEF NextArm, JobInv
      <3> QED BY <3>1
    <2> QED BY <1>2, <1>4, <2>1 DEF NextArm
  <1>5. CASE Watch /\ ~UNCHANGED armVars
    <2> DEFINE seen == Observed(Kept(work), work.doc)
               after == Monitor!Observe(Before, seen, None, 1)
               x == StepOf(Kept(work), work.doc, Head(stream).phase, Before, after)
    <2>1. steps' = Append(steps, x) /\ stream' = Tail(stream)
      BY <1>5, Zenon DEF Watch, Before
    <2>2. job = "experiment" /\ work # Idle
      BY <1>5, IdleStage DEF Watch
    <2>3. stream \in ArmStream /\ stream # << >>
      BY <2>2 DEF JobInv, ArmStream
    <2>4. x.phase = Head(stream).phase
      BY DEF StepOf
    <2>5. PICK S : steps \in Seq(S)
      BY DEF ArmInv
    <2> HIDE DEF x
    <2>6. Longer(steps', steps, x)
      BY <2>1, <2>5, StepAdded
    <2>7. CASE HasDrifted(steps)
      <3>1. HasDrifted(steps')
        BY <2>6, <2>7 DEF HasDrifted, Longer
      <3> QED BY <3>1
    <2>8. CASE HasDrifted(stream)
      <3>1. PICK i \in DOMAIN stream : stream[i].phase = "drifted"
        BY <2>8 DEF HasDrifted
      <3>2. /\ Len(stream) \in Nat /\ DOMAIN stream = 1..Len(stream)
            /\ Head(stream) = stream[1]
            /\ Tail(stream) \in ArmStream /\ Len(Tail(stream)) = Len(stream) - 1
            /\ \A k \in 1..(Len(stream) - 1) : Tail(stream)[k] = stream[k + 1]
        BY <2>3, HeadTailProperties, LenProperties DEF ArmStream
      <3>3. CASE i = 1
        <4>1. steps'[Len(steps) + 1].phase = "drifted" /\ Len(steps) + 1 \in DOMAIN steps'
          BY <2>4, <2>6, <3>1, <3>2, <3>3 DEF Longer
        <4> QED BY <4>1 DEF HasDrifted
      <3>4. CASE i # 1
        <4>1. i \in Nat /\ i - 1 \in 1..(Len(stream) - 1) /\ (i - 1) + 1 = i
          BY <3>1, <3>2, <3>4
        <4>2. Tail(stream)[i - 1].phase = "drifted"
          BY <3>1, <3>2, <4>1
        <4>3. i - 1 \in DOMAIN Tail(stream)
          <5>1. DOMAIN Tail(stream) = 1..Len(Tail(stream))
            BY <3>2, LenProperties DEF ArmStream
          <5> QED BY <3>2, <4>1, <5>1
        <4> QED BY <2>1, <4>2, <4>3 DEF HasDrifted
      <3> QED BY <3>3, <3>4
    <2> QED BY <2>2, <2>7, <2>8 DEF PhaseInv
  <1>6. CASE Next /\ UNCHANGED armVars
    <2>1. job' = job
      BY <1>6 DEF Next, Define, Take, Extract, Store, Pause, Grade, Build, Raise, Reroute, Gate,
                  Fit, Rest, EndJob, vars
    <2> QED BY <1>1, <1>6, <2>1
  <1>7. CASE Feed \/ (Watch /\ UNCHANGED armVars)
    <2>1. UNCHANGED armVars /\ job = "experiment"
      BY <1>7 DEF Feed, Watch
    <2> QED BY <1>1, <2>1
  <1>8. CASE WriteReport
    <2>1. job' \in {"done", "crashed"}
      BY <1>8, Zenon DEF WriteReport, EndJob
    <2> QED BY <2>1
  <1>9. CASE UNCHANGED allVars
    BY <1>1, <1>9 DEF allVars, vars
  <1> QED BY <1>3, <1>4, <1>5, <1>6, <1>7, <1>8, <1>9 DEF ExperimentNext

\* The numbers of the report's headline and the order it names are so, whatever the
\* documents, the answers and the window: the swap has been seen when an arm is over, a
\* trailing window of the series is a stretch of documents with as many approved ones, and
\* a flag is counted from the swap, None if nothing was flagged. That the headline speaks
\* of a detection then, and of one after the swap where a stable document was flagged, is
\* no part of it. That an arm has documents of the redesign (--drifted) is what there is
\* to time.
THEOREM TheTimingIsSo ==
    (\A n \in DOMAIN Arms : Arms[n].drifted # << >>) => (ExperimentSpec => []TimingClaimHolds)
  <1> SUFFICES ASSUME \A n \in DOMAIN Arms : Arms[n].drifted # << >>
               PROVE  ExperimentSpec => []TimingClaimHolds
    OBVIOUS
  <1>1. ExperimentInit => PhaseInv
    BY DEF ExperimentInit, Init, PhaseInv
  <1>2. JobInv /\ ArmInv /\ PhaseInv /\ [ExperimentNext]_allVars => PhaseInv'
    BY StepPhase
  <1>3. ArmInv /\ PhaseInv => TimingClaimHolds
    <2> SUFFICES ASSUME ArmInv, PhaseInv, ArmDone PROVE HeadlineIsSo(steps)
      BY DEF TimingClaimHolds
    <2>1. HasDrifted(steps)
      BY DEF PhaseInv, ArmDone, HasDrifted
    <2>2. PICK S : steps \in Seq(S)
      BY DEF ArmInv
    <2> QED BY <2>1, <2>2, ClaimsHold
  <1> QED BY <1>1, <1>2, <1>3, JobHolds, ArmHolds, PTL DEF ExperimentSpec, allVars

--------------------------------------------------------------------------
(* The gate.                                                               *)

Passes == {"frontier", "routed"}
GoldenDocs == ToSet(EvalGolden)

\* What may be said of one document: a scanned one needs reading, any other has its fields.
Fair(doc, result) ==
    IF doc \in Scanned THEN result.needs_ocr = TRUE
    ELSE result.needs_ocr = FALSE /\ DOMAIN result.fields = ScoredFields(definition)

Graded(pass) == \A d \in DOMAIN pass : Fair(d, pass[d])

InHand == IF work = Idle THEN {} ELSE {work.doc}

\* The documents a pass has graded, has in hand and has left are the golden ones.
Covers(pass) == (DOMAIN pass \cup ToSet(todo)) \cup InHand = GoldenDocs

Needed == {"frontier"} \cup (IF Escalates THEN {"routed"} ELSE {})

GateInv ==
    /\ DOMAIN results = Passes
    /\ \A mode \in Passes : Graded(results[mode])
    /\ job = "define" => results = NoResults
    /\ job = "frontier" => Covers(results["frontier"]) /\ results["routed"] = << >>
    /\ job = "routed" => DOMAIN results["frontier"] = GoldenDocs /\ Covers(results["routed"])
    /\ job \in Passes /\ work # Idle => work.doc \notin Scanned
    /\ job = "done" /\ verdict.status = "passed" =>
         CheckType /\ \A mode \in Needed : DOMAIN results[mode] = GoldenDocs

\* The first of a pass's documents, and the rest.
LEMMA FirstAndRest ==
    ASSUME NEW t \in Seq(Documents), t # << >>
    PROVE  ToSet(t) = {Head(t)} \cup ToSet(Tail(t))
  <1>1. /\ DOMAIN t = 1..Len(t) /\ Len(t) \in Nat \ {0} /\ Head(t) = t[1]
        /\ Tail(t) \in Seq(Documents) /\ Len(Tail(t)) = Len(t) - 1
        /\ DOMAIN Tail(t) = 1..(Len(t) - 1)
        /\ \A i \in 1..(Len(t) - 1) : Tail(t)[i] = t[i + 1]
    BY EmptySeq, LenProperties, HeadTailProperties
  <1>2. ASSUME NEW x \in ToSet(t) PROVE x \in {Head(t)} \cup ToSet(Tail(t))
    <2>1. PICK i \in 1..Len(t) : x = t[i]
      BY <1>1 DEF ToSet
    <2>2. CASE i = 1
      BY <1>1, <2>1, <2>2
    <2>3. CASE i # 1
      <3>1. i - 1 \in 1..(Len(t) - 1) /\ (i - 1) + 1 = i
        BY <1>1, <2>1, <2>3
      <3>2. x = Tail(t)[i - 1]
        BY <1>1, <2>1, <3>1
      <3> QED BY <1>1, <3>1, <3>2 DEF ToSet
    <2> QED BY <2>2, <2>3
  <1>3. ASSUME NEW x \in ToSet(Tail(t)) PROVE x \in ToSet(t)
    <2>1. PICK i \in 1..(Len(t) - 1) : x = Tail(t)[i]
      BY <1>1 DEF ToSet
    <2>2. x = t[i + 1] /\ i + 1 \in 1..Len(t)
      BY <1>1, <2>1
    <2> QED BY <1>1, <2>2 DEF ToSet
  <1>4. Head(t) \in ToSet(t)
    BY <1>1 DEF ToSet
  <1> QED BY <1>2, <1>3, <1>4

\* A result that is added to a pass.
LEMMA ResultAdded ==
    ASSUME NEW pass, Graded(pass), NEW d, NEW r, Fair(d, r)
    PROVE  LET more == Recorded(pass, d, r)
           IN  Graded(more) /\ DOMAIN more = DOMAIN pass \cup {d}
  <1> DEFINE more == Recorded(pass, d, r)
  <1>1. DOMAIN more = DOMAIN pass \cup {d}
    BY DEF Recorded
  <1>2. \A x \in DOMAIN more : more[x] = IF x = d THEN r ELSE pass[x]
    BY DEF Recorded
  <1> HIDE DEF more
  <1>3. Graded(more)
    BY <1>1, <1>2 DEF Graded
  <1> QED BY <1>1, <1>3 DEF more

\* What a document in hand came to.
LEMMA DocResultFair ==
    ASSUME NEW w, w.doc \notin Scanned PROVE Fair(w.doc, DocResult(w))
  BY DEF Fair, DocResult, Compare

\* One pass's documents are graded, and the other pass is as it was.
LEMMA PassGraded ==
    ASSUME DOMAIN results = Passes, \A mode \in Passes : Graded(results[mode]),
           NEW mode \in Passes, NEW d, NEW r, Fair(d, r), UNCHANGED definition,
           results' = [results EXCEPT ![mode] = Recorded(@, d, r)]
    PROVE  /\ DOMAIN results' = Passes /\ \A m \in Passes : Graded(results[m])'
           /\ DOMAIN results'[mode] = DOMAIN results[mode] \cup {d}
           /\ \A m \in Passes : m # mode => results'[m] = results[m]
  <1> DEFINE more == Recorded(results[mode], d, r)
  <1>1. Graded(more) /\ DOMAIN more = DOMAIN results[mode] \cup {d}
    BY ResultAdded
  <1>2. results' = [results EXCEPT ![mode] = more]
    OBVIOUS
  <1> HIDE DEF more
  <1>3. DOMAIN results' = Passes /\ results'[mode] = more
    BY <1>2
  <1>4. \A m \in Passes : m # mode => results'[m] = results[m]
    BY <1>2
  <1>5. ASSUME NEW m \in Passes PROVE Graded(results[m])'
    <2>1. Graded(results'[m])
      BY <1>1, <1>3, <1>4
    <2> QED BY <2>1 DEF Graded, Fair, ScoredFields
  <1> QED BY <1>1, <1>3, <1>4, <1>5

\* Nothing that is said of the passes is of anything but the results and the definition.
LEMMA SameGate ==
    ASSUME UNCHANGED <<results, definition>>
    PROVE  /\ \A mode \in Passes : Graded(results[mode]) => Graded(results[mode])'
           /\ CheckType => CheckType'
           /\ Needed' = Needed /\ Needed \subseteq Passes
  <1>1. CheckType => CheckType'
    BY DEF CheckType, Escalates, Policy
  <1>2. Needed' = Needed /\ Needed \subseteq Passes
    BY DEF Needed, Escalates, Policy, Passes
  <1>3. \A mode \in Passes : Graded(results[mode]) => Graded(results[mode])'
    BY DEF Graded, Fair, ScoredFields
  <1> QED BY <1>1, <1>2, <1>3

\* A job that goes on without a result.
LEMMA GateKept ==
    ASSUME GateInv, UNCHANGED <<results, definition>>, job' # "define",
           job' \in Passes => /\ job' = job
                              /\ (ToSet(todo) \cup InHand)' = ToSet(todo) \cup InHand
                              /\ work' # Idle => work'.doc \notin Scanned,
           job' = "done" => verdict'.status # "passed" \/ (job = "done" /\ verdict' = verdict)
    PROVE  GateInv'
  <1>1. ASSUME NEW mode \in Passes, Covers(results[mode]), job' \in Passes
        PROVE  Covers(results[mode])'
    <2>1. ((DOMAIN results[mode])' \cup ToSet(todo)') \cup InHand' = GoldenDocs
      BY <1>1 DEF Covers
    <2> QED BY <2>1 DEF Covers, GoldenDocs, EvalGolden
  <1>2. "frontier" \in Passes /\ "routed" \in Passes
    BY DEF Passes
  <1>3. GoldenDocs' = GoldenDocs
    BY DEF GoldenDocs
  <1>4. /\ DOMAIN results' = Passes
        /\ \A mode \in Passes : Graded(results[mode])'
    BY SameGate DEF GateInv
  <1>5. job' = "frontier" => Covers(results["frontier"])' /\ results'["routed"] = << >>
    BY <1>1, <1>2 DEF GateInv
  <1>6. job' = "routed" => DOMAIN results'["frontier"] = GoldenDocs' /\ Covers(results["routed"])'
    BY <1>1, <1>2, <1>3 DEF GateInv
  <1>7. job' \in Passes /\ work' # Idle => work'.doc \notin Scanned
    OBVIOUS
  <1>8. job' = "done" /\ verdict'.status = "passed" =>
          CheckType' /\ \A mode \in Needed' : DOMAIN results'[mode] = GoldenDocs'
    BY <1>3, SameGate DEF GateInv
  <1> QED BY <1>4, <1>5, <1>6, <1>7, <1>8 DEF GateInv

\* The status a document's row is stored with is none of the gate's or the study's.
LEMMA StoredStatus ==
    ASSUME NEW w PROVE StoredRow(w).status \in {"failed", "approved", "needs_review"}
  <1>1. CASE Kept(w).record = None
    BY <1>1 DEF StoredRow
  <1>2. CASE Kept(w).record # None
    <2>1. StoredRow(w).status = Routing(Kept(w), w.doc).decision
      BY <1>2 DEF StoredRow
    <2>2. Routing(Kept(w), w.doc).decision \in {"approved", "needs_review"}
      BY DEF Routing, RouteExtraction
    <2> QED BY <2>1, <2>2
  <1> QED BY <1>1, <1>2

\* What ends a job with something other than the gate's verdict.
LEMMA EndedElsewhere ==
    ASSUME GateInv, UNCHANGED <<results, definition>>, NEW how \in Ended, NEW what,
           EndJob(how, what), how = "done" => what.status # "passed"
    PROVE  GateInv'
  <1>1. job' = how /\ verdict' = what /\ job' # "define" /\ job' \notin Passes
    BY DEF EndJob, Ended, Passes
  <1> QED BY <1>1, GateKept

LEMMA StepGate == JobInv /\ GateInv /\ [ExperimentNext]_allVars => GateInv'
  <1> SUFFICES ASSUME JobInv, GateInv, [ExperimentNext]_allVars PROVE GateInv'
    OBVIOUS
  <1> USE DEF Passes
  <1>1. CASE UNCHANGED allVars
    <2>1. /\ UNCHANGED <<results, definition, job, verdict, work, todo>>
          /\ GoldenDocs' = GoldenDocs
      BY <1>1 DEF allVars, vars, GoldenDocs
    <2>2. CASE job # "define"
      <3>1. (ToSet(todo) \cup InHand)' = ToSet(todo) \cup InHand
        BY <2>1 DEF InHand
      <3>2. job' \in Passes /\ work' # Idle => work'.doc \notin Scanned
        BY <2>1 DEF GateInv
      <3> QED BY <2>1, <2>2, <3>1, <3>2, GateKept
    <2>3. CASE job = "define"
      <3>1. \A mode \in Passes : Graded(results[mode])'
        BY <2>1, SameGate DEF GateInv
      <3> QED BY <2>1, <2>3, <3>1 DEF GateInv
    <2> QED BY <2>2, <2>3
  <1>2. SUFFICES ASSUME job \notin Ended, ExperimentNext PROVE GateInv'
    BY <1>1, EndedRests
  <1>3. \/ work = Idle /\ work.stage = "idle"
        \/ Busy(work) /\ work.stage \in {"calling", "assessing", "decided", "paused", "raised"}
    BY IdleStage DEF JobInv, Busy, Staged
  <1>4. CASE Define /\ UNCHANGED armVars
    <2>1. /\ job = "define" /\ work = Idle /\ results = NoResults
          /\ UNCHANGED <<definition, work, results>>
      BY <1>4 DEF Define, JobInv, GateInv
    <2>2. CASE EndJob("rejected", None)
      BY <2>1, <2>2, EndedElsewhere DEF Ended
    <2>3. CASE job' \in {"serve", "build"}
      BY <2>1, <2>3, GateKept
    <2>4. CASE job' = "frontier" /\ todo' = EvalGolden
      <3>1. results'["frontier"] = << >> /\ results'["routed"] = << >> /\ DOMAIN << >> = {}
        BY <2>1, EmptySeq DEF NoResults
      <3>2. Covers(results["frontier"])'
        <4>1. InHand' = {} /\ GoldenDocs' = GoldenDocs
          BY <2>1 DEF InHand, GoldenDocs
        <4> QED BY <2>4, <3>1, <4>1 DEF Covers, GoldenDocs
      <3>3. \A mode \in Passes : Graded(results[mode])'
        BY <2>1, SameGate DEF GateInv
      <3> QED BY <2>1, <2>4, <3>1, <3>2, <3>3 DEF GateInv
    <2> QED BY <1>4, <2>2, <2>3, <2>4 DEF Define
  <1>5. CASE Take /\ UNCHANGED armVars
    <2>1. /\ work = Idle /\ todo # << >> /\ todo' = Tail(todo)
          /\ UNCHANGED <<definition, job, verdict>> /\ job # "define"
      BY <1>5 DEF Take, JobInv
    <2>2. Head(todo) \in Documents /\ ToSet(todo) = {Head(todo)} \cup ToSet(Tail(todo))
      BY <2>1, HeadTailProperties, FirstAndRest DEF JobInv
    <2>3. CASE Head(todo) \notin Scanned
      <3>1. Begin(Head(todo), job) /\ UNCHANGED results
        BY <1>5, <2>3 DEF Take
      <3>2. work' # Idle /\ work'.doc = Head(todo)
        BY <2>2, <3>1, Begun DEF Busy
      <3>3. (ToSet(todo) \cup InHand)' = ToSet(todo) \cup InHand
        BY <2>1, <2>2, <3>2 DEF InHand
      <3> QED BY <2>1, <2>3, <3>1, <3>2, <3>3, GateKept, <1>2 DEF Ended
    <2>4. CASE Head(todo) \in Scanned /\ job \notin Passes
      <3>1. UNCHANGED work
        BY <1>5, <2>4 DEF Take
      <3>2. UNCHANGED results
        BY <1>5, <2>4 DEF Take
      <3> QED BY <2>1, <2>4, <3>1, <3>2, GateKept, <1>2 DEF Ended
    <2>5. CASE Head(todo) \in Scanned /\ job \in Passes
      <3> DEFINE d == Head(todo)
      <3>1. UNCHANGED work /\ results' = [results EXCEPT ![job] = Recorded(@, d, NeedsOcr)]
        BY <1>5, <2>5 DEF Take
      <3>2. Fair(d, NeedsOcr)
        BY <2>5 DEF Fair, NeedsOcr
      <3> HIDE DEF d
      <3>3. /\ DOMAIN results' = Passes /\ \A m \in Passes : Graded(results[m])'
            /\ DOMAIN results'[job] = DOMAIN results[job] \cup {d}
            /\ \A m \in Passes : m # job => results'[m] = results[m]
        BY <2>1, <2>5, <3>1, <3>2, PassGraded DEF GateInv
      <3>4. InHand' = {} /\ InHand = {} /\ GoldenDocs' = GoldenDocs
        BY <2>1, <3>1 DEF InHand, GoldenDocs
      <3>5. ToSet(todo) = {d} \cup ToSet(todo)'
        BY <2>1, <2>2 DEF d
      <3>6. Covers(results[job]) => Covers(results[job])'
        BY <2>1, <3>3, <3>4, <3>5 DEF Covers
      <3> QED BY <2>1, <2>5, <3>1, <3>3, <3>4, <3>6 DEF GateInv
    <2> QED BY <2>3, <2>4, <2>5
  <1>6. CASE Extract /\ UNCHANGED armVars
    <2>1. Step /\ UNCHANGED <<definition, job, todo, verdict, results>>
      BY <1>6 DEF Extract
    <2>2. Busy(work)
      BY <1>3, <2>1 DEF Step, Answer, Invalid, Refused, CallFails, OverBudget, Assess
    <2>3. work # Idle /\ work' # Idle /\ work'.doc = work.doc
      BY <2>1, <2>2, Stepped DEF Busy
    <2>4. (ToSet(todo) \cup InHand)' = ToSet(todo) \cup InHand
      BY <2>1, <2>3 DEF InHand
    <2>5. job # "define"
      BY <2>3 DEF JobInv
    <2> QED BY <1>2, <2>1, <2>3, <2>4, <2>5, GateKept DEF Ended, GateInv
  <1>7. CASE (Store \/ Pause \/ Raise) /\ UNCHANGED armVars
    <2>1. /\ \/ EndJob("done", StoredRow(work)) \/ EndJob("done", Postponed)
             \/ EndJob("crashed", None)
          /\ UNCHANGED <<definition, results>>
      BY <1>7 DEF Store, Pause, Raise, Postponed
    <2>2. Postponed.status # "passed"
      BY DEF Postponed
    <2> QED BY <2>1, <2>2, StoredStatus, EndedElsewhere DEF Ended
  <1>8. CASE Grade /\ UNCHANGED armVars
    <2>1. /\ job \in Passes /\ work # Idle /\ work' = Idle
          /\ results' = [results EXCEPT ![job] = Recorded(@, work.doc, DocResult(work))]
          /\ UNCHANGED <<definition, job, todo, verdict>>
      BY <1>8, IdleStage DEF Grade
    <2>2. Fair(work.doc, DocResult(work))
      BY <2>1, DocResultFair DEF GateInv
    <2>3. /\ DOMAIN results' = Passes /\ \A m \in Passes : Graded(results[m])'
          /\ DOMAIN results'[job] = DOMAIN results[job] \cup {work.doc}
          /\ \A m \in Passes : m # job => results'[m] = results[m]
      BY <2>1, <2>2, PassGraded DEF GateInv
    <2>4. InHand' = {} /\ InHand = {work.doc} /\ GoldenDocs' = GoldenDocs
      BY <2>1 DEF InHand, GoldenDocs
    <2>5. Covers(results[job]) => Covers(results[job])'
      BY <2>1, <2>3, <2>4 DEF Covers
    <2> QED BY <2>1, <2>3, <2>4, <2>5 DEF GateInv
  <1>9. CASE Build /\ UNCHANGED armVars
    BY <1>9, GateKept DEF Build
  <1>10. CASE Reroute /\ UNCHANGED armVars
    <2>1. /\ job = "frontier" /\ work = Idle /\ todo = << >> /\ job' = "routed"
          /\ todo' = EvalGolden /\ UNCHANGED <<definition, work, results>>
      BY <1>10 DEF Reroute, PassDone
    <2>2. InHand = {} /\ InHand' = {} /\ GoldenDocs' = GoldenDocs
      BY <2>1 DEF InHand, GoldenDocs
    <2>3. ToSet(todo) = {} /\ DOMAIN << >> = {}
      BY <2>1, EmptySeq DEF ToSet
    <2>4. DOMAIN results["frontier"] = GoldenDocs /\ results["routed"] = << >>
      BY <2>1, <2>2, <2>3 DEF GateInv, Covers
    <2>5. ToSet(todo)' = GoldenDocs
      BY <2>1 DEF GoldenDocs
    <2>6. Covers(results["routed"])'
      BY <2>1, <2>2, <2>3, <2>4, <2>5 DEF Covers
    <2>7. \A mode \in Passes : Graded(results[mode])'
      BY <2>1, SameGate DEF GateInv
    <2> QED BY <2>1, <2>2, <2>4, <2>6, <2>7 DEF GateInv
  <1>11. CASE Gate /\ UNCHANGED armVars
    <2>1. /\ job = (IF Escalates THEN "routed" ELSE "frontier") /\ work = Idle /\ todo = << >>
          /\ EndJob("done", [status |-> IF CheckType THEN "passed" ELSE "below_floor"])
          /\ UNCHANGED <<definition, results>>
      BY <1>11 DEF Gate, PassDone
    <2>2. job' = "done" /\ (verdict'.status = "passed" => CheckType)
      BY <2>1 DEF EndJob
    <2>3. InHand = {} /\ ToSet(todo) = {} /\ GoldenDocs' = GoldenDocs
      BY <2>1, EmptySeq DEF InHand, ToSet, GoldenDocs
    <2>4. \A mode \in Needed : DOMAIN results[mode] = GoldenDocs
      BY <2>1, <2>3 DEF Needed, GateInv, Covers
    <2>5. \A mode \in Needed' : DOMAIN results'[mode] = GoldenDocs'
      BY <2>1, <2>3, <2>4, SameGate
    <2>6. /\ \A mode \in Passes : Graded(results[mode])' /\ (CheckType => CheckType')
          /\ DOMAIN results' = Passes
      BY <2>1, SameGate DEF GateInv
    <2> QED BY <2>2, <2>5, <2>6 DEF GateInv
  <1>12. CASE Fit /\ UNCHANGED armVars
    <2>1. UNCHANGED <<definition, results>>
      BY <1>12 DEF Fit
    <2>2. CASE EndJob("exited", None)
      BY <2>1, <2>2, EndedElsewhere DEF Ended
    <2>3. CASE \E met : EndJob("done", [status |-> "fitted", met |-> met])
      <3>1. PICK what : EndJob("done", what) /\ what.status = "fitted"
        BY <2>3
      <3> QED BY <2>1, <3>1, EndedElsewhere DEF Ended
    <2> QED BY <1>12, <2>2, <2>3, Zenon DEF Fit
  <1>13. CASE Rest
    BY <1>2, <1>13 DEF Rest
  <1>14. CASE Launch
    <2>1. job' = "experiment" /\ UNCHANGED <<definition, results>>
      BY <1>14 DEF Launch
    <2> QED BY <2>1, GateKept
  <1>15. CASE Feed \/ NextArm
    <2>1. job' = "experiment" /\ UNCHANGED <<definition, results>>
      BY <1>15 DEF Feed, NextArm, ArmDone, vars
    <2> QED BY <2>1, GateKept
  <1>16. CASE Watch
    <2>1. job = "experiment" /\ UNCHANGED <<definition, results>>
      BY <1>16 DEF Watch
    <2>2. CASE EndJob("crashed", None)
      BY <2>1, <2>2, EndedElsewhere DEF Ended
    <2>3. CASE job' = job
      BY <2>1, <2>3, GateKept
    <2> QED BY <1>16, <2>2, <2>3, Zenon DEF Watch
  <1>17. CASE WriteReport
    <2>1. UNCHANGED <<definition, results>>
      BY <1>17 DEF WriteReport
    <2>2. CASE EndJob("crashed", None)
      BY <2>1, <2>2, EndedElsewhere DEF Ended
    <2>3. CASE \E words, fp : EndJob("done", [status |-> "reported", headline |-> words,
                                               false_positive |-> fp])
      <3>1. PICK what : EndJob("done", what) /\ what.status = "reported"
        BY <2>3
      <3> QED BY <2>1, <3>1, EndedElsewhere DEF Ended
    <2> QED BY <1>17, <2>2, <2>3, Zenon DEF WriteReport
  <1> QED BY <1>2, <1>4, <1>5, <1>6, <1>7, <1>8, <1>9, <1>10, <1>11, <1>12, <1>13, <1>14, <1>15,
             <1>16, <1>17 DEF ExperimentNext, Next

\* A whole pass that clears its floor: a cell for every field of every readable document.
LEMMA WholePassClears ==
    ASSUME JobInv, NEW pass, Graded(pass), DOMAIN pass = GoldenDocs, NEW floor \in Int,
           Clears(pass, ScoredFields(definition), floor)
    PROVE  LET right == {c \in Cells(pass, ScoredFields(definition)) : pass[c[1]].fields[c[2]]}
           IN  100 * Cardinality(right)
                 >= floor * Cardinality(ScoredFields(definition)) * Cardinality(GoldenDocs \ Scanned)
  <1> DEFINE fields == ScoredFields(definition)
             readable == GoldenDocs \ Scanned
             cells == Cells(pass, fields)
             right == {c \in cells : pass[c[1]].fields[c[2]]}
  <1>1. IsFiniteSet(fields) /\ IsFiniteSet(readable)
    <2>1. IsFiniteSet(fields)
      BY StudyAssumption DEF JobInv
    <2>2. IsFiniteSet(GoldenDocs)
      BY GoldenDocuments DEF GoldenDocs
    <2> QED BY <2>1, <2>2, FS_Subset
  <1>2. cells = readable \X fields
    <2>1. \A d \in GoldenDocs : ~pass[d].needs_ocr <=> d \notin Scanned
      BY DEF Graded, Fair
    <2>2. \A d \in readable : DOMAIN pass[d].fields = fields
      BY DEF Graded, Fair
    <2> HIDE DEF fields
    <2> QED BY <2>1, <2>2 DEF Cells
  <1>3. /\ IsFiniteSet(cells) /\ Cardinality(cells) = Cardinality(readable) * Cardinality(fields)
        /\ Cardinality(readable) \in Nat /\ Cardinality(fields) \in Nat
    <2> HIDE DEF fields, readable, cells
    <2> QED BY <1>1, <1>2, FS_Product, FS_CardinalityType
  <1>4. IsFiniteSet(right) /\ Cardinality(right) \in Nat
    <2>1. right \subseteq cells
      OBVIOUS
    <2> HIDE DEF right, cells
    <2> QED BY <1>3, <2>1, FS_Subset, FS_CardinalityType
  <1>5. IF cells = {} THEN floor <= 0 ELSE 100 * Cardinality(right) >= floor * Cardinality(cells)
    BY DEF Clears
  <1>6. PICK r \in Nat, f \in Nat, k \in Nat :
          r = Cardinality(readable) /\ f = Cardinality(fields) /\ k = Cardinality(right)
    BY <1>3, <1>4
  <1>7. floor * f * r = floor * (r * f)
    BY SMTT(30)
  <1>8. cells = {} => r * f = 0
    <2> HIDE DEF cells
    <2> QED BY <1>3, <1>6, FS_EmptySet
  <1>9. cells # {} => 100 * k >= floor * (r * f)
    <2> HIDE DEF cells, right
    <2> QED BY <1>3, <1>5, <1>6
  <1>10. 100 * k >= floor * f * r
    <2> HIDE DEF cells
    <2>1. CASE cells = {}
      <3>1. floor * f * r = 0
        BY <1>7, <1>8, <2>1
      <3> QED BY <3>1
    <2>2. CASE cells # {}
      BY <1>7, <1>9, <2>2
    <2> QED BY <2>1, <2>2
  <1> QED BY <1>6, <1>10, Zenon

\* A pass of the gate is over the whole golden set: whatever failed to be extracted has
\* every field of its document counted wrong, and only a document without a text layer is
\* left out. With its floors met the gate exits zero; evaluate_type loses no document.
THEOREM TheGateCountsFailures == ExperimentSpec => []GateCountsFailures
  <1>1. ExperimentInit => GateInv
    <2> SUFFICES ASSUME ExperimentInit PROVE GateInv
      OBVIOUS
    <2>1. results = NoResults /\ job = "define" /\ work = Idle
      BY DEF ExperimentInit, Init
    <2>2. /\ DOMAIN results = Passes /\ results["frontier"] = << >> /\ results["routed"] = << >>
          /\ DOMAIN << >> = {}
      BY <2>1, EmptySeq DEF NoResults, Passes
    <2>3. \A mode \in Passes : Graded(results[mode])
      BY <2>2 DEF Graded, Passes
    <2> QED BY <2>1, <2>2, <2>3 DEF GateInv, Passes
  <1>2. JobInv /\ GateInv => GateCountsFailures
    <2> SUFFICES ASSUME JobInv, GateInv, job = "done", verdict.status = "passed",
                        NEW mode \in Needed
                 PROVE  LET readable == ToSet(EvalGolden) \ Scanned
                            right == {c \in Cells(results[mode], ScoredFields(definition)) :
                                        results[mode][c[1]].fields[c[2]]}
                            floor == IF mode = "routed" THEN Floors[definition.slug].routed
                                     ELSE Floors[definition.slug].overall
                        IN  100 * Cardinality(right)
                              >= floor * Cardinality(ScoredFields(definition))
                                       * Cardinality(readable)
      BY DEF GateCountsFailures, Needed
    <2> DEFINE floor == IF mode = "routed" THEN Floors[definition.slug].routed
                        ELSE Floors[definition.slug].overall
               pass == results[mode]
    <2>1. CheckType /\ DOMAIN pass = GoldenDocs
      BY DEF GateInv
    <2>2. mode \in Passes /\ Graded(pass) /\ (mode = "routed" => Escalates)
      BY DEF GateInv, Needed, Passes
    <2>3. floor \in Int
      BY StudyAssumption DEF JobInv
    <2>4. Clears(pass, ScoredFields(definition), floor)
      BY <2>1, <2>2 DEF CheckType, Passes
    <2> HIDE DEF floor, pass
    <2>5. LET right == {c \in Cells(pass, ScoredFields(definition)) : pass[c[1]].fields[c[2]]}
          IN  100 * Cardinality(right)
                >= floor * Cardinality(ScoredFields(definition)) * Cardinality(GoldenDocs \ Scanned)
      BY <2>1, <2>2, <2>3, <2>4, WholePassClears
    <2> QED BY <2>5 DEF floor, pass, GoldenDocs
  <1> QED BY <1>1, <1>2, StepGate, JobHolds, PTL DEF ExperimentSpec, allVars

--------------------------------------------------------------------------
(* The study's threshold.                                                  *)

\* A finite set has a best member, by any order that compares every two of them.
LEMMA FiniteBest ==
    ASSUME NEW P, IsFiniteSet(P), P # {}, NEW R,
           \A p, q \in P : <<p, q>> \in R \/ <<q, p>> \in R,
           \A p, q, r \in P : <<p, q>> \in R /\ <<q, r>> \in R => <<p, r>> \in R
    PROVE  \E p \in P : \A q \in P : <<p, q>> \in R
  <1> DEFINE HasBest(s) == \E p \in s : \A q \in s : <<p, q>> \in R
             Bad == {n \in Nat : \E s \in SUBSET P : s # {} /\ Cardinality(s) = n /\ ~HasBest(s)}
  <1>1. \A s \in SUBSET P : IsFiniteSet(s) /\ Cardinality(s) \in Nat
    BY FS_Subset, FS_CardinalityType
  <1>2. Bad = {}
    <2> SUFFICES ASSUME Bad # {} PROVE FALSE
      OBVIOUS
    <2>1. PICK n \in Bad : \A m \in Bad : n <= m
      BY LeastNumber
    <2>2. PICK s \in SUBSET P : s # {} /\ Cardinality(s) = n /\ ~HasBest(s)
      BY <2>1
    <2>3. PICK x : x \in s
      BY <2>2
    <2> DEFINE t == s \ {x}
    <2>4. t \in SUBSET P /\ Cardinality(t) = n - 1 /\ n - 1 \in Nat
      <3>1. IsFiniteSet(s) /\ x \in s
        BY <1>1, <2>3
      <3>2. Cardinality(t) = Cardinality(s) - 1 /\ Cardinality(s) \in Nat \ {0}
        BY <3>1, Smaller
      <3>3. t \in SUBSET P
        OBVIOUS
      <3> HIDE DEF t, Bad, HasBest
      <3> QED BY <2>2, <3>2, <3>3
    <2>5. CASE t = {}
      <3>1. \A q \in s : q = x
        BY <2>5
      <3> QED BY <2>2, <3>1
    <2>6. CASE t # {}
      <3>1. n \in Int /\ ~(n <= n - 1)
        BY <2>1
      <3>2. n - 1 \notin Bad
        <4> HIDE DEF Bad
        <4> QED BY <2>1, <3>1
      <3>3. HasBest(t)
        <4> HIDE DEF HasBest, t
        <4> QED BY <2>4, <2>6, <3>2
      <3>4. PICK y \in t : \A q \in t : <<y, q>> \in R
        BY <3>3
      <3>5. x \in P /\ y \in P /\ <<x, x>> \in R
        BY <2>2, <2>3
      <3>6. CASE <<x, y>> \in R
        <4>1. \A q \in s : <<x, q>> \in R
          BY <2>2, <3>4, <3>5, <3>6
        <4> QED BY <2>2, <2>3, <4>1
      <3>7. CASE <<y, x>> \in R
        <4>1. \A q \in s : <<y, q>> \in R
          BY <3>4, <3>7
        <4> QED BY <2>2, <4>1
      <3> QED BY <3>5, <3>6, <3>7
    <2> QED BY <2>5, <2>6
  <1>3. Cardinality(P) \in Nat /\ P \in SUBSET P
    BY <1>1
  <1> QED BY <1>2, <1>3

IsPoint(p) == p.threshold \in Int /\ p.approved \in Nat /\ p.right \in Nat

\* No less precise than: fractions compared by their cross products.
LEMMA Fractions ==
    ASSUME NEW a \in Nat, NEW b \in Nat, NEW c \in Nat,
           NEW d \in Nat, NEW e \in Nat, NEW f \in Nat, d > 0, e > 0, f > 0,
           b * d <= a * e, c * e <= b * f
    PROVE  c * d <= a * f
  <1>1. (b * d) * f <= (a * e) * f
    <2>1. \A x, y, z \in Nat : x <= y => x * z <= y * z
      BY SMTT(30)
    <2>2. b * d \in Nat /\ a * e \in Nat
      BY SMTT(30)
    <2> QED BY <2>1, <2>2
  <1>2. (c * e) * d <= (b * f) * d
    <2>1. \A x, y, z \in Nat : x <= y => x * z <= y * z
      BY SMTT(30)
    <2>2. c * e \in Nat /\ b * f \in Nat
      BY SMTT(30)
    <2> QED BY <2>1, <2>2
  <1>3. /\ (b * d) * f = (b * f) * d
        /\ (c * e) * d = (c * d) * e /\ (a * e) * f = (a * f) * e
    BY SMTT(30)
  <1>4. /\ (b * d) * f \in Nat /\ (c * e) * d \in Nat /\ (a * e) * f \in Nat
        /\ c * d \in Nat /\ a * f \in Nat
    BY SMTT(30)
  <1>5. (c * d) * e <= (a * f) * e
    BY <1>1, <1>2, <1>3, <1>4
  <1>6. \A x, y \in Nat : x * e <= y * e => x <= y
    BY SMTT(30)
  <1> QED BY <1>4, <1>5, <1>6

LEMMA Precisions ==
    ASSUME NEW p, IsPoint(p), NEW q, IsPoint(q), NEW r, IsPoint(r)
    PROVE  /\ ~(MorePrecise(p, q) /\ MorePrecise(q, p))
           /\ ~MorePrecise(q, p) /\ ~MorePrecise(r, q) => ~MorePrecise(r, p)
  <1> DEFINE Right(x) == IF x.approved = 0 THEN 1 ELSE x.right
             Of(x) == IF x.approved = 0 THEN 1 ELSE x.approved
  <1>1. PICK a \in Nat, b \in Nat, c \in Nat, d \in Nat, e \in Nat, f \in Nat :
          /\ a = Right(p) /\ b = Right(q) /\ c = Right(r)
          /\ d = Of(p) /\ e = Of(q) /\ f = Of(r)
    <2>1. /\ Right(p) \in Nat /\ Right(q) \in Nat /\ Right(r) \in Nat
          /\ Of(p) \in Nat /\ Of(q) \in Nat /\ Of(r) \in Nat
      BY DEF IsPoint
    <2> HIDE DEF Right, Of
    <2> QED BY <2>1, Zenon
  <1>2. d > 0 /\ e > 0 /\ f > 0
    BY <1>1 DEF IsPoint
  <1>3. /\ MorePrecise(p, q) <=> a * e > b * d
        /\ MorePrecise(q, p) <=> b * d > a * e
        /\ MorePrecise(r, q) <=> c * e > b * f
        /\ MorePrecise(r, p) <=> c * d > a * f
    BY <1>1 DEF MorePrecise
  <1>4. /\ a * e \in Nat /\ b * d \in Nat /\ c * e \in Nat /\ b * f \in Nat
        /\ c * d \in Nat /\ a * f \in Nat
    BY SMTT(30)
  <1>5. b * d <= a * e /\ c * e <= b * f => c * d <= a * f
    BY <1>2, Fractions
  <1> QED BY <1>3, <1>4, <1>5

\* Nothing comes before the first of the best.
Beats(p, q) == ~Better(q, p) /\ (Better(p, q) \/ p.threshold <= q.threshold)

LEMMA BeatsOrders ==
    ASSUME NEW p, IsPoint(p), NEW q, IsPoint(q), NEW r, IsPoint(r)
    PROVE  /\ Beats(p, q) \/ Beats(q, p)
           /\ Beats(p, q) /\ Beats(q, r) => Beats(p, r)
  <1>1. /\ ~(MorePrecise(p, q) /\ MorePrecise(q, p))
        /\ ~(MorePrecise(p, r) /\ MorePrecise(r, p))
        /\ ~(MorePrecise(q, r) /\ MorePrecise(r, q))
    BY Precisions
  <1>2. /\ ~MorePrecise(q, p) /\ ~MorePrecise(r, q) => ~MorePrecise(r, p)
        /\ ~MorePrecise(r, p) /\ ~MorePrecise(q, r) => ~MorePrecise(q, p)
        /\ ~MorePrecise(p, q) /\ ~MorePrecise(r, p) => ~MorePrecise(r, q)
        /\ ~MorePrecise(r, q) /\ ~MorePrecise(p, r) => ~MorePrecise(p, q)
        /\ ~MorePrecise(p, r) /\ ~MorePrecise(q, p) => ~MorePrecise(q, r)
        /\ ~MorePrecise(q, r) /\ ~MorePrecise(p, q) => ~MorePrecise(p, r)
    BY Precisions
  <1> QED BY <1>1, <1>2 DEF Beats, Better, IsPoint

LEMMA BestIsChosen ==
    ASSUME NEW P, IsFiniteSet(P), P # {}, \A p \in P : IsPoint(p)
    PROVE  Best(P) \in P /\ \A q \in P : ~Better(q, Best(P))
  <1> DEFINE R == {pair \in P \X P : Beats(pair[1], pair[2])}
  <1>1. \A p, q \in P : <<p, q>> \in R <=> Beats(p, q)
    OBVIOUS
  <1> HIDE DEF R
  <1>2. \A p, q \in P : <<p, q>> \in R \/ <<q, p>> \in R
    BY <1>1, BeatsOrders
  <1>3. \A p, q, r \in P : <<p, q>> \in R /\ <<q, r>> \in R => <<p, r>> \in R
    BY <1>1, BeatsOrders
  <1>4. \E p \in P : \A q \in P : <<p, q>> \in R
    BY <1>2, <1>3, FiniteBest
  <1>5. \E p \in P : \A q \in P : ~Better(q, p) /\ (Better(p, q) \/ p.threshold <= q.threshold)
    BY <1>1, <1>4 DEF Beats
  <1> QED BY <1>5 DEF Best

LEMMA WidestIsReached ==
    ASSUME NEW P, IsFiniteSet(P), P # {}, \A p \in P : IsPoint(p)
    PROVE  Widest(P) \in Nat /\ \E p \in P : p.approved = Widest(P)
  <1> DEFINE R == {pair \in P \X P : pair[1].approved >= pair[2].approved}
             S == {p.approved : p \in P}
  <1>1. \A p, q \in P : <<p, q>> \in R <=> p.approved >= q.approved
    OBVIOUS
  <1>2. \A p \in P : p.approved \in Nat
    BY DEF IsPoint
  <1> HIDE DEF R
  <1>3. \A p, q \in P : <<p, q>> \in R \/ <<q, p>> \in R
    <2> TAKE p, q \in P
    <2>1. PICK a \in Nat, b \in Nat : a = p.approved /\ b = q.approved
      BY <1>2
    <2>2. a >= b \/ b >= a
      OBVIOUS
    <2> QED BY <1>1, <2>1, <2>2
  <1>4. \A p, q, r \in P : <<p, q>> \in R /\ <<q, r>> \in R => <<p, r>> \in R
    <2> TAKE p, q, r \in P
    <2>1. PICK a \in Nat, b \in Nat, c \in Nat :
            a = p.approved /\ b = q.approved /\ c = r.approved
      BY <1>2
    <2>2. a >= b /\ b >= c => a >= c
      OBVIOUS
    <2> QED BY <1>1, <2>1, <2>2
  <1>5. \E p \in P : \A q \in P : <<p, q>> \in R
    BY <1>3, <1>4, FiniteBest
  <1>6. \E x \in S : \A y \in S : x >= y
    BY <1>1, <1>5
  <1>7. Widest(P) \in S
    BY <1>6 DEF Widest, Max
  <1> QED BY <1>2, <1>7

\* The points of a sweep over finitely many rows.
LEMMA SweepPoints ==
    ASSUME NEW rows, IsFiniteSet(rows)
    PROVE  /\ IsFiniteSet(Sweep(rows)) /\ Cardinality(rows) \in Nat
           /\ \A p \in Sweep(rows) : IsPoint(p) /\ p = Point(p.threshold, rows)
  <1>1. \A S : S \subseteq rows => Cardinality(S) \in Nat
    BY FS_Subset, FS_CardinalityType
  <1>2. ASSUME NEW t \in Thresholds
        PROVE  IsPoint(Point(t, rows)) /\ Point(t, rows).threshold = t
    <2> DEFINE approved == {r \in rows : r.score >= t}
               right == {r \in approved : r.correct}
    <2>1. approved \subseteq rows /\ right \subseteq rows
      OBVIOUS
    <2>2. Point(t, rows) = [threshold |-> t, approved |-> Cardinality(approved),
                            right |-> Cardinality(right)]
      BY DEF Point
    <2> HIDE DEF approved, right
    <2>3. t \in Int
      BY StudyAssumption
    <2> QED BY <1>1, <2>1, <2>2, <2>3 DEF IsPoint
  <1>3. IsFiniteSet(Sweep(rows))
    <2> DEFINE g == [t \in Thresholds |-> Point(t, rows)]
    <2>1. g \in Surjection(Thresholds, Sweep(rows))
      BY DEF Surjection, Sweep
    <2>2. IsFiniteSet(Thresholds)
      BY StudyAssumption
    <2> HIDE DEF g
    <2> QED BY <2>1, <2>2, FS_Surjection
  <1>4. \A p \in Sweep(rows) : IsPoint(p) /\ p = Point(p.threshold, rows)
    BY <1>2 DEF Sweep
  <1> QED BY <1>1, <1>3, <1>4

\* What is chosen of a sweep. If it is said to meet the target, it does, it is worth
\* using, it is as wide as is tolerated, and nothing as wide is more precise; if not,
\* nothing worth using meets it.
LEMMA ChosenPoint ==
    ASSUME NEW rows, IsFiniteSet(rows)
    PROVE  LET n == Cardinality(rows)
               chosen == OperatingPoint(Sweep(rows), n)
               candidates == {p \in Sweep(rows) : Useful(p, n) /\ Meets(p)}
               Costs(p) == 100 * (Widest(candidates) - p.approved)
           IN  IF chosen.met
                 THEN /\ chosen.point \in candidates
                      /\ Costs(chosen.point) <= COVERAGE_TOLERANCE * n
                      /\ \A p \in candidates :
                           Costs(p) <= COVERAGE_TOLERANCE * n => ~MorePrecise(p, chosen.point)
                 ELSE candidates = {}
  <1> DEFINE n == Cardinality(rows)
             curve == Sweep(rows)
             chosen == OperatingPoint(curve, n)
             candidates == {p \in curve : Useful(p, n) /\ Meets(p)}
             usable == {p \in curve : Useful(p, n)}
             feasible == {p \in usable : Meets(p)}
             least == 100 * Widest(candidates) - COVERAGE_TOLERANCE * n
             affordable == {p \in candidates : 100 * p.approved >= least}
  <1>1. feasible = candidates
    OBVIOUS
  <1>2. /\ IsFiniteSet(curve) /\ n \in Nat
        /\ \A p \in curve : IsPoint(p)
    BY SweepPoints
  <1>3. chosen = IF candidates # {} THEN [point |-> Best(affordable), met |-> TRUE]
                 ELSE IF usable # {} THEN [point |-> Best(usable), met |-> FALSE]
                 ELSE [point |-> [threshold |-> Max(Thresholds), approved |-> 0, right |-> 0],
                       met |-> FALSE]
    BY <1>1 DEF OperatingPoint
  <1>4. IsFiniteSet(candidates) /\ IsFiniteSet(affordable) /\ candidates \subseteq curve
    <2>1. candidates \subseteq curve /\ affordable \subseteq curve
      OBVIOUS
    <2> HIDE DEF candidates, affordable, curve
    <2> QED BY <1>2, <2>1, FS_Subset
  <1>5. CASE candidates = {}
    <2>1. chosen.met = FALSE
      <3> HIDE DEF candidates, usable, affordable
      <3> QED BY <1>3, <1>5
    <2> HIDE DEF chosen
    <2> QED BY <1>5, <2>1 DEF chosen
  <1>6. CASE candidates # {}
    <2>1. chosen = [point |-> Best(affordable), met |-> TRUE]
      BY <1>3, <1>6
    <2>2. PICK w \in Nat : w = Widest(candidates) /\ \E p \in candidates : p.approved = w
      <3> HIDE DEF candidates, curve
      <3> QED BY <1>2, <1>4, <1>6, WidestIsReached
    <2>3. PICK c \in Nat : c = COVERAGE_TOLERANCE * n
      <3>1. COVERAGE_TOLERANCE \in Nat /\ n \in Nat
        BY <1>2, StudyAssumption
      <3>2. \A x, y \in Nat : x * y \in Nat
        BY SMTT(30)
      <3> QED BY <3>1, <3>2
    <2>4. affordable # {}
      <3>1. PICK p \in candidates : p.approved = w
        BY <2>2
      <3>2. 100 * w >= 100 * w - c
        BY <2>2, <2>3
      <3>3. 100 * p.approved >= least
        BY <2>2, <2>3, <3>1, <3>2
      <3> QED BY <3>1, <3>3
    <2>5. \A p \in affordable : IsPoint(p)
      BY <1>2
    <2>6. Best(affordable) \in affordable /\ \A q \in affordable : ~Better(q, Best(affordable))
      <3> HIDE DEF affordable
      <3> QED BY <1>4, <2>4, <2>5, BestIsChosen
    <2>7. \A p \in candidates : p.approved \in Nat
      BY <1>2 DEF IsPoint
    <2>8. \A p \in candidates :
            p \in affordable <=> 100 * (Widest(candidates) - p.approved) <= COVERAGE_TOLERANCE * n
      <3> TAKE p \in candidates
      <3>1. PICK a \in Nat : a = p.approved
        BY <2>7
      <3>2. p \in affordable <=> 100 * a >= 100 * w - c
        BY <2>2, <2>3, <3>1
      <3>3. 100 * a >= 100 * w - c <=> 100 * (w - a) <= c
        OBVIOUS
      <3> QED BY <2>2, <2>3, <3>1, <3>2, <3>3
    <2>9. chosen.met = TRUE /\ chosen.point = Best(affordable) /\ affordable \subseteq candidates
      BY <2>1
    <2> HIDE DEF candidates, affordable, chosen
    <2>10. /\ chosen.point \in candidates
           /\ 100 * (Widest(candidates) - chosen.point.approved) <= COVERAGE_TOLERANCE * n
           /\ \A p \in candidates :
                100 * (Widest(candidates) - p.approved) <= COVERAGE_TOLERANCE * n
                  => ~MorePrecise(p, chosen.point)
      BY <2>6, <2>8, <2>9 DEF Better
    <2> QED BY <2>9, <2>10 DEF chosen, candidates
  <1> QED BY <1>5, <1>6

\* A model's score of a field, by its weights and its bias.
Scored(features, weights, bias) ==
    bias - SumOver([n \in FEATURES |-> weights[n] * features[n]], FEATURES)

\* A model scores as it did before its threshold was chosen.
LEMMA SameScores ==
    ASSUME NEW m \in Models, NEW threshold, NEW features
    PROVE  Logit(features, [m EXCEPT !.threshold = threshold, !.calibrated_for = None])
             = Logit(features, m)
  <1> DEFINE fitted == [m EXCEPT !.threshold = threshold, !.calibrated_for = None]
  <1>1. m \in ConfidenceModel
    BY StudyAssumption
  <1>2. fitted.weights = m.weights /\ fitted.bias = m.bias
    BY <1>1 DEF ConfidenceModel
  <1> HIDE DEF fitted
  <1>3. /\ Logit(features, fitted) = Scored(features, fitted.weights, fitted.bias)
        /\ Logit(features, m) = Scored(features, m.weights, m.bias)
    BY DEF Logit, Scored, SumOver
  <1>4. Logit(features, fitted) = Logit(features, m)
    BY <1>2, <1>3
  <1> QED BY <1>4 DEF fitted

\* The rows that are held out.
RowsOf(set, def, m) ==
    {[doc |-> d, field |-> f, correct |-> set[d].correct[f],
      score |-> Logit(FeaturesFor(f, set[d].signals, def), m)] :
        d \in HeldOut \cap DOMAIN set, f \in ScoredFields(def)}

LEMMA HeldRowsAre == \A m : HeldRows(m) = RowsOf(dataset, definition, m)
  BY DEF HeldRows, RowsOf

LEMMA HeldRowsFinite ==
    ASSUME NEW set, NEW def \in Configs, NEW m PROVE IsFiniteSet(RowsOf(set, def, m))
  <1> DEFINE docs == HeldOut \cap DOMAIN set
             pairs == docs \X ScoredFields(def)
             rowOf(d, f) == [doc |-> d, field |-> f, correct |-> set[d].correct[f],
                             score |-> Logit(FeaturesFor(f, set[d].signals, def), m)]
             g == [pair \in pairs |-> rowOf(pair[1], pair[2])]
  <1>1. IsFiniteSet(docs) /\ IsFiniteSet(ScoredFields(def))
    <2>1. IsFiniteSet(HeldOut)
      BY GoldenDocuments
    <2> QED BY <2>1, FS_Intersection, StudyAssumption
  <1>2. IsFiniteSet(pairs)
    <2> HIDE DEF docs
    <2> QED BY <1>1, FS_Product
  <1>3. RowsOf(set, def, m) = {rowOf(d, f) : d \in docs, f \in ScoredFields(def)}
    BY DEF RowsOf
  <1> HIDE DEF rowOf, docs
  <1>4. {rowOf(d, f) : d \in docs, f \in ScoredFields(def)} = {g[pair] : pair \in pairs}
    <2>1. \A d \in docs, f \in ScoredFields(def) : <<d, f>> \in pairs /\ g[<<d, f>>] = rowOf(d, f)
      OBVIOUS
    <2>2. \A pair \in pairs : \E d \in docs, f \in ScoredFields(def) : pair = <<d, f>>
      OBVIOUS
    <2> HIDE DEF g, pairs
    <2>3. ASSUME NEW d \in docs, NEW f \in ScoredFields(def)
          PROVE  rowOf(d, f) \in {g[pair] : pair \in pairs}
      BY <2>1
    <2>4. ASSUME NEW pair \in pairs
          PROVE  g[pair] \in {rowOf(d, f) : d \in docs, f \in ScoredFields(def)}
      <3>1. PICK d \in docs, f \in ScoredFields(def) : pair = <<d, f>>
        BY <2>2
      <3>2. g[pair] = rowOf(d, f)
        BY <2>1, <3>1
      <3> QED BY <3>2
    <2> QED BY <2>3, <2>4
  <1>5. g \in Surjection(pairs, {g[pair] : pair \in pairs})
    BY DEF Surjection
  <1> HIDE DEF g, pairs
  <1> QED BY <1>2, <1>3, <1>4, <1>5, FS_Surjection

LEMMA SameRows ==
    ASSUME NEW set, NEW def, NEW m \in Models, NEW threshold
    PROVE  RowsOf(set, def, [m EXCEPT !.threshold = threshold, !.calibrated_for = None])
             = RowsOf(set, def, m)
  <1> DEFINE fitted == [m EXCEPT !.threshold = threshold, !.calibrated_for = None]
  <1>1. \A features : Logit(features, fitted) = Logit(features, m)
    BY SameScores
  <1> HIDE DEF fitted
  <1>2. RowsOf(set, def, fitted) = RowsOf(set, def, m)
    BY <1>1 DEF RowsOf
  <1> QED BY <1>2 DEF fitted

\* The claim of ThresholdHoldsOnHeldOut, of a data set, a definition and a model.
Holds(rows, threshold, met) ==
    LET n == Cardinality(rows)
        deployed == Point(threshold, rows)
        candidates == {p \in Sweep(rows) : Useful(p, n) /\ Meets(p)}
        Costs(p) == 100 * (Widest(candidates) - p.approved)
    IN  IF met
          THEN /\ Useful(deployed, n) /\ Meets(deployed)
               /\ Costs(deployed) <= COVERAGE_TOLERANCE * n
               /\ \A p \in candidates :
                     Costs(p) <= COVERAGE_TOLERANCE * n => ~MorePrecise(p, deployed)
          ELSE candidates = {}

LEMMA ChosenHolds ==
    ASSUME NEW rows, IsFiniteSet(rows)
    PROVE  LET chosen == OperatingPoint(Sweep(rows), Cardinality(rows))
           IN  Holds(rows, chosen.point.threshold, chosen.met)
  <1> DEFINE n == Cardinality(rows)
             chosen == OperatingPoint(Sweep(rows), n)
             candidates == {p \in Sweep(rows) : Useful(p, n) /\ Meets(p)}
             Costs(p) == 100 * (Widest(candidates) - p.approved)
             deployed == Point(chosen.point.threshold, rows)
  <1>1. IF chosen.met
          THEN /\ chosen.point \in candidates
               /\ Costs(chosen.point) <= COVERAGE_TOLERANCE * n
               /\ \A p \in candidates :
                    Costs(p) <= COVERAGE_TOLERANCE * n => ~MorePrecise(p, chosen.point)
          ELSE candidates = {}
    BY ChosenPoint
  <1>2. chosen.met => chosen.point = deployed /\ Useful(deployed, n) /\ Meets(deployed)
    <2> SUFFICES ASSUME chosen.met
                 PROVE  chosen.point = deployed /\ Useful(deployed, n) /\ Meets(deployed)
      OBVIOUS
    <2>1. /\ chosen.point \in Sweep(rows) /\ Useful(chosen.point, n) /\ Meets(chosen.point)
      BY <1>1
    <2> HIDE DEF chosen
    <2>2. chosen.point = deployed
      BY <2>1, SweepPoints
    <2> QED BY <2>1, <2>2
  <1> HIDE DEF chosen
  <1>3. Holds(rows, chosen.point.threshold, chosen.met)
    <2>1. CASE chosen.met
      <3> DEFINE point == chosen.point
      <3>1. point = deployed
        BY <1>2, <2>1
      <3>2. /\ Costs(point) <= COVERAGE_TOLERANCE * n
            /\ \A p \in candidates :
                 Costs(p) <= COVERAGE_TOLERANCE * n => ~MorePrecise(p, point)
        BY <1>1, <2>1
      <3> HIDE DEF point
      <3>3. /\ Useful(deployed, n) /\ Meets(deployed)
            /\ Costs(deployed) <= COVERAGE_TOLERANCE * n
            /\ \A p \in candidates :
                 Costs(p) <= COVERAGE_TOLERANCE * n => ~MorePrecise(p, deployed)
        BY <1>2, <2>1, <3>1, <3>2
      <3> QED BY <2>1, <3>3 DEF Holds
    <2>2. CASE ~chosen.met
      BY <1>1, <2>2 DEF Holds
    <2> QED BY <2>1, <2>2
  <1> QED BY <1>3 DEF chosen

FitInv ==
    job = "done" /\ verdict.status = "fitted" =>
        Holds(RowsOf(dataset, definition, model), model.threshold, verdict.met)

LEMMA StepFit == JobInv /\ FitInv /\ [ExperimentNext]_allVars => FitInv'
  <1> SUFFICES ASSUME JobInv, FitInv, [ExperimentNext]_allVars,
                      job' = "done", verdict'.status = "fitted"
               PROVE  Holds(RowsOf(dataset', definition', model'), model'.threshold, verdict'.met)
    BY DEF FitInv
  <1>1. CASE job \in Ended
    <2>1. UNCHANGED <<job, verdict, dataset, definition, model>>
      BY <1>1, EndedRests DEF allVars, vars
    <2> QED BY <2>1 DEF FitInv
  <1>2. CASE job \notin Ended
    <2>1. job' # job
      BY <1>2 DEF Ended
    <2>2. Fit
      <3>1. ~(Take \/ Extract \/ Grade \/ Build \/ Rest \/ Define \/ Raise \/ Reroute)
        BY <1>2, <2>1 DEF Take, Extract, Grade, Build, Rest, Define, Raise, Reroute, EndJob
      <3>2. ~UNCHANGED allVars
        BY <2>1 DEF allVars, vars
      <3>3. ~Store
        BY StoredStatus DEF Store, EndJob
      <3>4. ~Pause
        BY DEF Pause, EndJob
      <3>5. ~Gate
        BY DEF Gate, EndJob
      <3>6. ~(Launch \/ Feed \/ NextArm)
        BY <2>1 DEF Launch, Feed, NextArm, vars
      <3>7. ~Watch
        BY <2>1 DEF Watch, EndJob
      <3>8. ~WriteReport
        BY DEF WriteReport, EndJob
      <3> QED BY <3>1, <3>2, <3>3, <3>4, <3>5, <3>6, <3>7, <3>8 DEF ExperimentNext, Next
    <2>3. PICK m \in Models :
            LET chosen == OperatingPoint(Sweep(HeldRows(m)), Cardinality(HeldRows(m))) IN
            /\ EndJob("done", [status |-> "fitted", met |-> chosen.met])
            /\ model' = [m EXCEPT !.threshold = chosen.point.threshold, !.calibrated_for = None]
      <3>1. ~EndJob("exited", None)
        BY DEF EndJob
      <3> QED BY <2>2, <3>1 DEF Fit
    <2> DEFINE rows == RowsOf(dataset, definition, m)
               chosen == OperatingPoint(Sweep(rows), Cardinality(rows))
    <2>4. /\ verdict' = [status |-> "fitted", met |-> chosen.met]
          /\ model' = [m EXCEPT !.threshold = chosen.point.threshold, !.calibrated_for = None]
      <3>1. HeldRows(m) = rows
        BY HeldRowsAre
      <3> HIDE DEF rows
      <3> QED BY <2>3, <3>1 DEF EndJob
    <2>5. Holds(rows, chosen.point.threshold, chosen.met)
      <3>1. IsFiniteSet(rows)
        BY HeldRowsFinite DEF JobInv
      <3> HIDE DEF rows
      <3> QED BY <3>1, ChosenHolds
    <2>6. UNCHANGED <<dataset, definition>>
      BY <2>2 DEF Fit
    <2>7. RowsOf(dataset, definition, model') = rows
      <3> DEFINE threshold == chosen.point.threshold
      <3>1. model' = [m EXCEPT !.threshold = threshold, !.calibrated_for = None]
        BY <2>4
      <3> HIDE DEF threshold
      <3> QED BY <3>1, SameRows
    <2>8. model'.threshold = chosen.point.threshold
      <3> HIDE DEF chosen
      <3>1. m \in ConfidenceModel
        BY StudyAssumption
      <3> QED BY <2>4, <3>1 DEF ConfidenceModel
    <2>9. verdict'.met = chosen.met
      BY <2>4
    <2> HIDE DEF rows, chosen
    <2> QED BY <2>5, <2>6, <2>7, <2>8, <2>9
  <1> QED BY <1>1, <1>2

\* Whatever model is fitted, operating_point deploys a threshold that holds on the golden
\* documents: if it says the target is met, what is approved is that precise and worth
\* approving, COVERAGE_TOLERANCE bounds what was given up for it, and nothing as affordable
\* is more precise; if it says not, no threshold worth using meets the target.
THEOREM TheThresholdHolds == ExperimentSpec => []ThresholdHoldsOnHeldOut
  <1>1. ExperimentInit => FitInv
    BY DEF ExperimentInit, Init, FitInv
  <1>2. FitInv => ThresholdHoldsOnHeldOut
    <2> SUFFICES ASSUME FitInv, job = "done", verdict.status = "fitted"
                 PROVE  ThresholdHoldsOnHeldOut
      BY DEF ThresholdHoldsOnHeldOut
    <2>1. Holds(HeldRows(model), model.threshold, verdict.met)
      BY HeldRowsAre DEF FitInv
    <2> QED BY <2>1 DEF Holds, ThresholdHoldsOnHeldOut
  <1> QED BY <1>1, <1>2, StepFit, JobHolds, PTL DEF ExperimentSpec, allVars

--------------------------------------------------------------------------
(* Numbers, images and the rules that are kept under a name.               *)

\* The greatest of some numbers that a number bounds.
LEMMA GreatestOf ==
    ASSUME NEW T \in SUBSET Nat, T # {}, NEW n \in Nat, \A t \in T : t <= n
    PROVE  Max(T) \in T /\ \A t \in T : Max(T) >= t
  <1> DEFINE Gaps == {g \in Nat : \E t \in T : g = n - t}
  <1>1. Gaps \in SUBSET Nat /\ \A t \in T : n - t \in Gaps
    OBVIOUS
  <1>2. PICK least \in Gaps : \A g \in Gaps : least <= g
    <2>1. Gaps # {}
      BY <1>1
    <2> HIDE DEF Gaps
    <2> QED BY <1>1, <2>1, LeastNumber
  <1>3. PICK x \in T : least = n - x
    BY <1>2
  <1>4. \A t \in T : x >= t
    <2> TAKE t \in T
    <2>1. n - x <= n - t
      BY <1>1, <1>2, <1>3
    <2>2. x \in Nat /\ t \in Nat
      OBVIOUS
    <2> QED BY <2>1, <2>2
  <1> QED BY <1>4 DEF Max

\* The greatest of finitely many numbers.
LEMMA GreatestOfFinite ==
    ASSUME NEW T \in SUBSET Nat, T # {}, IsFiniteSet(T)
    PROVE  Max(T) \in T /\ \A t \in T : Max(T) >= t
  <1> DEFINE R == {pair \in T \X T : pair[1] >= pair[2]}
  <1>1. \A p, q \in T : <<p, q>> \in R <=> p >= q
    OBVIOUS
  <1> HIDE DEF R
  <1>2. \A p, q \in T : p \in Nat /\ q \in Nat /\ (p >= q \/ q >= p)
    OBVIOUS
  <1>3. \A p, q, r \in T : p >= q /\ q >= r => p >= r
    OBVIOUS
  <1>4. \E p \in T : \A q \in T : <<p, q>> \in R
    <2>1. \A p, q \in T : <<p, q>> \in R \/ <<q, p>> \in R
      BY <1>1, <1>2
    <2>2. \A p, q, r \in T : <<p, q>> \in R /\ <<q, r>> \in R => <<p, r>> \in R
      BY <1>1, <1>3
    <2> QED BY <2>1, <2>2, FiniteBest
  <1> QED BY <1>1, <1>4 DEF Max

\* The least of some numbers.
LEMMA LeastOf ==
    ASSUME NEW T \in SUBSET Nat, T # {}
    PROVE  Min(T) \in T /\ \A t \in T : Min(T) <= t
  BY LeastNumber DEF Min

\* A finite set has finitely many images.
LEMMA FiniteImage ==
    ASSUME NEW S, IsFiniteSet(S), NEW g, DOMAIN g = S, g = [x \in S |-> g[x]]
    PROVE  IsFiniteSet({g[x] : x \in S})
  <1>1. g \in Surjection(S, {g[x] : x \in S})
    BY DEF Surjection
  <1> QED BY <1>1, FS_Surjection

\* What is kept under a name is a rule of that name.
LEMMA LastIs ==
    ASSUME NEW def, def.rules \in Seq(Rules(def)), NEW rules, NEW name,
           \E rule \in rules \cap Rules(def) : rule.name = name
    PROVE  LastNamed(def, rules, name) \in rules \cap Rules(def)
  <1> DEFINE T == {i \in DOMAIN def.rules : def.rules[i] \in rules /\ def.rules[i].name = name}
  <1>1. /\ Len(def.rules) \in Nat /\ DOMAIN def.rules = 1..Len(def.rules)
        /\ \A i \in DOMAIN def.rules : def.rules[i] \in Rules(def)
    OBVIOUS
  <1>2. T # {}
    <2>1. PICK rule \in rules \cap Rules(def) : rule.name = name
      OBVIOUS
    <2>2. \E i \in DOMAIN def.rules : def.rules[i] = rule
      BY <2>1 DEF Rules, ToSet
    <2> QED BY <2>1, <2>2
  <1>3. T \in SUBSET Nat /\ \A i \in T : i <= Len(def.rules)
    BY <1>1
  <1>4. Max(T) \in T
    <2> HIDE DEF T
    <2> QED BY <1>1, <1>2, <1>3, GreatestOf
  <1>5. def.rules[Max(T)] \in rules \cap Rules(def)
    BY <1>1, <1>4
  <1> QED BY <1>5 DEF LastNamed

\* A definition has finitely many rules, and so have the names of any of them.
LEMMA RulesFinite ==
    ASSUME NEW def, def.rules \in Seq(Rules(def))
    PROVE  /\ IsFiniteSet(Rules(def))
           /\ \A S \in SUBSET Rules(def) : IsFiniteSet({rule.name : rule \in S})
  <1>1. /\ Len(def.rules) \in Nat /\ DOMAIN def.rules = 1..Len(def.rules)
        /\ def.rules = [i \in 1..Len(def.rules) |-> def.rules[i]]
    OBVIOUS
  <1>2. IsFiniteSet(Rules(def))
    <2>1. IsFiniteSet(1..Len(def.rules))
      BY <1>1, FS_Interval
    <2>2. IsFiniteSet({def.rules[i] : i \in 1..Len(def.rules)})
      BY <1>1, <2>1, FiniteImage
    <2> QED BY <1>1, <2>2 DEF Rules, ToSet
  <1>3. ASSUME NEW S \in SUBSET Rules(def) PROVE IsFiniteSet({rule.name : rule \in S})
    <2> DEFINE g == [rule \in S |-> rule.name]
    <2>1. IsFiniteSet(S)
      BY <1>2, FS_Subset
    <2>2. IsFiniteSet({g[rule] : rule \in S})
      BY <2>1, FiniteImage
    <2> QED BY <2>2
  <1> QED BY <1>2, <1>3

--------------------------------------------------------------------------
(* What a page says of a record.                                           *)

Percent == 0..100

\* A page that can be read, and a record whose values are canonical.
Legible(page) ==
    /\ Range(page.grounds) \subseteq Percent
    /\ page.dates \subseteq Int /\ page.term \in Int \cup {None}

CanonicalRecord(record, def, page) ==
    \A f \in ScoredFields(def) :
        LET spec == def.fields[f] IN
        IF spec.kind = "table" THEN record[f] = None \/ CanonicalRows(record[f], spec, page)
        ELSE Canonical(record[f], spec.kind, page)

\* A distance in days decays to a percentage.
LEMMA DecayIs == ASSUME NEW days \in Int PROVE Decay(days) \in Percent
  <1>1. PICK m \in Nat : m = Magnitude(days)
    BY DEF Magnitude
  <1>2. 100 \div (1 + m) \in 0..100
    <2>1. PICK q \in Int : q = 100 \div (1 + m)
      OBVIOUS
    <2>2. (1 + m) * q <= 100 /\ 100 < (1 + m) * q + (1 + m)
      BY <2>1
    <2>3. q >= 0
      BY <2>2, SMTT(30)
    <2>4. q <= 100
      BY <2>2, <2>3, SMTT(30)
    <2> QED BY <2>1, <2>3, <2>4
  <1> QED BY <1>1, <1>2 DEF Decay, Percent

\* What a page can say of a text is a percentage.
LEMMA Grounds ==
    ASSUME NEW page, Legible(page), NEW v \in DOMAIN page.grounds
    PROVE  Groundedness(v, page) \in Percent
  BY DEF Legible, Range, Groundedness

\* The texts of a record that can be scored are on the page to some extent.
LEMMA TextGrounds ==
    ASSUME NEW page, Legible(page), NEW def, NEW record, CanonicalRecord(record, def, page),
           Scorable(record, page, def), NEW f \in TextFields(def)
    PROVE  Groundedness(record[f], page) \in Percent
  <1>1. f \in ScoredFields(def) /\ def.fields[f].kind = "text" /\ record[f] # None
    BY DEF TextFields, OfKind, ScoredFields, Scorable
  <1>2. record[f] \in DOMAIN page.grounds
    BY <1>1 DEF CanonicalRecord, Canonical
  <1> QED BY <1>2, Grounds

\* So are the texts of its tables.
LEMMA TableGrounds ==
    ASSUME NEW page, Legible(page), NEW def, NEW record, CanonicalRecord(record, def, page),
           DOMAIN record = ScoredFields(def),
           Scorable(record, page, def), NEW t \in TableFields(def)
    PROVE  TableGroundedness(record, def, page, t) \in Percent
  <1> DEFINE T == {Groundedness(record[t][i][c], page) :
                     i \in DOMAIN Rows(record, t), c \in TextColumns(def, t)}
  <1>1. t \in ScoredFields(def) /\ def.fields[t].kind = "table"
    BY DEF TableFields, OfKind, ScoredFields
  <1>2. ASSUME NEW i \in DOMAIN Rows(record, t), NEW c \in TextColumns(def, t)
        PROVE  Groundedness(record[t][i][c], page) \in Percent
    <2>1. Value(record, t) # None
      <3>1. Value(record, t) = None => DOMAIN Rows(record, t) = {}
        BY EmptySeq DEF Rows
      <3> QED BY <1>2, <3>1
    <2>2. Value(record, t) = record[t] /\ Rows(record, t) = record[t] /\ record[t] # None
      BY <1>1, <2>1 DEF Value, Rows
    <2>3. CanonicalRows(record[t], def.fields[t], page)
      BY <1>1, <2>2 DEF CanonicalRecord
    <2> DEFINE cells == record[t][i]
    <2>4. cells \in Range(Rows(record, t)) /\ cells \in Range(record[t])
      BY <2>2 DEF Range
    <2>5. Value(cells, c) # None
      BY <2>4 DEF Scorable
    <2>6. c \in DOMAIN cells /\ cells[c] # None
      BY <2>5 DEF Value
    <2>7. c \in DOMAIN def.fields[t].item_fields /\ def.fields[t].item_fields[c] = "text"
      BY DEF TextColumns
    <2>8. Canonical(cells[c], "text", page)
      BY <2>3, <2>4, <2>6, <2>7 DEF CanonicalRows
    <2>9. cells[c] \in DOMAIN page.grounds
      BY <2>6, <2>8 DEF Canonical
    <2> QED BY <2>9, Grounds
  <1>3. {100} \cup T \in SUBSET Nat /\ \A x \in {100} \cup T : x \in Percent
    <2>1. \A x \in T : x \in Percent
      BY <1>2
    <2> HIDE DEF T
    <2> QED BY <2>1 DEF Percent
  <1>4. Min({100} \cup T) \in {100} \cup T
    <2> HIDE DEF T
    <2> QED BY <1>3, LeastOf
  <1>5. Min({100} \cup T) \in Percent
    <2> HIDE DEF T
    <2> QED BY <1>3, <1>4
  <1> QED BY <1>5 DEF TableGroundedness

\* A surface form is printed or is not.
LEMMA EnumGrounds ==
    \A def, f, value, page : EnumGrounded(def, f, value, page) \in Percent
  BY DEF EnumGrounded, Percent

\* What a page says of a date is some percentage.
LEMMA DateGrounds ==
    ASSUME NEW page, Legible(page), NEW def, NEW record, CanonicalRecord(record, def, page),
           Scorable(record, page, def), NEW f \in DateFields(def)
    PROVE  CorroborateDate(record[f], page) \in Percent
  <1>1. f \in ScoredFields(def) /\ def.fields[f].kind = "date"
    BY DEF DateFields, OfKind, ScoredFields
  <1>2. CASE page.dates = {}
    BY <1>2 DEF CorroborateDate, Percent
  <1>3. CASE page.dates # {}
    <2> DEFINE T == {Decay(record[f] - d) : d \in page.dates}
    <2>1. record[f] # None
      BY <1>3 DEF Scorable
    <2>2. record[f] \in Int
      BY <1>1, <2>1 DEF CanonicalRecord, Canonical
    <2>3. \A d \in page.dates : record[f] - d \in Int
      BY <2>2 DEF Legible
    <2>4. \A x \in T : x \in Percent
      BY <2>3, DecayIs
    <2>5. T # {}
      BY <1>3
    <2>6. T \in SUBSET Nat /\ 100 \in Nat /\ \A x \in T : x <= 100
      <3> HIDE DEF T
      <3> QED BY <2>4 DEF Percent
    <2>7. Max(T) \in Percent
      <3> HIDE DEF T
      <3> QED BY <2>4, <2>5, <2>6, GreatestOf
    <2> QED BY <1>3, <2>7 DEF CorroborateDate
  <1> QED BY <1>2, <1>3

\* What a page says of a stated term is some percentage.
LEMMA TermGrounds ==
    ASSUME NEW page, Legible(page), NEW def, NEW record, CanonicalRecord(record, def, page),
           Scorable(record, page, def)
    PROVE  TermScores(record, def, page) \subseteq Percent
  <1>1. SUFFICES ASSUME page.term # None, NEW rule \in DateOrders(def)
                 PROVE  CorroborateTerm(record[rule.earlier], record[rule.later], page) \in Percent
    BY DEF TermScores
  <1>2. /\ rule.earlier \in DateFields(def) /\ record[rule.earlier] # None
        /\ rule.later \in DateFields(def) /\ record[rule.later] # None
    BY <1>1 DEF Scorable
  <1>3. \A f \in DateFields(def) : record[f] # None => record[f] \in Int
    BY DEF DateFields, OfKind, ScoredFields, CanonicalRecord, Canonical
  <1>4. page.term \in Int
    BY <1>1 DEF Legible
  <1>5. record[rule.later] - record[rule.earlier] - page.term \in Int
    BY <1>2, <1>3, <1>4
  <1> QED BY <1>5, DecayIs DEF CorroborateTerm

--------------------------------------------------------------------------
(* Residuals and scale.                                                    *)

\* What is read as a number is there, and is a number.
LEMMA Named ==
    ASSUME NEW record, NEW name, Value(record, name) \in Int PROVE record[name] \in Int
  BY DefinitionAssumption DEF Value

\* Numbers that are read add up to a number.
LEMMA AddUpIsInt ==
    ASSUME NEW numbers, IsFiniteSet(DOMAIN numbers), Range(numbers) \subseteq Int
    PROVE  AddUp(numbers) \in Int
  <1>1. \A i \in DOMAIN numbers : numbers[i] \in Int
    BY DEF Range
  <1>2. AddUp(numbers) = SumOver(numbers, DOMAIN numbers)
    BY DEF AddUp, SumOver
  <1> QED BY <1>1, <1>2, SumIsInt

\* A table has finitely many rows.
LEMMA ColumnFinite ==
    ASSUME NEW page, NEW def, NEW record, CanonicalRecord(record, def, page),
           DOMAIN record = ScoredFields(def), NEW table, NEW column
    PROVE  IsFiniteSet(DOMAIN Column(record, def, table, column))
  <1>1. CASE Value(record, table) = None
    <2>1. Column(record, def, table, column)
            = [i \in DOMAIN Rows(record, table) |-> Value(record[table][i], column)]
      BY <1>1 DEF Column
    <2>2. DOMAIN Column(record, def, table, column) = DOMAIN Rows(record, table)
      BY <2>1
    <2>3. DOMAIN Rows(record, table) = {}
      BY <1>1, EmptySeq DEF Rows
    <2> QED BY <2>2, <2>3, FS_EmptySet
  <1>2. CASE Value(record, table) # None /\ table \in TableFields(def)
    <2>1. table \in ScoredFields(def) /\ def.fields[table].kind = "table"
      BY <1>2 DEF TableFields, OfKind, ScoredFields
    <2>2. record[table] # None /\ Rows(record, table) = record[table]
      BY <1>2, <2>1 DEF Value, Rows
    <2>3. record[table] \in Seq(Range(record[table]))
      BY <2>1, <2>2 DEF CanonicalRecord, CanonicalRows
    <2>4. Len(record[table]) \in Nat /\ DOMAIN record[table] = 1..Len(record[table])
      BY <2>3
    <2>5. IsFiniteSet(DOMAIN Rows(record, table))
      BY <2>2, <2>4, FS_Interval
    <2>6. Column(record, def, table, column)
            = [i \in DOMAIN Rows(record, table) |-> Value(record[table][i], column)]
      BY <1>2 DEF Column
    <2> QED BY <2>5, <2>6
  <1>3. CASE Value(record, table) # None /\ table \notin TableFields(def)
    <2>1. Column(record, def, table, column) = <<None>>
      BY <1>3 DEF Column
    <2>2. DOMAIN Column(record, def, table, column) = 1..1
      BY <2>1
    <2>3. \A n \in Nat : IsFiniteSet(1..n)
      BY FS_Interval
    <2>4. 1 \in Nat
      OBVIOUS
    <2>5. \A s : s = 1..1 => IsFiniteSet(s)
      BY <2>3, <2>4, Zenon
    <2> QED BY <2>2, <2>5
  <1> QED BY <1>1, <1>2, <1>3

\* The residual of a rule is a number, whether or not it can be evaluated.
LEMMA ResidualIsInt ==
    ASSUME NEW page, NEW def, NEW record, CanonicalRecord(record, def, page),
           DOMAIN record = ScoredFields(def), NEW rule,
           "terms" \in DOMAIN rule => IsFiniteSet(DOMAIN rule.terms)
    PROVE  Residual(rule, record, def) \in Int
  <1>1. SUFFICES ASSUME IsArithmetic(rule), Readable(rule, record, def)
                 PROVE  ArithmeticResidual(rule, record, def) \in Int
    BY DEF Residual
  <1>2. Operands(rule, record, def) \subseteq Int
    BY <1>1 DEF Readable
  <1>3. CASE rule.type = "sum_equals"
    <2> DEFINE column == Column(record, def, rule.items, rule.item_field)
    <2>1. Value(record, rule.target) \in Int /\ Range(column) \subseteq Int
      BY <1>2, <1>3 DEF Operands
    <2>2. AddUp(column) \in Int
      BY <2>1, ColumnFinite, AddUpIsInt
    <2>3. record[rule.target] \in Int
      BY <2>1, Named
    <2>4. ArithmeticResidual(rule, record, def) = AddUp(column) - record[rule.target]
      BY <1>3 DEF ArithmeticResidual
    <2> QED BY <2>2, <2>3, <2>4
  <1>4. CASE rule.type = "terms_equal"
    <2> DEFINE terms == [i \in DOMAIN rule.terms |-> record[rule.terms[i]]]
    <2>1. /\ Value(record, rule.target) \in Int
          /\ \A i \in DOMAIN rule.terms : Value(record, rule.terms[i]) \in Int
      BY <1>2, <1>4 DEF Operands, Range
    <2>2. IsFiniteSet(DOMAIN rule.terms)
      BY <1>1, <1>4 DEF Readable, Complete
    <2>3. \A i \in DOMAIN rule.terms : record[rule.terms[i]] \in Int
      BY <2>1, Named
    <2>4. DOMAIN terms = DOMAIN rule.terms /\ Range(terms) \subseteq Int
      BY <2>3 DEF Range
    <2>5. AddUp(terms) \in Int
      <3> HIDE DEF terms
      <3> QED BY <2>2, <2>4, AddUpIsInt
    <2>6. record[rule.target] \in Int
      BY <2>1, Named
    <2>7. ArithmeticResidual(rule, record, def) = AddUp(terms) - record[rule.target]
      BY <1>4 DEF ArithmeticResidual
    <2> QED BY <2>5, <2>6, <2>7
  <1>5. CASE rule.type = "product_equals"
    <2>1. /\ Value(record, rule.factors[1]) \in Int /\ Value(record, rule.factors[2]) \in Int
          /\ Value(record, rule.result) \in Int
      BY <1>2, <1>5 DEF Operands
    <2>2. PICK a \in Int, b \in Int, c \in Int :
            /\ a = record[rule.factors[1]] /\ b = record[rule.factors[2]]
            /\ c = record[rule.result]
      BY <2>1, Named
    <2>3. ArithmeticResidual(rule, record, def) = a * b - c
      BY <1>5, <2>2 DEF ArithmeticResidual
    <2>4. a * b - c \in Int
      OBVIOUS
    <2> QED BY <2>3, <2>4
  <1> QED BY <1>1, <1>3, <1>4, <1>5 DEF IsArithmetic

\* What the rules of a definition need to be evaluated.
RulesListed(def) ==
    /\ def.rules \in Seq(Rules(def))
    /\ \A rule \in Rules(def) : "terms" \in DOMAIN rule => IsFiniteSet(DOMAIN rule.terms)

\* What a rule's failure weighs is a natural number.
LEMMA RuleResidualIsNat ==
    ASSUME NEW page, NEW def, NEW record, CanonicalRecord(record, def, page),
           DOMAIN record = ScoredFields(def), RulesListed(def), NEW name
    PROVE  RuleResidual(name, record, def) \in Nat
  <1> DEFINE rules == {r \in DocumentRules(def) : IsArithmetic(r) /\ r.name = name}
  <1>1. CASE rules = {}
    BY <1>1 DEF RuleResidual
  <1>2. CASE rules # {}
    <2>1. \E rule \in rules \cap Rules(def) : rule.name = name
      BY <1>2 DEF DocumentRules
    <2>2. LastNamed(def, rules, name) \in Rules(def)
      <3> HIDE DEF rules
      <3> QED BY <2>1, LastIs DEF RulesListed
    <2>3. Residual(LastNamed(def, rules, name), record, def) \in Int
      <3> HIDE DEF rules
      <3> QED BY <2>2, ResidualIsInt DEF RulesListed
    <2>4. PICK n \in Int : n = Residual(LastNamed(def, rules, name), record, def)
      BY <2>3
    <2>5. Magnitude(n) \in Nat
      BY DEF Magnitude
    <2> QED BY <1>2, <2>4, <2>5 DEF RuleResidual
  <1> QED BY <1>1, <1>2

\* Amounts are measured against one that is there.
LEMMA ScaleIs ==
    ASSUME NEW page, NEW def, NEW record, CanonicalRecord(record, def, page),
           IsFiniteSet(ScoredFields(def))
    PROVE  Max({1} \cup MoneyValues(record, def)) \in Nat \ {0}
  <1> DEFINE fields == {g \in OfKind(def, "money") : record[g] # None}
             amounts == [f \in fields |-> Magnitude(record[f])]
             T == {1} \cup MoneyValues(record, def)
  <1>1. MoneyValues(record, def) = {amounts[f] : f \in fields}
    BY DEF MoneyValues
  <1>2. IsFiniteSet(fields)
    BY FS_Subset DEF OfKind, ScoredFields
  <1>3. IsFiniteSet(MoneyValues(record, def))
    <2>1. DOMAIN amounts = fields /\ amounts = [f \in fields |-> amounts[f]]
      OBVIOUS
    <2> HIDE DEF amounts, fields
    <2> QED BY <1>1, <1>2, <2>1, FiniteImage
  <1>4. MoneyValues(record, def) \subseteq Nat
    <2>1. \A f \in fields : record[f] \in Int
      BY DEF OfKind, ScoredFields, CanonicalRecord, Canonical
    <2>2. \A n \in Int : Magnitude(n) \in Nat
      BY DEF Magnitude
    <2> QED BY <2>1, <2>2 DEF MoneyValues
  <1>5. IsFiniteSet(T)
    BY <1>3, FS_Singleton, FS_Union
  <1>6. T \in SUBSET Nat /\ T # {} /\ 1 \in T
    BY <1>4
  <1>7. Max(T) \in Nat /\ Max(T) >= 1
    <2> HIDE DEF T
    <2> QED BY <1>5, <1>6, GreatestOfFinite
  <1> QED BY <1>7

--------------------------------------------------------------------------
(* The features of a field, and its score.                                 *)

\* A record that can be scored, under a definition that was accepted.
ToScore(record, page, def) ==
    /\ Legible(page) /\ ParseDefinition(def) /\ RulesListed(def)
    /\ IsFiniteSet(ScoredFields(def))
    /\ DOMAIN record = ScoredFields(def) /\ CanonicalRecord(record, def, page)
    /\ Scorable(record, page, def)

SignalsOf(record, attempts, page, def) ==
    Signals(record, EvaluateRules(record, def), attempts, page, def)

\* The rules whose failure counts against a field are finitely many, and rules of the
\* document.
LEMMA ImplicatingIs ==
    ASSUME NEW page, NEW def, RulesListed(def), NEW record, NEW attempts, NEW f
    PROVE  LET signals == SignalsOf(record, attempts, page, def)
           IN  /\ IsFiniteSet(Implicating(f, signals, def))
               /\ \A n \in Implicating(f, signals, def) :
                     signals.residuals[n] = RuleResidual(n, record, def)
  <1> DEFINE signals == SignalsOf(record, attempts, page, def)
             names == {rule.name : rule \in DocumentRules(def)}
  <1>1. /\ signals.rules = EvaluateRules(record, def)
        /\ signals.residuals = [n \in DOMAIN EvaluateRules(record, def) |-> RuleResidual(n, record, def)]
    BY DEF SignalsOf, Signals
  <1>2. DOMAIN EvaluateRules(record, def) = names
    BY DEF EvaluateRules
  <1> HIDE DEF signals
  <1>3. Implicating(f, signals, def) \subseteq names
    BY <1>1, <1>2 DEF Implicating, FailedRules
  <1>4. IsFiniteSet(names)
    <2>1. DocumentRules(def) \in SUBSET Rules(def)
      BY DEF DocumentRules
    <2> QED BY <2>1, RulesFinite DEF RulesListed
  <1>5. IsFiniteSet(Implicating(f, signals, def))
    <2> HIDE DEF names
    <2> QED BY <1>3, <1>4, FS_Subset
  <1>6. \A n \in Implicating(f, signals, def) : signals.residuals[n] = RuleResidual(n, record, def)
    BY <1>1, <1>2, <1>3
  <1> QED BY <1>5, <1>6 DEF signals

\* The features a field is scored by are natural numbers.
Counts(features) == \A n \in FEATURES : features[n] \in Nat

LEMMA FeaturesCount ==
    ASSUME NEW page, NEW def, NEW record, ToScore(record, page, def), NEW attempts,
           NEW f \in ScoredFields(def)
    PROVE  Counts(FeaturesFor(f, SignalsOf(record, attempts, page, def), def))
  <1> DEFINE signals == SignalsOf(record, attempts, page, def)
             features == FeaturesFor(f, signals, def)
             T == {0} \cup {signals.residuals[n] : n \in Implicating(f, signals, def)}
  <1>0. \A g \in Percent : 100 - g \in Nat
    BY DEF Percent
  <1>1. features.implicating_rules_failed \in Nat
    <2>1. IsFiniteSet(Implicating(f, signals, def))
      BY ImplicatingIs DEF ToScore
    <2>2. Cardinality(Implicating(f, signals, def)) \in Nat
      BY <2>1, FS_CardinalityType
    <2> QED BY <2>2 DEF FeaturesFor
  <1>2. features.log_residual_magnitude \in Nat
    <2> DEFINE failed == Implicating(f, signals, def)
               g == [n \in failed |-> signals.residuals[n]]
    <2>1. IsFiniteSet(failed) /\ \A n \in failed : g[n] \in Nat
      <3>1. \A n : RuleResidual(n, record, def) \in Nat
        BY RuleResidualIsNat DEF ToScore
      <3>2. IsFiniteSet(failed) /\ \A n \in failed : signals.residuals[n] = RuleResidual(n, record, def)
        BY ImplicatingIs DEF ToScore
      <3> HIDE DEF signals, failed
      <3> QED BY <3>1, <3>2
    <2>2. T = {0} \cup {g[n] : n \in failed} /\ DOMAIN g = failed /\ g = [n \in failed |-> g[n]]
      OBVIOUS
    <2>3. IsFiniteSet(T) /\ T \in SUBSET Nat /\ T # {}
      <3> HIDE DEF g, T, failed
      <3>1. IsFiniteSet({g[n] : n \in failed})
        BY <2>1, <2>2, FiniteImage
      <3>2. IsFiniteSet({0} \cup {g[n] : n \in failed})
        BY <3>1, FS_Singleton, FS_Union
      <3> QED BY <2>1, <2>2, <3>2
    <2>4. Max(T) \in Nat
      <3> HIDE DEF T
      <3> QED BY <2>3, GreatestOfFinite
    <2>5. signals.scale \in Nat \ {0}
      <3>1. signals.scale = Max({1} \cup MoneyValues(record, def))
        BY DEF SignalsOf, Signals
      <3>2. Max({1} \cup MoneyValues(record, def)) \in Nat \ {0}
        BY ScaleIs DEF ToScore
      <3> QED BY <3>1, <3>2
    <2>6. features.log_residual_magnitude = (100 * Max(T)) \div signals.scale
      BY DEF FeaturesFor
    <2>7. \A a \in Nat, b \in Nat \ {0} : (100 * a) \div b \in Nat
      <3> TAKE a \in Nat, b \in Nat \ {0}
      <3>1. PICK q \in Int : q = (100 * a) \div b
        OBVIOUS
      <3>2. 100 * a < b * q + b
        BY <3>1
      <3>3. q >= 0
        BY <3>2, SMTT(30)
      <3> QED BY <3>1, <3>3
    <2> HIDE DEF T, signals, features
    <2> QED BY <2>4, <2>5, <2>6, <2>7
  <1>3. features.groundedness \in Nat
    <2>1. GroundedSignal(f, signals) \in Percent
      <3>1. signals.groundedness = [g \in Traced(record, def) |-> GroundSignal(g, record, def, page)]
        BY DEF SignalsOf, Signals
      <3>2. ASSUME NEW g \in Traced(record, def) PROVE GroundSignal(g, record, def, page) \in Percent
        <4>1. CASE g \in TextFields(def)
          <5>1. g \notin TableFields(def)
            BY <4>1 DEF TextFields, TableFields, OfKind
          <5>2. GroundSignal(g, record, def, page) = Groundedness(record[g], page)
            BY <4>1, <5>1 DEF GroundSignal
          <5> QED BY <4>1, <5>2, TextGrounds DEF ToScore
        <4>2. CASE g \notin TextFields(def) /\ g \in TableFields(def)
          BY <4>2, TableGrounds DEF GroundSignal, ToScore
        <4>3. CASE g \notin TextFields(def) /\ g \notin TableFields(def)
          BY <4>3, EnumGrounds DEF GroundSignal
        <4> QED BY <4>1, <4>2, <4>3
      <3> HIDE DEF signals
      <3> QED BY <3>1, <3>2 DEF GroundedSignal, Percent
    <2>2. features.groundedness = 100 - GroundedSignal(f, signals)
      BY DEF FeaturesFor
    <2> QED BY <1>0, <2>1, <2>2
  <1>4. features.date_corroboration \in Nat
    <2>1. DateScore(f, signals, def) \in Percent
      <3>1. CASE f \notin DateFields(def)
        BY <3>1 DEF DateScore, Percent
      <3>2. CASE f \in DateFields(def)
        <4>1. /\ signals.dates = [g \in DateFields(def) |-> CorroborateDate(record[g], page)]
              /\ signals.term = IF TermScores(record, def, page) = {} THEN None
                                ELSE Min(TermScores(record, def, page))
          BY DEF SignalsOf, Signals
        <4>2. signals.dates[f] \in Percent
          BY <3>2, <4>1, DateGrounds DEF ToScore
        <4>3. signals.term = None \/ signals.term \in Percent
          <5>1. TermScores(record, def, page) \subseteq Percent
            BY TermGrounds DEF ToScore
          <5>2. TermScores(record, def, page) # {} => Min(TermScores(record, def, page)) \in TermScores(record, def, page)
            BY <5>1, LeastOf DEF Percent
          <5> QED BY <4>1, <5>1, <5>2
        <4> HIDE DEF signals
        <4> QED BY <3>2, <4>2, <4>3 DEF DateScore, Least
      <3> QED BY <3>1, <3>2
    <2>2. features.date_corroboration = 100 - DateScore(f, signals, def)
      BY DEF FeaturesFor
    <2> QED BY <1>0, <2>1, <2>2
  <1>5. /\ features.shape_suspect \in Nat /\ features.row_arithmetic_broken \in Nat
        /\ features.needed_retry \in Nat
    BY DEF FeaturesFor, When
  <1> HIDE DEF features
  <1>6. \A n \in FEATURES : features[n] \in Nat
    BY <1>1, <1>2, <1>3, <1>4, <1>5 DEF FEATURES
  <1> QED BY <1>6 DEF features, Counts

\* A field scores no more than what one of its features leaves of the bias.
LEMMA LogitBelow ==
    ASSUME NEW m \in ConfidenceModel, \A n \in FEATURES : m.weights[n] >= 0,
           NEW features, Counts(features), NEW n \in FEATURES
    PROVE  /\ Logit(features, m) \in Int
           /\ m.weights[n] * features[n] \in Nat
           /\ Logit(features, m) <= m.bias - m.weights[n] * features[n]
  <1> DEFINE weighted == [k \in FEATURES |-> m.weights[k] * features[k]]
  <1>1. m.bias \in Int /\ \A k \in FEATURES : m.weights[k] \in Nat /\ features[k] \in Nat
    BY DEF ConfidenceModel, Counts
  <1>2. \A k \in FEATURES : weighted[k] \in Nat
    <2> TAKE k \in FEATURES
    <2>1. PICK a \in Nat, b \in Nat : a = m.weights[k] /\ b = features[k]
      BY <1>1
    <2>2. a * b \in Nat
      OBVIOUS
    <2> QED BY <2>1, <2>2
  <1>3. IsFiniteSet(FEATURES)
    <2> DEFINE names == <<"implicating_rules_failed", "log_residual_magnitude", "groundedness",
                          "shape_suspect", "row_arithmetic_broken", "needed_retry",
                          "date_corroboration">>
               name == [i \in 1..7 |-> names[i]]
    <2>1. \A k \in Int : IsFiniteSet(1..k)
      BY FS_Interval
    <2>2. IsFiniteSet({name[i] : i \in 1..7})
      <3>1. \E k \in Int : k = 7
        OBVIOUS
      <3>2. IsFiniteSet(1..7)
        BY <2>1, <3>1, Zenon
      <3>3. DOMAIN name = 1..7 /\ name = [i \in 1..7 |-> name[i]]
        BY Zenon
      <3> HIDE DEF name
      <3> QED BY <3>2, <3>3, FiniteImage, Zenon
    <2>3. FEATURES = {name[i] : i \in 1..7}
      <3>1. /\ name[1] = "implicating_rules_failed" /\ name[2] = "log_residual_magnitude"
            /\ name[3] = "groundedness" /\ name[4] = "shape_suspect"
            /\ name[5] = "row_arithmetic_broken" /\ name[6] = "needed_retry"
            /\ name[7] = "date_corroboration"
        OBVIOUS
      <3>2. 1..7 = {1, 2, 3, 4, 5, 6, 7}
        OBVIOUS
      <3> HIDE DEF name
      <3> QED BY <3>1, <3>2 DEF FEATURES
    <2> QED BY <2>2, <2>3
  <1> HIDE DEF weighted
  <1>4. SumOver(weighted, FEATURES) = weighted[n] + SumOver(weighted, FEATURES \ {n})
    <2>1. \A k \in FEATURES : weighted[k] \in Int
      BY <1>2
    <2> QED BY <1>3, <2>1, SumRemove
  <1>5. SumOver(weighted, FEATURES \ {n}) \in Nat
    <2>1. IsFiniteSet(FEATURES \ {n}) /\ \A k \in FEATURES \ {n} : weighted[k] \in Nat
      BY <1>2, <1>3, FS_Subset
    <2> QED BY <2>1, SumIsNat
  <1>6. Logit(features, m) = m.bias - SumOver(weighted, FEATURES)
    BY DEF Logit, SumOver, weighted
  <1>7. weighted[n] = m.weights[n] * features[n]
    BY DEF weighted
  <1>8. PICK a \in Nat, b \in Nat, c \in Int :
          a = weighted[n] /\ b = SumOver(weighted, FEATURES \ {n}) /\ c = m.bias
    BY <1>1, <1>2, <1>5
  <1>9. Logit(features, m) = c - (a + b)
    BY <1>4, <1>6, <1>8
  <1>10. c - (a + b) \in Int /\ c - (a + b) <= c - a
    OBVIOUS
  <1> QED BY <1>7, <1>8, <1>9, <1>10

--------------------------------------------------------------------------
(* What the score of an approved record vouches for.                       *)

Borne(m, feature, lack) == m.weights[feature] * lack <= m.bias - m.threshold

\* What ApprovedIsVouchedFor claims of a record.
Vouched(record, page, def, m) ==
    LET checked == EvaluateRules(record, def) IN
    /\ \A n \in DOMAIN checked : checked[n]
    /\ \A t \in TableFields(def) :
          /\ InconsistentRows(record, def, t) = {}
          /\ Borne(m, "groundedness", 100 - TableGroundedness(record, def, page, t))
    /\ \A f \in TextFields(def) :
          /\ record[f] \notin Fragmented
          /\ Borne(m, "groundedness", 100 - Groundedness(record[f], page))
    /\ \A f \in GroundedEnumFields(def) : record[f] # None =>
          Borne(m, "groundedness", 100 - EnumGrounded(def, f, record[f], page))
    /\ \A f \in PositiveFields(def) : record[f] # None /\ record[f] > 0
    /\ \A f \in DateFields(def) :
          \A s \in {CorroborateDate(record[f], page)} \cup TermScores(record, def, page) :
             Borne(m, "date_corroboration", 100 - s)

Deciding == {"implicating_rules_failed", "shape_suspect", "row_arithmetic_broken"}

\* A field that is not flagged has nothing of a deciding feature, and no more of any than
\* the margin bears.
LEMMA Unflagged ==
    ASSUME NEW m \in ConfidenceModel, Decisive(m), NEW features, Counts(features),
           ~(Logit(features, m) < m.threshold)
    PROVE  /\ \A n \in FEATURES : Borne(m, n, features[n])
           /\ \A n \in Deciding : features[n] = 0
  <1>1. \A n \in FEATURES : m.weights[n] >= 0
    BY DEF Decisive
  <1>2. /\ m.bias \in Int /\ m.threshold \in Int
        /\ \A n \in FEATURES : m.weights[n] \in Nat /\ features[n] \in Nat
    BY <1>1 DEF ConfidenceModel, Counts
  <1>3. ASSUME NEW n \in FEATURES PROVE m.weights[n] * features[n] <= m.bias - m.threshold
    <2>1. /\ Logit(features, m) \in Int /\ m.weights[n] * features[n] \in Nat
          /\ Logit(features, m) <= m.bias - m.weights[n] * features[n]
      BY <1>1, LogitBelow
    <2>2. PICK l \in Int, p \in Nat, b \in Int, t \in Int :
            /\ l = Logit(features, m) /\ p = m.weights[n] * features[n]
            /\ b = m.bias /\ t = m.threshold
      BY <1>2, <2>1
    <2>3. l <= b - p /\ ~(l < t)
      BY <2>1, <2>2
    <2>4. p <= b - t
      BY <2>3
    <2> QED BY <2>2, <2>4
  <1>4. ASSUME NEW n \in Deciding PROVE features[n] = 0
    <2>1. n \in FEATURES /\ m.bias - m.weights[n] < m.threshold
      BY DEF Deciding, FEATURES, Decisive
    <2>2. PICK w \in Nat, x \in Nat, b \in Int, t \in Int :
            w = m.weights[n] /\ x = features[n] /\ b = m.bias /\ t = m.threshold
      BY <1>2, <2>1
    <2>3. w * x <= b - t /\ b - w < t
      BY <1>3, <2>1, <2>2
    <2>4. x >= 1 => w * x >= w
      BY SMTT(30)
    <2>5. ~(x >= 1)
      <3>1. \A p \in Int : p <= b - t /\ b - w < t => ~(p >= w)
        OBVIOUS
      <3>2. w * x \in Int
        OBVIOUS
      <3> QED BY <2>3, <2>4, <3>1, <3>2
    <2> QED BY <2>2, <2>5
  <1> QED BY <1>3, <1>4 DEF Borne

\* A rule that fails counts against some field.
LEMMA FailureCounts ==
    ASSUME NEW page, NEW def, ParseDefinition(def), RulesListed(def), NEW record, NEW attempts,
           NEW n \in DOMAIN EvaluateRules(record, def), ~EvaluateRules(record, def)[n]
    PROVE  \E f \in ScoredFields(def) :
              FeaturesFor(f, SignalsOf(record, attempts, page, def), def).implicating_rules_failed # 0
  <1> DEFINE signals == SignalsOf(record, attempts, page, def)
  <1>1. signals.rules = EvaluateRules(record, def)
    BY DEF SignalsOf, Signals
  <1>2. n \in {rule.name : rule \in DocumentRules(def)}
    BY DEF EvaluateRules
  <1>3. LastNamed(def, Rules(def), n) \in Rules(def)
    <2>1. \E rule \in Rules(def) \cap Rules(def) : rule.name = n
      BY <1>2 DEF DocumentRules
    <2> QED BY <2>1, LastIs DEF RulesListed
  <1>4. RuleFields(def, n) # {} /\ RuleFields(def, n) \subseteq ScoredFields(def)
    BY <1>3 DEF RuleFields, ParseDefinition, ParseRule, Rules, ScoredFields
  <1>5. PICK f \in ScoredFields(def) : f \in RuleFields(def, n)
    BY <1>4
  <1>6. n \in Implicating(f, signals, def)
    <2> HIDE DEF signals
    <2> QED BY <1>1, <1>5 DEF Implicating, FailedRules
  <1>7. Cardinality(Implicating(f, signals, def)) # 0
    <2>1. IsFiniteSet(Implicating(f, signals, def))
      BY ImplicatingIs
    <2> QED BY <1>6, <2>1, FS_EmptySet
  <1>8. FeaturesFor(f, signals, def).implicating_rules_failed = Cardinality(Implicating(f, signals, def))
    BY DEF FeaturesFor
  <1> QED BY <1>7, <1>8

\* A record that is approved is vouched for.
LEMMA ApprovedVouches ==
    ASSUME NEW page, NEW def, NEW record, ToScore(record, page, def), NEW attempts,
           NEW m \in ConfidenceModel, Decisive(m),
           RouteExtraction(SignalsOf(record, attempts, page, def), m, def).decision = "approved"
    PROVE  Vouched(record, page, def, m)
  <1> DEFINE signals == SignalsOf(record, attempts, page, def)
             F(f) == FeaturesFor(f, signals, def)
  <1>1. /\ signals.fragmented = {f \in TextFields(def) : record[f] \in Fragmented}
        /\ signals.nonpositive = {f \in PositiveFields(def) : record[f] = None \/ record[f] <= 0}
        /\ signals.inconsistent = {t \in TableFields(def) : InconsistentRows(record, def, t) # {}}
        /\ signals.groundedness = [f \in Traced(record, def) |-> GroundSignal(f, record, def, page)]
        /\ signals.dates = [f \in DateFields(def) |-> CorroborateDate(record[f], page)]
        /\ signals.term = IF TermScores(record, def, page) = {} THEN None
                          ELSE Min(TermScores(record, def, page))
    BY DEF SignalsOf, Signals
  <1>2. \A f \in ScoredFields(def) : ~(Logit(F(f), m) < m.threshold)
    <2> DEFINE confidence == [f \in ScoredFields(def) |-> Logit(F(f), m)]
               flagged == {f \in ScoredFields(def) : confidence[f] < m.threshold}
    <2>1. RouteExtraction(signals, m, def).decision
            = (IF flagged = {} THEN "approved" ELSE "needs_review")
      BY DEF RouteExtraction
    <2>2. flagged = {}
      <3> HIDE DEF flagged, signals
      <3> QED BY <2>1 DEF signals
    <2> HIDE DEF signals, F
    <2> QED BY <2>2
  <1>3. ASSUME NEW f \in ScoredFields(def)
        PROVE  /\ \A n \in FEATURES : Borne(m, n, F(f)[n])
               /\ \A n \in Deciding : F(f)[n] = 0
    <2>1. Counts(F(f))
      BY FeaturesCount
    <2> HIDE DEF F, signals
    <2> QED BY <1>2, <2>1, Unflagged
  <1>4. ASSUME NEW f \in ScoredFields(def)
        PROVE  /\ Borne(m, "groundedness", 100 - GroundedSignal(f, signals))
               /\ Borne(m, "date_corroboration", 100 - DateScore(f, signals, def))
               /\ f \notin signals.fragmented \cup signals.nonpositive
               /\ f \notin signals.inconsistent
               /\ F(f).implicating_rules_failed = 0
    <2>1. /\ F(f).groundedness = 100 - GroundedSignal(f, signals)
          /\ F(f).date_corroboration = 100 - DateScore(f, signals, def)
          /\ F(f).shape_suspect = When(f \in signals.fragmented \cup signals.nonpositive, 1)
          /\ F(f).row_arithmetic_broken = When(f \in signals.inconsistent, 1)
      BY DEF FeaturesFor
    <2> HIDE DEF F, signals
    <2>2. /\ Borne(m, "groundedness", F(f).groundedness)
          /\ Borne(m, "date_corroboration", F(f).date_corroboration)
      BY <1>3 DEF FEATURES
    <2>3. /\ F(f).shape_suspect = 0 /\ F(f).row_arithmetic_broken = 0
          /\ F(f).implicating_rules_failed = 0
      BY <1>3 DEF Deciding
    <2> QED BY <2>1, <2>2, <2>3 DEF When
  <1> HIDE DEF F, signals
  <1>5. ASSUME NEW n \in DOMAIN EvaluateRules(record, def) PROVE EvaluateRules(record, def)[n]
    BY <1>4, FailureCounts DEF F, signals, ToScore
  <1>6. ASSUME NEW t \in TableFields(def)
        PROVE  /\ InconsistentRows(record, def, t) = {}
               /\ Borne(m, "groundedness", 100 - TableGroundedness(record, def, page, t))
    <2>1. t \in ScoredFields(def) /\ t \notin TextFields(def) /\ t \in Traced(record, def)
      BY DEF TableFields, TextFields, OfKind, ScoredFields, Traced
    <2>2. GroundedSignal(t, signals) = TableGroundedness(record, def, page, t)
      BY <1>1, <2>1 DEF GroundedSignal, GroundSignal
    <2> QED BY <1>1, <1>4, <2>1, <2>2
  <1>7. ASSUME NEW f \in TextFields(def)
        PROVE  /\ record[f] \notin Fragmented
               /\ Borne(m, "groundedness", 100 - Groundedness(record[f], page))
    <2>1. f \in ScoredFields(def) /\ f \notin TableFields(def) /\ f \in Traced(record, def)
      BY DEF TableFields, TextFields, OfKind, ScoredFields, Traced
    <2>2. GroundedSignal(f, signals) = Groundedness(record[f], page)
      BY <1>1, <2>1 DEF GroundedSignal, GroundSignal
    <2> QED BY <1>1, <1>4, <2>1, <2>2
  <1>8. ASSUME NEW f \in GroundedEnumFields(def), record[f] # None
        PROVE  Borne(m, "groundedness", 100 - EnumGrounded(def, f, record[f], page))
    <2>1. f \in ScoredFields(def) /\ def.fields[f].kind = "enum"
      BY DEF GroundedEnumFields, ToScore, ParseDefinition, ParseField, ScoredFields
    <2>2. f \notin TableFields(def) /\ f \notin TextFields(def) /\ f \in Traced(record, def)
      BY <1>8, <2>1 DEF TableFields, TextFields, OfKind, Traced
    <2>3. GroundedSignal(f, signals) = EnumGrounded(def, f, record[f], page)
      BY <1>1, <2>2 DEF GroundedSignal, GroundSignal
    <2> QED BY <1>4, <2>1, <2>3
  <1>9. ASSUME NEW f \in PositiveFields(def) PROVE record[f] # None /\ record[f] > 0
    <2>1. f \in ScoredFields(def) /\ def.fields[f].kind \in {"money", "quantity", "rate"}
      BY DEF PositiveFields, ToScore, ParseDefinition, ParseField, ScoredFields
    <2>2. record[f] = None \/ record[f] \in Int
      BY <2>1 DEF ToScore, CanonicalRecord, Canonical
    <2>3. ~(record[f] = None \/ record[f] <= 0)
      BY <1>1, <1>4, <2>1
    <2> QED BY <2>2, <2>3
  <1>10. ASSUME NEW f \in DateFields(def),
                NEW s \in {CorroborateDate(record[f], page)} \cup TermScores(record, def, page)
         PROVE  Borne(m, "date_corroboration", 100 - s)
    <2>1. f \in ScoredFields(def)
      BY DEF DateFields, OfKind, ScoredFields
    <2>2. CorroborateDate(record[f], page) \in Percent /\ TermScores(record, def, page) \subseteq Percent
      BY DateGrounds, TermGrounds DEF ToScore
    <2>3. DateScore(f, signals, def) \in Percent /\ DateScore(f, signals, def) <= s
      <3>1. CASE TermScores(record, def, page) = {}
        <4>1. signals.term = None
          BY <1>1, <3>1
        <4>2. s = CorroborateDate(record[f], page) /\ DateScore(f, signals, def) = s
          BY <1>1, <3>1, <4>1 DEF DateScore
        <4> QED BY <2>2, <4>2 DEF Percent
      <3>2. CASE TermScores(record, def, page) # {}
        <4> DEFINE term == Min(TermScores(record, def, page))
        <4>1. term \in TermScores(record, def, page) /\ \A x \in TermScores(record, def, page) : term <= x
          BY <2>2, <3>2, LeastOf DEF Percent
        <4>2. signals.term = term /\ term \in Percent /\ term # None
          BY <1>1, <2>2, <3>2, <4>1, DefinitionAssumption DEF Percent
        <4>3. DateScore(f, signals, def) = Least(CorroborateDate(record[f], page), term)
          BY <1>1, <4>2 DEF DateScore
        <4> HIDE DEF term
        <4>4. PICK a \in Percent, b \in Percent : a = CorroborateDate(record[f], page) /\ b = term
          BY <2>2, <4>2
          <4>5. s = a \/ (b <= s /\ s \in Percent)
          BY <2>2, <4>1, <4>4
        <4> QED BY <4>3, <4>4, <4>5 DEF Least, Percent
      <3> QED BY <3>1, <3>2
    <2>4. Borne(m, "date_corroboration", 100 - DateScore(f, signals, def))
      BY <1>4, <2>1
    <2>5. PICK w \in Nat, d \in Percent, x \in Percent, b \in Int :
            /\ w = m.weights["date_corroboration"] /\ d = DateScore(f, signals, def) /\ x = s
            /\ b = m.bias - m.threshold
      <3>1. m.weights["date_corroboration"] \in Nat /\ m.bias - m.threshold \in Int
        BY DEF Decisive, ConfidenceModel, FEATURES
      <3>2. s \in Percent
        BY <2>2
      <3> QED BY <2>3, <3>1, <3>2
    <2>6. w * (100 - d) <= b /\ d <= x
      BY <2>3, <2>4, <2>5 DEF Borne
    <2>7. w * (100 - x) <= w * (100 - d)
      <3>1. 100 - x <= 100 - d /\ 100 - x \in Nat /\ 100 - d \in Nat
        BY <2>6 DEF Percent
      <3>2. \A i, j \in Nat : i <= j => w * i <= w * j
        BY SMTT(30)
      <3> QED BY <3>1, <3>2
    <2>8. w * (100 - x) <= b
      <3>1. w * (100 - x) \in Int /\ w * (100 - d) \in Int
        BY DEF Percent
      <3> QED BY <2>6, <2>7, <3>1
    <2> QED BY <2>5, <2>8 DEF Borne
  <1> QED BY <1>5, <1>6, <1>7, <1>8, <1>9, <1>10 DEF Vouched

--------------------------------------------------------------------------
(* The answers that are served.                                            *)

\* An outcome of a document that is served is none, or an answer a model may give.
Answered(outcome, doc, def) ==
    outcome.record = None
      \/ \E r \in Answers[doc] : outcome.record = [f \in ScoredFields(def) |-> r[f]]

ServedWork(w, def) ==
    w.doc \in Served /\ \A i \in DOMAIN w.outcomes : Answered(w.outcomes[i], w.doc, def)

\* What is served is served under a definition that was accepted and the deployed model.
ServingInv ==
    /\ job \notin {"define", "rejected"} => ParseDefinition(definition)
    /\ job \notin Ended => model = Deployed
    /\ job = "serve" => ToSet(todo) \subseteq Served
    /\ job = "serve" /\ work # Idle => work.mode = "serve"
    /\ work # Idle /\ work.mode = "serve" => ServedWork(work, definition)

\* An approved verdict is the worker's, on a record that could be scored.
ApprovedInv ==
    (job = "done" /\ verdict.status = "approved") =>
        /\ work # Idle /\ work.stage = "decided" /\ work.mode = "serve"
        /\ verdict = StoredRow(work) /\ Assessable(Kept(work), work.doc)
        /\ model = Deployed /\ ParseDefinition(definition)

\* A step at a document adds an outcome or none, in the mode it has.
LEMMA StepAnswers ==
    ASSUME Busy(work), Step
    PROVE  /\ work'.mode = work.mode /\ work'.doc = work.doc
           /\ \/ work'.outcomes = work.outcomes
              \/ \E o : /\ work'.outcomes = Append(work.outcomes, o)
                        /\ o.record = None \/ \E r \in Replies(work) : o.record = Normalize(r)
  <1>1. work'.doc = work.doc
    BY Stepped
  <1>2. ASSUME NEW record, NEW n, NEW k, EndCall(record, n, k)
        PROVE  /\ work'.mode = work.mode
               /\ \E o : o.record = record /\ work'.outcomes = Append(work.outcomes, o)
    <2> DEFINE o == [record |-> record, attempts |-> n]
               s == work.spend + k * Price[work.tier]
               next == IF work.outcomes = << >> THEN "assessing" ELSE "decided"
    <2>1. work' = [work EXCEPT !.outcomes = Append(@, o), !.spend = s, !.stage = next]
      BY <1>2 DEF EndCall
    <2>2. o.record = record
      OBVIOUS
    <2> HIDE DEF o, s, next
    <2>3. work'.mode = work.mode /\ work'.outcomes = Append(work.outcomes, o)
      BY <2>1 DEF Busy, Shaped
    <2> QED BY <2>2, <2>3
  <1>3. CASE Answer
    <2>1. PICK r \in Replies(work) : EndCall(Normalize(r), work.attempt, work.answered + 1)
      BY <1>3 DEF Answer
    <2> HIDE DEF Normalize
    <2> QED BY <1>1, <1>2, <2>1
  <1>4. CASE (Invalid /\ work.attempt # 1) \/ Refused
    <2>1. EndCall(None, 2, work.answered + 1) \/ EndCall(None, 2, work.answered)
      BY <1>4 DEF Invalid, Refused
    <2> QED BY <1>1, <1>2, <2>1
  <1>5. CASE Invalid /\ work.attempt = 1
    <2>1. work' = [work EXCEPT !.attempt = 2, !.answered = work.answered + 1]
      BY <1>5 DEF Invalid
    <2>2. work'.mode = work.mode /\ work'.outcomes = work.outcomes
      BY <2>1 DEF Busy, Shaped
    <2> QED BY <1>1, <2>2
  <1>6. ASSUME NEW stage, work' = [work EXCEPT !.stage = stage]
        PROVE  work'.mode = work.mode /\ work'.outcomes = work.outcomes
    BY <1>6 DEF Busy, Shaped
  <1>7. CASE CallFails
    BY <1>1, <1>6, <1>7 DEF CallFails
  <1>8. CASE OverBudget
    BY <1>1, <1>6, <1>8 DEF OverBudget
  <1>9. CASE Assess
    <2>1. CASE work' = Call(Policy.escalate_to, work)
      <3> DEFINE tier == Policy.escalate_to
      <3>1. work' = [work EXCEPT !.stage = "calling", !.tier = tier, !.attempt = 1, !.answered = 0]
        BY <2>1 DEF Call
      <3> HIDE DEF tier
      <3>2. work'.mode = work.mode /\ work'.outcomes = work.outcomes
        BY <3>1 DEF Busy, Shaped
      <3> QED BY <1>1, <3>2
    <2>2. CASE work' = [work EXCEPT !.stage = "raised"]
      BY <1>1, <1>6, <2>2
    <2>3. CASE work' = [work EXCEPT !.stage = "decided"]
      BY <1>1, <1>6, <2>3
    <2> QED BY <1>9, <2>1, <2>2, <2>3, Zenon DEF Assess
  <1> QED BY <1>3, <1>4, <1>5, <1>7, <1>8, <1>9 DEF Step

\* The next answer of a document that is served is one of those a model may give.
LEMMA StepServed ==
    ASSUME Busy(work), Step, work.mode = "serve", ServedWork(work, definition)
    PROVE  ServedWork(work', definition)
  <1>2. work'.doc = work.doc
    BY StepAnswers
  <1>3. CASE work'.outcomes = work.outcomes
    BY <1>2, <1>3 DEF ServedWork
  <1>4. CASE work'.outcomes # work.outcomes
    <2>1. PICK o : /\ work'.outcomes = Append(work.outcomes, o)
                   /\ o.record = None \/ \E r \in Replies(work) : o.record = Normalize(r)
      BY <1>4, StepAnswers
    <2>2. Answered(o, work.doc, definition)
      BY <2>1 DEF Answered, Replies, Normalize
    <2>3. NoOutcome(work) \/ OneOutcome(work)
      BY <1>4, Stepped DEF Busy, Staged
    <2>4. \A i \in DOMAIN work'.outcomes : Answered(work'.outcomes[i], work.doc, definition)
      <3>1. CASE NoOutcome(work)
        <4>1. work'.outcomes = <<o>>
          BY <2>1, <3>1, Appended DEF NoOutcome
        <4>2. DOMAIN work'.outcomes = {1} /\ work'.outcomes[1] = o
          BY <4>1, Appended
        <4> QED BY <2>2, <4>2
      <3>2. CASE OneOutcome(work)
        <4>1. PICK a : work.outcomes = <<a>>
          BY <3>2 DEF OneOutcome
        <4>2. work'.outcomes = <<a, o>> /\ DOMAIN work.outcomes = {1} /\ work.outcomes[1] = a
          BY <2>1, <4>1, Appended
        <4>3. /\ DOMAIN work'.outcomes = {1, 2} /\ work'.outcomes[1] = a
              /\ work'.outcomes[2] = o
          BY <4>2, Appended
        <4>4. Answered(a, work.doc, definition)
          BY <4>2 DEF ServedWork
        <4> QED BY <2>2, <4>3, <4>4
      <3> QED BY <2>3, <3>1, <3>2
    <2> QED BY <1>2, <2>4 DEF ServedWork
  <1> QED BY <1>3, <1>4

\* No step changes the definition, and only the fit changes the model.
LEMMA StepContext ==
    ASSUME JobInv, job \notin Ended, ExperimentNext
    PROVE  /\ definition' = definition
           /\ model' = model \/ (job' \in Ended /\ (job' = "done" => verdict'.status = "fitted"))
  <1>1. CASE Next
    <2>1. CASE Define \/ Take \/ Extract \/ Store \/ Pause \/ Grade \/ Build \/ Raise \/ Reroute
                 \/ Gate \/ Rest
      BY <2>1 DEF Define, Take, Extract, Store, Pause, Grade, Build, Raise, Reroute, Gate, Rest, vars
    <2>2. CASE Fit
      <3>1. definition' = definition
        BY <2>2 DEF Fit
      <3>2. CASE DOMAIN dataset \subseteq HeldOut \/ DOMAIN dataset \cap HeldOut = {}
        <4>1. UNCHANGED model
          BY <2>2, <3>2 DEF Fit
        <4> QED BY <3>1, <4>1
      <3>3. CASE ~(DOMAIN dataset \subseteq HeldOut \/ DOMAIN dataset \cap HeldOut = {})
        <4>1. \E met : EndJob("done", [status |-> "fitted", met |-> met])
          BY <2>2, <3>3 DEF Fit
        <4>2. job' = "done" /\ verdict'.status = "fitted"
          BY <4>1 DEF EndJob
        <4> QED BY <3>1, <4>2 DEF Ended
      <3> QED BY <3>2, <3>3
    <2> QED BY <1>1, <2>1, <2>2 DEF Next
  <1>2. CASE Launch \/ Feed \/ Watch \/ NextArm \/ WriteReport
    BY <1>2 DEF Launch, Feed, Watch, NextArm, WriteReport, vars
  <1> QED BY <1>1, <1>2 DEF ExperimentNext

\* A step keeps to the definition, the model and the documents that are served.
LEMMA StepServing == JobInv /\ ServingInv /\ [ExperimentNext]_allVars => ServingInv'
  <1> SUFFICES ASSUME JobInv, ServingInv, [ExperimentNext]_allVars PROVE ServingInv'
    OBVIOUS
  <1>1. CASE UNCHANGED <<definition, model, job, todo, work>>
    BY <1>1 DEF ServingInv
  <1>2. SUFFICES ASSUME job \notin Ended, ExperimentNext PROVE ServingInv'
    <2>1. UNCHANGED allVars => UNCHANGED <<definition, model, job, todo, work>>
      BY DEF allVars, vars
    <2> QED BY <1>1, <2>1, EndedRests
  <1>3. definition' = definition /\ (model' = model \/ job' \in Ended) /\ model = Deployed
    BY <1>2, StepContext DEF ServingInv
  <1>4. job \notin {"rejected", "done"}
    BY <1>2 DEF Ended
  \* A step that keeps or ends the job, and keeps or leaves the document, disturbs none of it.
  <1>5. ASSUME job' = job \/ job' \in Ended, job # "define" \/ job' \in {"define", "rejected"},
               todo' = todo \/ job # "serve",
               work' = work \/ work' = Idle
        PROVE  ServingInv'
    <2>1. (job \notin {"define", "rejected"} => ParseDefinition(definition))'
      BY <1>3, <1>4, <1>5 DEF ServingInv
    <2>2. (job \notin Ended => model = Deployed)'
      BY <1>3
    <2>3. (job = "serve" => ToSet(todo) \subseteq Served)'
      BY <1>5 DEF ServingInv, Ended
    <2>4. (job = "serve" /\ work # Idle => work.mode = "serve")'
      BY <1>5 DEF ServingInv, Ended, Idle
    <2>5. (work # Idle /\ work.mode = "serve" => ServedWork(work, definition))'
      BY <1>3, <1>5 DEF ServingInv, Idle
    <2> QED BY <2>1, <2>2, <2>3, <2>4, <2>5 DEF ServingInv
  <1>6. CASE Define
    <2>1. job = "define" /\ work = Idle /\ UNCHANGED work
      BY <1>6 DEF Define, JobInv
    <2>2. CASE ParseDefinition(definition)
      <3>1. job' \in {"serve", "frontier", "build"} /\ (job' = "serve" => \E d \in Served : todo' = <<d>>)
        BY <1>6, <2>2 DEF Define
      <3>2. \A d \in Served : ToSet(<<d>>) \subseteq Served
        BY DEF ToSet
      <3>3. job' = "serve" => ToSet(todo') \subseteq Served
        BY <3>1, <3>2
      <3>4. ~(work' # Idle)
        BY <2>1
      <3> QED BY <1>3, <2>1, <2>2, <3>1, <3>3, <3>4 DEF ServingInv, Idle, Ended
    <2>3. CASE ~ParseDefinition(definition)
      <3>1. job' = "rejected" /\ job' \in Ended
        BY <1>6, <2>3 DEF Define, EndJob, Ended
      <3> QED BY <1>5, <2>1, <3>1 DEF Ended
    <2> QED BY <2>2, <2>3
  <1>7. CASE Take
    <2>1. /\ work = Idle /\ todo # << >> /\ todo' = Tail(todo) /\ UNCHANGED <<job, model>>
      BY <1>7 DEF Take
    <2>2. /\ Head(todo) \in Documents /\ ToSet(todo) = {Head(todo)} \cup ToSet(Tail(todo))
      BY <2>1, HeadTailProperties, FirstAndRest DEF JobInv
    <2>3. job # "define"
      BY <2>1 DEF JobInv
    <2>4. job = "serve" => Head(todo) \in Served /\ ToSet(todo') \subseteq Served
      BY <2>1, <2>2 DEF ServingInv
    <2>5. CASE UNCHANGED work
      BY <1>3, <1>4, <2>1, <2>3, <2>4, <2>5 DEF ServingInv
    <2>6. CASE Begin(Head(todo), job)
      <3> DEFINE d == Head(todo)
                 w == [doc |-> d, mode |-> job, stage |-> "calling", tier |-> FirstTier(job),
                       attempt |-> 1, answered |-> 0, outcomes |-> << >>, spend |-> 0]
      <3>1. work' = w /\ w.mode = job /\ w.doc = d /\ w.outcomes = << >>
        BY <2>6 DEF Begin
      <3>2. DOMAIN << >> = {}
        BY EmptySeq
      <3>3. job = "serve" => ServedWork(w, definition)
        BY <2>4, <3>1, <3>2 DEF ServedWork
      <3> HIDE DEF w, d
      <3>4. work'.mode = job /\ (job = "serve" => ServedWork(work', definition'))
        BY <1>3, <3>1, <3>3
      <3> QED BY <1>3, <1>4, <2>1, <2>3, <2>4, <3>4 DEF ServingInv
    <2> QED BY <1>7, <2>5, <2>6 DEF Take
  <1>8. CASE Extract
    <2>1. Step /\ UNCHANGED <<job, todo, model>>
      BY <1>8 DEF Extract
    <2>2. Busy(work) /\ work # Idle
      BY <2>1, IdleStage DEF JobInv, Busy, Step, Answer, Invalid, Refused, CallFails, OverBudget, Assess
    <2>3. work'.mode = work.mode
      BY <2>1, <2>2, StepAnswers
    <2>4. work.mode = "serve" => ServedWork(work', definition)
      BY <2>1, <2>2, StepServed DEF ServingInv
    <2> QED BY <1>3, <2>1, <2>2, <2>3, <2>4 DEF ServingInv
  <1>9. CASE Feed
    <2>1. job = "experiment" /\ UNCHANGED <<job, todo, model>>
      BY <1>9 DEF Feed
    <2>2. work'.mode = "routed"
      BY <1>9 DEF Feed, Begin
    <2> QED BY <1>3, <2>1, <2>2 DEF ServingInv
  <1>10. CASE Launch
    <2>1. job = "define" /\ work = Idle /\ ParseDefinition(definition)
      BY <1>10 DEF Launch, JobInv
    <2>2. job' = "experiment" /\ work' = Idle /\ UNCHANGED model
      BY <1>10, <2>1 DEF Launch
    <2> QED BY <1>3, <2>1, <2>2 DEF ServingInv
  <1>11. CASE Reroute
    <2>1. /\ job = "frontier" /\ job' = "routed" /\ UNCHANGED <<work, model>>
      BY <1>11 DEF Reroute
    <2> QED BY <1>3, <2>1 DEF ServingInv
  <1>12. CASE Store \/ Pause \/ Raise \/ Gate \/ Fit \/ WriteReport
    <2>1. UNCHANGED <<work, todo>>
      BY <1>12 DEF Store, Pause, Raise, Gate, Fit, WriteReport
    <2>2. job' \in {"done", "crashed", "exited"}
      <3>1. CASE Fit
        <4>1. \E how \in {"done", "exited"} : \E what : EndJob(how, what)
          BY <3>1 DEF Fit
        <4> QED BY <4>1 DEF EndJob
      <3>2. CASE Store
        BY <3>2 DEF Store, EndJob
      <3>3. CASE WriteReport
        BY <3>3, Zenon DEF WriteReport, EndJob
      <3> QED BY <1>12, <3>1, <3>2, <3>3 DEF Pause, Raise, Gate, EndJob
    <2>3. job # "define"
      <3>1. job = "define" => work.stage = "idle"
        BY IdleStage DEF JobInv
      <3> QED BY <1>12, <3>1 DEF Store, Pause, Raise, Gate, Fit, WriteReport, ArmDone
    <2> QED BY <1>5, <2>1, <2>2, <2>3 DEF Ended
  <1>13. CASE Grade \/ Build
    <2>1. job \in {"frontier", "routed", "build"} /\ UNCHANGED <<job, todo>> /\ work' = Idle
      BY <1>13 DEF Grade, Build
    <2> QED BY <1>5, <2>1
  <1>14. CASE Watch
    <2>1. job = "experiment" /\ UNCHANGED todo
      BY <1>14 DEF Watch
    <2>2. (job' = "crashed" /\ UNCHANGED work) \/ (job' = job /\ work' = Idle)
      BY <1>14, Zenon DEF Watch, EndJob
    <2> QED BY <1>5, <2>1, <2>2 DEF Ended
  <1>15. CASE NextArm \/ Rest
    <2>1. UNCHANGED <<definition, model, job, todo, work>>
      BY <1>15 DEF NextArm, Rest, vars
    <2> QED BY <1>1, <2>1
  <1> QED BY <1>2, <1>6, <1>7, <1>8, <1>9, <1>10, <1>11, <1>12, <1>13, <1>14, <1>15
       DEF ExperimentNext, Next

\* Only the worker approves, and it approves what it can score.
LEMMA StepApproved == JobInv /\ ServingInv /\ ApprovedInv /\ [ExperimentNext]_allVars => ApprovedInv'
  <1> SUFFICES ASSUME JobInv, ServingInv, ApprovedInv, [ExperimentNext]_allVars,
                      job' = "done", verdict'.status = "approved"
               PROVE  /\ work' # Idle /\ work'.stage = "decided" /\ work'.mode = "serve"
                      /\ verdict' = StoredRow(work)' /\ Assessable(Kept(work), work.doc)'
                      /\ model' = Deployed /\ ParseDefinition(definition)'
    BY DEF ApprovedInv, Idle
  <1>1. CASE job \in Ended
    <2>1. UNCHANGED <<definition, model, work, job, verdict>>
      BY <1>1, EndedRests DEF allVars, vars
    <2>2. StoredRow(work)' = StoredRow(work)
      BY <2>1 DEF StoredRow, Kept, Routing, Report, Validation
    <2>3. Assessable(Kept(work), work.doc)' = Assessable(Kept(work), work.doc)
      BY <2>1 DEF Assessable, Kept
    <2> QED BY <2>1, <2>2, <2>3 DEF ApprovedInv
  <1>2. CASE job \notin Ended
    <2>1. ExperimentNext /\ job' # job
      BY <1>2 DEF allVars, vars, Ended
    <2>2. Store
      <3>1. ~(Take \/ Extract \/ Grade \/ Build \/ Rest)
        BY <1>2, <2>1 DEF Take, Extract, Grade, Build, Rest
      <3>2. ~Define
        BY DEF Define, EndJob
      <3>3. ~Pause
        BY DEF Pause, EndJob
      <3>4. ~Raise
        BY DEF Raise, EndJob
      <3>5. ~(Reroute \/ Gate)
        BY DEF Reroute, Gate, EndJob
      <3>6. ~Fit
        <4>1. Fit => EndJob("exited", None) \/ \E met : EndJob("done", [status |-> "fitted", met |-> met])
          BY DEF Fit
        <4> QED BY <4>1 DEF EndJob
      <3>7. ~(Launch \/ Feed \/ NextArm)
        BY <2>1 DEF Launch, Feed, NextArm, vars
      <3>8. ~Watch
        BY <2>1 DEF Watch, EndJob
      <3>9. ~WriteReport
        <4>1. WriteReport => \/ EndJob("crashed", None)
                             \/ \E t, p : EndJob("done", [status |-> "reported", headline |-> t,
                                                         false_positive |-> p])
          BY Zenon DEF WriteReport
        <4> QED BY <4>1 DEF EndJob
      <3> QED BY <2>1, <3>1, <3>2, <3>3, <3>4, <3>5, <3>6, <3>7, <3>8, <3>9 DEF ExperimentNext, Next
    <2>3. job = "serve" /\ work.stage = "decided" /\ UNCHANGED <<definition, model, work>>
      BY <2>2 DEF Store
    <2>4. Assessable(Kept(work), work.doc) /\ verdict' = StoredRow(work)
      BY <2>2 DEF Store, EndJob
    <2>5. StoredRow(work)' = StoredRow(work)
      BY <2>3 DEF StoredRow, Kept, Routing, Report, Validation
    <2>6. Assessable(Kept(work), work.doc)' = Assessable(Kept(work), work.doc)
      BY <2>3 DEF Assessable, Kept
    <2>7. work # Idle
      BY <2>3, IdleStage
    <2>8. work.mode = "serve" /\ model = Deployed /\ ParseDefinition(definition)
      BY <1>2, <2>3, <2>7 DEF ServingInv
    <2> QED BY <2>3, <2>4, <2>5, <2>6, <2>7, <2>8
  <1> QED BY <1>1, <1>2

\* What a model answers for a document that is served is a record that can be scored, if
\* what scoring reads of it is there.
LEMMA AnswersScore ==
    ASSUME NEW def \in Configs, ParseDefinition(def), NEW d \in Served, NEW r \in Answers[d],
           NEW record, record = [f \in ScoredFields(def) |-> r[f]], Scorable(record, Page[d], def)
    PROVE  ToScore(record, Page[d], def)
  <1>1. Legible(Page[d])
    BY AnswersAssumption DEF Legible, Percent
  <1>2. RulesListed(def)
    BY AnswersAssumption DEF RulesListed
  <1>3. IsFiniteSet(ScoredFields(def))
    BY StudyAssumption
  <1>4. DOMAIN record = ScoredFields(def) /\ \A f \in ScoredFields(def) : record[f] = r[f]
    OBVIOUS
  <1>5. CanonicalRecord(record, def, Page[d])
    <2>1. CanonicalRecord(r, def, Page[d])
      BY AnswersAssumption DEF CanonicalRecord
    <2> QED BY <1>4, <2>1 DEF CanonicalRecord
  <1> QED BY <1>1, <1>2, <1>3, <1>4, <1>5 DEF ToScore

\* What the invariants say of an approved verdict is what vouches for it.
LEMMA VouchedIs ==
    JobInv /\ ServingInv /\ ApprovedInv => ApprovedIsVouchedFor
  <1> SUFFICES ASSUME JobInv, ServingInv, ApprovedInv, job = "done",
                      verdict.status = "approved", Decisive(model)
               PROVE  Vouched(verdict.record, Page[work.doc], definition, model)
    BY DEF ApprovedIsVouchedFor, Vouched, Borne
  <1> DEFINE outcome == Kept(work)
             record == outcome.record
             page == Page[work.doc]
  <1>1. /\ work # Idle /\ work.stage = "decided" /\ work.mode = "serve"
        /\ verdict = StoredRow(work) /\ Assessable(outcome, work.doc)
        /\ model = Deployed /\ ParseDefinition(definition)
    BY DEF ApprovedInv
  <1>2. record # None
    BY <1>1 DEF StoredRow
  <1>3. /\ verdict.record = record
        /\ Routing(outcome, work.doc).decision = "approved"
    BY <1>1, <1>2 DEF StoredRow
  <1>4. ServedWork(work, definition)
    BY <1>1 DEF ServingInv
  <1>5. Answered(outcome, work.doc, definition)
    <2>1. OneOutcome(work) \/ TwoOutcomes(work)
      BY <1>1, IdleStage DEF JobInv, Busy, Staged
    <2>2. CASE OneOutcome(work)
      <3>1. PICK a : work.outcomes = <<a>>
        BY <2>2 DEF OneOutcome
      <3>2. DOMAIN work.outcomes = {1} /\ Len(work.outcomes) = 1
        BY <3>1, Appended
      <3> QED BY <1>4, <3>2 DEF Kept, ServedWork
    <2>3. CASE TwoOutcomes(work)
      <3>1. PICK a, b : work.outcomes = <<a, b>>
        BY <2>3 DEF TwoOutcomes
      <3>2. DOMAIN work.outcomes = {1, 2}
        BY <3>1
      <3> QED BY <1>4, <3>2 DEF Kept, ServedWork
    <2> QED BY <2>1, <2>2, <2>3
  <1>6. PICK r \in Answers[work.doc] : record = [f \in ScoredFields(definition) |-> r[f]]
    BY <1>2, <1>5 DEF Answered
  <1>7. Scorable(record, page, definition)
    BY <1>1, <1>2 DEF Assessable
  <1>8. ToScore(record, page, definition)
    <2>1. definition \in Configs /\ work.doc \in Served
      BY <1>4 DEF JobInv, ServedWork
    <2> HIDE DEF record
    <2> QED BY <1>1, <1>6, <1>7, <2>1, AnswersScore
  <1>9. RouteExtraction(SignalsOf(record, outcome.attempts, page, definition), model, definition).decision
          = "approved"
    <2>1. Routing(outcome, work.doc)
            = RouteExtraction(SignalsOf(record, outcome.attempts, page, definition), model, definition)
      BY DEF Routing, Report, Validation, ScoreExtraction, SignalsOf
    <2> QED BY <1>3, <2>1
  <1>10. model \in ConfidenceModel
    BY <1>1, StudyAssumption
  <1> HIDE DEF record, page, outcome
  <1> QED BY <1>3, <1>8, <1>9, <1>10, ApprovedVouches DEF record, page

\* Whatever definition is accepted, whatever the page and the answers, a record the worker
\* approves unseen has had every rule of its document hold, has no row that fails its
\* table's rule, no text in fragments and no amount that is not positive where it must be,
\* and lacks no more of its page than the margin of the deployed model bears: one flagged
\* field is enough for review, and with a decisive model one such lapse flags its field.
THEOREM WhatIsApprovedIsVouchedFor == ExperimentSpec => []ApprovedIsVouchedFor
  <1>1. ExperimentInit => ServingInv /\ ApprovedInv
    BY DEF ExperimentInit, Init, ServingInv, ApprovedInv
  <1>2. ServingInv /\ ApprovedInv /\ JobInv /\ [ExperimentNext]_allVars => (ServingInv /\ ApprovedInv)'
    BY StepServing, StepApproved
  <1>3. JobInv /\ ServingInv /\ ApprovedInv => ApprovedIsVouchedFor
    BY VouchedIs
  <1> QED BY <1>1, <1>2, <1>3, JobHolds, PTL DEF ExperimentSpec, allVars

=============================================================================
