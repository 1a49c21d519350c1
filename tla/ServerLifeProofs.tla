-------------------------- MODULE ServerLifeProofs --------------------------
(***************************************************************************)
(* Proofs about the life of a server process in Server: whatever step of   *)
(* the start-up fails, and whenever the loop ends, the labels jumped to    *)
(* release what was acquired, in the reverse order.  Of the loop, it only  *)
(* matters here that proc is a record.                                     *)
(***************************************************************************)
EXTENDS Server, TLAPS

(* A step that names no prover is left to Z3 or Zenon. *)
USE SMTT(15), ZenonT(15), Z3T(30)

(* What a process consists of *)
ProcType ==
  [peer : [Peers -> PeerType], active : Nat, quit : BOOLEAN, link : BOOLEAN,
   closed : BOOLEAN, cut : SUBSET Peers]

-----------------------------------------------------------------------------
(* The start-up and the unwinding *)

(* What the program holds when it runs, in the order of acquisition *)
StackOfD == <<"log", "nl", "mon", "poll", "sdir", "veth", "bpf", "ctl">>
StackOfBr == <<"nl", "mon", "poll", "server", "ctl">>
Stack == IF prog = "d" THEN StackOfD ELSE StackOfBr

(* How much of it the program holds before each step, and in the loop *)
OwnedByD == <<1, 2, 3, 4, 5, 5, 6, 7, 7, 8, 8, 8>>
OwnedByBr == <<0, 0, 1, 2, 3, 3, 4, 4, 4, 5, 5, 5>>
Owned == IF prog = "d" THEN OwnedByD ELSE OwnedByBr

(* The first n of a stack *)
Top(s, n) == [i \in 1..n |-> s[i]]

(* The steps of the daemon acquire its stack, and jump to the label that   *)
(* releases the top of it.                                                 *)
LEMMA TablesOfD ==
  /\ Len(StepsOfD) = 11 /\ Len(LabelsOfD) = 8 /\ Len(StackOfD) = 8
  /\ \A i \in 1..11 :
       /\ OwnedByD[i] \in 1..8
       /\ StepsOfD[i].rc = TRUE
       /\ StepsOfD[i].label = StackOfD[OwnedByD[i]]
       /\ IF StepsOfD[i].get = "none" THEN OwnedByD[i + 1] = OwnedByD[i]
          ELSE /\ OwnedByD[i + 1] = OwnedByD[i] + 1
               /\ StepsOfD[i].get = StackOfD[OwnedByD[i] + 1]
  /\ \A i \in 1..8 : LabelsOfD[i] = StackOfD[9 - i] /\ LabelsOfD[i] # "out"
  /\ \A i, j \in 1..8 : StackOfD[i] = StackOfD[j] => i = j
<1> USE DEF StepsOfD, LabelsOfD, StackOfD, OwnedByD, Step, StepBpf
<1>1. Len(StepsOfD) = 11 /\ Len(LabelsOfD) = 8 /\ Len(StackOfD) = 8
  OBVIOUS
<1>2. ASSUME NEW i \in 1..11
      PROVE  /\ OwnedByD[i] \in 1..8
             /\ StepsOfD[i].rc = TRUE
             /\ StepsOfD[i].label = StackOfD[OwnedByD[i]]
             /\ IF StepsOfD[i].get = "none" THEN OwnedByD[i + 1] = OwnedByD[i]
                ELSE /\ OwnedByD[i + 1] = OwnedByD[i] + 1
                     /\ StepsOfD[i].get = StackOfD[OwnedByD[i] + 1]
  <2>1. i \in {1, 2, 3, 4, 5, 6, 7, 8, 9, 10, 11}
    OBVIOUS
  <2> QED
    BY <2>1
<1>3. \A i \in 1..8 : LabelsOfD[i] = StackOfD[9 - i] /\ LabelsOfD[i] # "out"
  OBVIOUS
<1>4. \A i, j \in 1..8 : StackOfD[i] = StackOfD[j] => i = j
  OBVIOUS
<1> QED
  BY <1>1, <1>2, <1>3, <1>4

(* So do those of the bridge, but for what its comments call exceptions.   *)
LEMMA TablesOfBr ==
  /\ Len(StepsOfBr) = 11 /\ Len(LabelsOfBr) = 6 /\ Len(StackOfBr) = 5
  /\ \A i \in 1..11 :
       /\ OwnedByBr[i] \in 0..5
       /\ StepsOfBr[i].rc \in BOOLEAN
       /\ ~StepsOfBr[i].rc => StepsOfBr[i].name \in {"mon", "server"}
       /\ StepsOfBr[i].name = "poll" <=> i = 4
       /\ StepsOfBr[i].name \in {"console", "server"} <=> i \in {5, 6}
       /\ StepsOfBr[i].label = IF i = 4 THEN "poll"
                               ELSE IF i \in {5, 6} THEN "mon"
                               ELSE IF OwnedByBr[i] = 0 THEN "out"
                               ELSE StackOfBr[OwnedByBr[i]]
       /\ IF StepsOfBr[i].get = "none" THEN OwnedByBr[i + 1] = OwnedByBr[i]
          ELSE /\ OwnedByBr[i + 1] = OwnedByBr[i] + 1
               /\ StepsOfBr[i].get = StackOfBr[OwnedByBr[i] + 1]
  /\ \A i \in 1..5 : LabelsOfBr[i] = StackOfBr[6 - i] /\ LabelsOfBr[i] # "out"
  /\ LabelsOfBr[6] = "out"
  /\ \A i, j \in 1..5 : StackOfBr[i] = StackOfBr[j] => i = j
<1> USE DEF StepsOfBr, LabelsOfBr, StackOfBr, OwnedByBr, Step
<1>1. Len(StepsOfBr) = 11 /\ Len(LabelsOfBr) = 6 /\ Len(StackOfBr) = 5 /\ LabelsOfBr[6] = "out"
  OBVIOUS
<1>2. ASSUME NEW i \in 1..11
      PROVE  /\ OwnedByBr[i] \in 0..5
             /\ StepsOfBr[i].rc \in BOOLEAN
             /\ ~StepsOfBr[i].rc => StepsOfBr[i].name \in {"mon", "server"}
             /\ StepsOfBr[i].name = "poll" <=> i = 4
             /\ StepsOfBr[i].name \in {"console", "server"} <=> i \in {5, 6}
             /\ StepsOfBr[i].label = IF i = 4 THEN "poll"
                                     ELSE IF i \in {5, 6} THEN "mon"
                                     ELSE IF OwnedByBr[i] = 0 THEN "out"
                                     ELSE StackOfBr[OwnedByBr[i]]
             /\ IF StepsOfBr[i].get = "none" THEN OwnedByBr[i + 1] = OwnedByBr[i]
                ELSE /\ OwnedByBr[i + 1] = OwnedByBr[i] + 1
                     /\ StepsOfBr[i].get = StackOfBr[OwnedByBr[i] + 1]
  <2>1. i \in {1, 2, 3, 4, 5, 6, 7, 8, 9, 10, 11}
    OBVIOUS
  <2>2. /\ StepsOfBr[i].rc \in BOOLEAN
        /\ ~StepsOfBr[i].rc => StepsOfBr[i].name \in {"mon", "server"}
    <3>1. CASE i \in {3, 6}
      <4>1. StepsOfBr[3].rc = FALSE /\ StepsOfBr[6].rc = FALSE
        OBVIOUS
      <4>2. StepsOfBr[3].name = "mon" /\ StepsOfBr[6].name = "server"
        OBVIOUS
      <4> HIDE DEF StepsOfBr
      <4> QED
        BY <4>1, <4>2, <3>1, Zenon
    <3>2. CASE i \notin {3, 6}
      <4>1. StepsOfBr[i].rc = TRUE
        BY <2>1, <3>2
      <4> HIDE DEF StepsOfBr
      <4> QED
        BY <4>1, Zenon
    <3> QED
      BY <3>1, <3>2
  <2>3. /\ StepsOfBr[i].name = "poll" <=> i = 4
        /\ StepsOfBr[i].name \in {"console", "server"} <=> i \in {5, 6}
    BY <2>1
  <2>4. /\ OwnedByBr[i] \in 0..5
        /\ StepsOfBr[i].label = IF i = 4 THEN "poll"
                                ELSE IF i \in {5, 6} THEN "mon"
                                ELSE IF OwnedByBr[i] = 0 THEN "out"
                                ELSE StackOfBr[OwnedByBr[i]]
    BY <2>1
  <2>5. IF StepsOfBr[i].get = "none" THEN OwnedByBr[i + 1] = OwnedByBr[i]
        ELSE /\ OwnedByBr[i + 1] = OwnedByBr[i] + 1
             /\ StepsOfBr[i].get = StackOfBr[OwnedByBr[i] + 1]
    BY <2>1
  <2> HIDE DEF StepsOfBr, LabelsOfBr, StackOfBr, OwnedByBr, Step
  <2> QED
    BY <2>2, <2>3, <2>4, <2>5
<1>3. \A i \in 1..5 : LabelsOfBr[i] = StackOfBr[6 - i] /\ LabelsOfBr[i] # "out"
  OBVIOUS
<1>4. \A i, j \in 1..5 : StackOfBr[i] = StackOfBr[j] => i = j
  OBVIOUS
<1> QED
  BY <1>1, <1>2, <1>3, <1>4

(* Acquiring the next resource *)
LEMMA Pushed ==
  ASSUME NEW s, NEW n \in Nat
  PROVE  Append(Top(s, n), s[n + 1]) = Top(s, n + 1)
<1>1. Top(s, n) \in Seq({s[i] : i \in 1..n}) /\ Len(Top(s, n)) = n
  BY DEF Top
<1> QED
  BY <1>1 DEF Top

(* Releasing the last one *)
LEMMA Popped ==
  ASSUME NEW s, NEW n \in Nat \ {0}, NEW e, e = s[n],
         \A i, j \in 1..n : s[i] = s[j] => i = j
  PROVE  /\ e \in Range(Top(s, n))
         /\ Last(Top(s, n)) = e
         /\ Without(Top(s, n), CHOOSE i \in DOMAIN Top(s, n) : Top(s, n)[i] = e) = Top(s, n - 1)
<1> DEFINE t == Top(s, n)
           k == CHOOSE i \in DOMAIN t : t[i] = e
<1>1. t \in Seq({s[i] : i \in 1..n}) /\ Len(t) = n /\ DOMAIN t = 1..n /\ \A i \in 1..n : t[i] = s[i]
  BY DEF Top
<1>2. e \in Range(t) /\ Last(t) = e
  BY <1>1 DEF Range, Last
<1>3. k = n
  BY <1>1
<1> HIDE DEF k
<1>4. Without(t, n) = Top(s, n - 1)
  <2>1. Without(t, n) = SubSeq(t, 1, n - 1) \o SubSeq(t, n + 1, n)
    BY <1>1 DEF Without
  <2>2. SubSeq(t, n + 1, n) = <<>>
    BY <1>1
  <2>3. SubSeq(t, 1, n - 1) = Top(s, n - 1)
    BY <1>1 DEF Top
  <2>4. Top(s, n - 1) \o <<>> = Top(s, n - 1)
    <3>1. Top(s, n - 1) \in Seq({s[i] : i \in 1..n})
      BY DEF Top
    <3> QED
      BY <3>1
  <2> QED
    BY <2>1, <2>2, <2>3, <2>4
<1> QED
  BY <1>2, <1>3, <1>4, Zenon DEF k

-----------------------------------------------------------------------------
(* The invariant *)

(* The exceptions of the bridge *)
Astray == prog = "br" /\ failed \in {"poll", "console", "server"}

(* While it unwinds, the process holds what is below the next label.  The  *)
(* bridge may have skipped the label of its poll context, or be about to   *)
(* release one that it does not have.                                      *)
UnwindInv ==
  IF Astray
  THEN \/ failed = "poll" /\ phase = "stop" /\ step = 3 /\ held = <<"nl", "mon">>
       \/ /\ failed \in {"console", "server"}
          /\ \/ phase = "stop" /\ step = 4 /\ held = <<"nl", "mon", "poll">>
             \/ phase = "stop" /\ step = 5 /\ held = <<"nl", "poll">>
             \/ phase = "stop" /\ step = 6 /\ held = <<"poll">>
             \/ phase = "exit" /\ step = 7 /\ held = <<"poll">>
  ELSE \/ phase = "stop" /\ step \in 1..Len(Labels) /\ held = Top(Stack, Len(Stack) + 1 - step)
       \/ phase = "exit" /\ step = Len(Labels) + 1 /\ held = <<>>

(* Success was earned, or is one of the bridge's exceptions. *)
Earned == rc => proc.quit \/ (prog = "br" /\ failed \in {"mon", "server"})

(* How far the process is, and what it holds *)
LifeInv ==
  /\ prog \in Programs
  /\ rc \in BOOLEAN
  /\ signals \in BOOLEAN
  /\ phase \in {"start", "loop", "stop", "exit", "abort"}
  /\ step \in 1..12
  /\ phase = "start" =>
       step \in 1..11 /\ failed = "none" /\ ~signals /\ held = Top(Stack, Owned[step])
  /\ phase = "loop" =>
       /\ step = 12 /\ held = Top(Stack, Len(Stack))
       /\ failed \in {"none", "signals"}
       /\ signals => failed = "none"
  /\ phase \in {"stop", "exit"} => UnwindInv /\ Earned
  /\ phase = "abort" =>
       \/ failed \in {"event", "callback", "signals"}
       \/ prog = "br" /\ failed = "poll"

(* How far the process is does not change in the loop. *)
LEMMA LifeInLoop ==
  ASSUME LifeInv, phase = "loop", phase' = "loop", UNCHANGED <<Start, failed>>
  PROVE  LifeInv'
<1>1. UNCHANGED <<prog, step, held, rc, signals, failed>>
  BY DEF Start
<1>2. Stack' = Stack
  BY <1>1 DEF Stack
<1> QED
  BY <1>1, <1>2 DEF LifeInv

(* A process that dies leaves nothing to do. *)
LEMMA AbortLife ==
  ASSUME LifeInv, NEW why, Abort(why), UNCHANGED <<prog, step, held, rc, signals>>,
         why \in {"event", "callback", "signals"} \/ (prog = "br" /\ why = "poll")
  PROVE  LifeInv'
<1>1. phase' = "abort" /\ failed' = why
  BY DEF Abort
<1> QED
  BY <1>1 DEF LifeInv

-----------------------------------------------------------------------------
(* Start-up and unwinding *)

(* Everything that the steps below need of the tables *)
LEMMA Tables ==
  ASSUME prog \in {"d", "br"}
  PROVE  /\ Len(Steps) = 11
         /\ Len(Stack) \in {5, 8}
         /\ Len(Labels) = IF prog = "d" THEN Len(Stack) ELSE Len(Stack) + 1
         /\ prog = "br" => Len(Stack) = 5 /\ Labels[6] = "out"
         /\ \A i \in 1..11 :
              /\ Owned[i] \in 0..Len(Stack)
              /\ IF Steps[i].get = "none" THEN Owned[i + 1] = Owned[i]
                 ELSE /\ Owned[i + 1] = Owned[i] + 1
                      /\ Steps[i].get = Stack[Owned[i] + 1]
         /\ Owned[1] = IF prog = "d" THEN 1 ELSE 0
         /\ Owned[12] = Len(Stack)
         /\ \A i \in 1..Len(Stack) : Labels[i] = Stack[Len(Stack) + 1 - i] /\ Labels[i] # "out"
         /\ \A i, j \in 1..Len(Stack) : Stack[i] = Stack[j] => i = j
<1>1. CASE prog = "d"
  <2>1. OwnedByD[1] = 1 /\ OwnedByD[12] = 8
    BY DEF OwnedByD
  <2>2. Steps = StepsOfD /\ Labels = LabelsOfD /\ Stack = StackOfD /\ Owned = OwnedByD
    BY <1>1 DEF Steps, Labels, Stack, Owned
  <2> QED
    BY <1>1, <2>1, <2>2, TablesOfD
<1>2. CASE prog = "br"
  <2>1. OwnedByBr[1] = 0 /\ OwnedByBr[12] = 5
    BY DEF OwnedByBr
  <2>2. Steps = StepsOfBr /\ Labels = LabelsOfBr /\ Stack = StackOfBr /\ Owned = OwnedByBr
    BY <1>2 DEF Steps, Labels, Stack, Owned
  <2> QED
    BY <1>2, <2>1, <2>2, TablesOfBr
<1> QED
  BY <1>1, <1>2

(* The label that releases the n-th resource *)
LEMMA PositionIs ==
  ASSUME prog \in {"d", "br"}
  PROVE  /\ \A n \in 1..Len(Stack) : Position(Stack[n]) = Len(Stack) + 1 - n
         /\ prog = "br" => Position("out") = 6
<1> DEFINE k == Len(Stack)
<1>1. /\ k \in {5, 8}
      /\ Len(Labels) = IF prog = "d" THEN k ELSE k + 1
      /\ prog = "br" => k = 5 /\ Labels[6] = "out"
      /\ \A i \in 1..k : Labels[i] = Stack[k + 1 - i] /\ Labels[i] # "out"
      /\ \A i, j \in 1..k : Stack[i] = Stack[j] => i = j
  BY Tables, Zenon
<1>2. DOMAIN Labels = 1..Len(Labels)
  <2>1. DOMAIN LabelsOfD = 1..Len(LabelsOfD) /\ DOMAIN LabelsOfBr = 1..Len(LabelsOfBr)
    BY DEF LabelsOfD, LabelsOfBr
  <2> QED
    BY <2>1 DEF Labels
<1> HIDE DEF k
<1>3. ASSUME NEW n \in 1..k
      PROVE  Position(Stack[n]) = k + 1 - n
  <2>1. k + 1 - n \in DOMAIN Labels /\ Labels[k + 1 - n] = Stack[n]
    BY <1>1, <1>2
  <2>2. \A i \in DOMAIN Labels : Labels[i] = Stack[n] => i = k + 1 - n
    BY <1>1, <1>2
  <2> QED
    BY <2>1, <2>2 DEF Position
<1>4. prog = "br" => Position("out") = 6
  <2> SUFFICES ASSUME prog = "br" PROVE Position("out") = 6
    OBVIOUS
  <2>1. 6 \in DOMAIN Labels /\ Labels[6] = "out"
    BY <1>1, <1>2
  <2>2. \A i \in DOMAIN Labels : Labels[i] = "out" => i = 6
    BY <1>1, <1>2
  <2> QED
    BY <2>1, <2>2 DEF Position
<1> QED
  BY <1>3, <1>4 DEF k

(* prog does not change, and neither do its tables. *)
LEMMA SameProgram ==
  ASSUME prog' = prog
  PROVE  Steps' = Steps /\ Labels' = Labels /\ Stack' = Stack /\ Owned' = Owned
BY DEF Steps, Labels, Stack, Owned

LEMMA AcquireLife ==
  ASSUME LifeInv, Acquire
  PROVE  LifeInv'
<1> DEFINE n == Owned[step]
<1>1. /\ phase = "start" /\ step \in 1..11 /\ failed = "none" /\ ~signals
      /\ held = Top(Stack, n) /\ prog \in {"d", "br"} /\ rc \in BOOLEAN
      /\ LifeInv
  BY ServerAssumption DEF Acquire, LifeInv
<1>2. /\ held' = IF Steps[step].get = "none" THEN held ELSE Append(held, Steps[step].get)
      /\ signals' = (Steps[step].name = "signals")
      /\ step' = step + 1
      /\ phase' = IF step = Len(Steps) THEN "loop" ELSE "start"
      /\ UNCHANGED <<prog, rc, failed, Loop>>
  BY DEF Acquire
<1>3. Steps' = Steps /\ Labels' = Labels /\ Stack' = Stack /\ Owned' = Owned
  BY <1>2, SameProgram
<1>4. /\ n \in 0..Len(Stack) /\ Len(Steps) = 11 /\ Owned[12] = Len(Stack) /\ Len(Stack) \in Nat
      /\ IF Steps[step].get = "none" THEN Owned[step + 1] = n
         ELSE Owned[step + 1] = n + 1 /\ Steps[step].get = Stack[n + 1]
  <2>1. Len(Steps) = 11 /\ Owned[12] = Len(Stack) /\ Len(Stack) \in {5, 8}
    BY <1>1, Tables
  <2>2. ASSUME NEW i \in 1..11
        PROVE  /\ Owned[i] \in 0..Len(Stack)
               /\ IF Steps[i].get = "none" THEN Owned[i + 1] = Owned[i]
                  ELSE /\ Owned[i + 1] = Owned[i] + 1
                       /\ Steps[i].get = Stack[Owned[i] + 1]
    BY <1>1, Tables, Zenon
  <2>3. /\ n \in 0..Len(Stack)
        /\ IF Steps[step].get = "none" THEN Owned[step + 1] = n
           ELSE Owned[step + 1] = n + 1 /\ Steps[step].get = Stack[n + 1]
    BY <1>1, <2>2, Zenon
  <2> QED
    BY <2>1, <2>3
<1>5. held' = Top(Stack, Owned[step + 1])
  <2>1. n \in Nat
    BY <1>4
  <2> HIDE DEF n
  <2> QED
    BY <1>1, <1>2, <1>4, <2>1, Pushed, Zenon
<1>7. CASE step = 11
  <2>1. phase' = "loop" /\ step' = 12 /\ held' = Top(Stack, Len(Stack))
    BY <1>2, <1>4, <1>5, <1>7
  <2> QED
    BY <1>1, <1>2, <1>3, <2>1 DEF LifeInv
<1>8. CASE step # 11
  <2>0. step' = step + 1 /\ phase' = "start" /\ UNCHANGED <<prog, rc, failed>>
    BY <1>2, <1>4, <1>8
  <2>1. step' \in 1..11 /\ held' = Top(Stack', Owned'[step'])
    BY <1>1, <1>3, <1>5, <1>8, <2>0
  <2>2. ~signals'
    <3>1. \A i \in 1..10 : StepsOfD[i].name # "signals" /\ StepsOfBr[i].name # "signals"
      <4>1. \A i \in 1..10 : i \in {1, 2, 3, 4, 5, 6, 7, 8, 9, 10}
        OBVIOUS
      <4>2. \A i \in 1..10 : StepsOfD[i].name # "signals"
        BY <4>1 DEF StepsOfD, StepBpf, Step
      <4>3. \A i \in 1..10 : StepsOfBr[i].name # "signals"
        BY <4>1 DEF StepsOfBr, Step
      <4> QED
        BY <4>2, <4>3
    <3>2. step \in 1..10
      BY <1>1, <1>8
    <3> QED
      BY <1>2, <3>1, <3>2, Zenon DEF Steps
  <2>3. signals' \in BOOLEAN
    BY <1>2
  <2> QED
    BY <1>1, <2>0, <2>1, <2>2, <2>3 DEF LifeInv
<1> QED
  BY <1>7, <1>8

(* A failed step jumps to the label below which everything is held, but    *)
(* for the exceptions.                                                     *)
LEMMA AcquireFailsLife ==
  ASSUME LifeInv, AcquireFails
  PROVE  LifeInv'
<1> DEFINE n == Owned[step]
<1>1. /\ phase = "start" /\ step \in 1..11 /\ failed = "none" /\ ~signals
      /\ held = Top(Stack, n) /\ prog \in {"d", "br"} /\ rc \in BOOLEAN
      /\ LifeInv
  BY ServerAssumption DEF AcquireFails, LifeInv
<1>2. /\ phase' = "stop"
      /\ step' = Position(Steps[step].label)
      /\ rc' = ~Steps[step].rc
      /\ failed' = Steps[step].name
      /\ UNCHANGED <<prog, held, signals, Loop>>
  BY DEF AcquireFails
<1>3. Steps' = Steps /\ Labels' = Labels /\ Stack' = Stack /\ Owned' = Owned
  BY <1>2, SameProgram
<1>5. /\ Len(Stack) \in {5, 8} /\ Len(Labels) = IF prog = "d" THEN Len(Stack) ELSE Len(Stack) + 1
      /\ \A k \in 1..Len(Stack) : Position(Stack[k]) = Len(Stack) + 1 - k
      /\ prog = "br" => Position("out") = 6
  BY <1>1, Tables, PositionIs, Zenon
<1>6. SUFFICES step' \in 1..12 /\ rc' \in BOOLEAN /\ UnwindInv' /\ Earned'
  BY <1>1, <1>2 DEF LifeInv
<1>7. CASE prog = "d"
  <2>1. /\ n \in 1..8 /\ Len(Stack) = 8 /\ Steps[step].rc = TRUE
        /\ Steps[step].label = Stack[n]
    BY <1>1, <1>7, TablesOfD DEF Steps, Stack, Owned
  <2>2. step' = 9 - n /\ ~rc' /\ rc' \in BOOLEAN
    <3>1. step' = 9 - n
      BY <1>2, <1>5, <2>1
    <3>2. ~rc' /\ rc' \in BOOLEAN
      BY <1>2, <2>1, Zenon
    <3> QED
      BY <3>1, <3>2
  <2>3. held' = Top(Stack, Len(Stack) + 1 - step') /\ step' \in 1..8
    BY <1>1, <1>2, <2>1, <2>2
  <2>4. UnwindInv'
    BY <1>2, <1>3, <1>5, <1>7, <2>1, <2>3 DEF UnwindInv, Astray
  <2> QED
    BY <2>2, <2>3, <2>4 DEF Earned
<1>8. CASE prog = "br"
  <2>1. /\ n \in 0..5 /\ Len(Stack) = 5 /\ Len(Labels) = 6
        /\ Steps[step].rc \in BOOLEAN
        /\ ~Steps[step].rc => Steps[step].name \in {"mon", "server"}
        /\ Steps[step].name = "poll" <=> step = 4
        /\ Steps[step].name \in {"console", "server"} <=> step \in {5, 6}
        /\ Steps[step].label = IF step = 4 THEN "poll"
                               ELSE IF step \in {5, 6} THEN "mon"
                               ELSE IF n = 0 THEN "out"
                               ELSE Stack[n]
    BY <1>1, <1>8, TablesOfBr DEF Steps, Stack, Owned, Labels
  <2>2. rc' \in BOOLEAN /\ Earned'
    BY <1>2, <1>8, <2>1, Zenon DEF Earned
  <2>3. Stack[2] = "mon" /\ Stack[3] = "poll" /\ Stack[1] = "nl" /\ Owned[4] = 2 /\ Owned[5] = 3 /\ Owned[6] = 3
    BY <1>8 DEF Stack, StackOfBr, Owned, OwnedByBr
  <2>4. CASE step = 4
    <3>1. step' = 3
      BY <1>2, <1>5, <2>1, <2>3, <2>4
    <3>2. held' = <<"nl", "mon">>
      BY <1>1, <1>2, <2>3, <2>4 DEF Top
    <3> QED
      BY <1>2, <1>8, <2>1, <2>2, <2>4, <3>1, <3>2 DEF UnwindInv, Astray
  <2>5. CASE step \in {5, 6}
    <3>1. step' = 4
      BY <1>2, <1>5, <2>1, <2>3, <2>5
    <3>2. held' = <<"nl", "mon", "poll">>
      BY <1>1, <1>2, <2>3, <2>5 DEF Top
    <3> QED
      BY <1>2, <1>8, <2>1, <2>2, <2>5, <3>1, <3>2 DEF UnwindInv, Astray
  <2>6. CASE step \notin {4, 5, 6}
    <3>1. step' = 6 - n /\ step' \in 1..6
      BY <1>2, <1>5, <1>8, <2>1, <2>6
    <3>2. held' = Top(Stack, Len(Stack) + 1 - step')
      BY <1>1, <1>2, <2>1, <3>1
    <3>3. ~Astray'
      BY <1>2, <2>1, <2>6 DEF Astray
    <3> QED
      BY <1>2, <1>3, <2>1, <2>2, <3>1, <3>2, <3>3 DEF UnwindInv
  <2> QED
    BY <2>4, <2>5, <2>6
<1> QED
  BY <1>1, <1>7, <1>8

LEMMA SignalsFailLife ==
  ASSUME LifeInv, SignalsFailUnnoticed
  PROVE  LifeInv'
<1>1. /\ phase = "start" /\ step \in 1..11 /\ ~signals /\ Steps[step].name = "signals"
      /\ held = Top(Stack, Owned[step]) /\ prog \in {"d", "br"} /\ rc \in BOOLEAN
      /\ LifeInv
  BY ServerAssumption DEF SignalsFailUnnoticed, LifeInv
<1>2. /\ phase' = "loop" /\ step' = step + 1 /\ failed' = "signals"
      /\ UNCHANGED <<prog, held, rc, signals, Loop>>
  BY DEF SignalsFailUnnoticed
<1>3. Stack' = Stack
  BY <1>2, SameProgram
<1>4. step = 11 /\ Owned[11] = Len(Stack)
  <2>1. ASSUME NEW i \in 1..11
        PROVE  /\ StepsOfD[i].name = "signals" => i = 11
               /\ StepsOfBr[i].name = "signals" => i = 11
    <3>1. i \in {1, 2, 3, 4, 5, 6, 7, 8, 9, 10, 11}
      OBVIOUS
    <3>2. StepsOfD[i].name = "signals" => i = 11
      BY <3>1 DEF StepsOfD, StepBpf, Step
    <3>3. StepsOfBr[i].name = "signals" => i = 11
      BY <3>1 DEF StepsOfBr, Step
    <3> QED
      BY <3>2, <3>3
  <2>2. OwnedByD[11] = 8 /\ OwnedByBr[11] = 5
    BY DEF OwnedByD, OwnedByBr
  <2>3. Len(StackOfD) = 8 /\ Len(StackOfBr) = 5
    BY DEF StackOfD, StackOfBr
  <2> QED
    BY <1>1, <2>1, <2>2, <2>3, Zenon DEF Steps, Stack, Owned
<1> QED
  BY <1>1, <1>2, <1>3, <1>4 DEF LifeInv

(* The first and the last entry of a table *)
LEMMA OneToTable ==
  ASSUME NEW n \in {5, 6, 8}
  PROVE  1 \in 1..n /\ n \in 1..n
OBVIOUS

(* Nothing but a request to quit changes should_quit. *)
LEMMA MonSendQuit ==
  ASSUME NEW x, "quit" \in DOMAIN x, NEW topic
  PROVE  "quit" \in DOMAIN MonSend(x, topic) /\ MonSend(x, topic).quit = x.quit
BY DEF MonSend

LEMMA CloseLinkQuit ==
  ASSUME NEW x \in ProcType
  PROVE  Settled(CloseLink(x)).quit = x.quit
<1> DEFINE y == [x EXCEPT !.link = FALSE, !.closed = TRUE]
           z == CloseLink(x)
<1>1. "quit" \in DOMAIN x /\ "quit" \in DOMAIN y /\ y.quit = x.quit
  BY DEF ProcType
<1>2. z = IF x.link THEN MonSend(y, "debug") ELSE x
  BY DEF CloseLink
<1> HIDE DEF y, z
<1>3. "quit" \in DOMAIN z /\ z.quit = x.quit
  BY <1>1, <1>2, MonSendQuit
<1>4. Settled(z).quit = z.quit
  BY <1>3 DEF Settled
<1> QED
  BY <1>3, <1>4 DEF z

LEMMA QuitLoopLife ==
  ASSUME LifeInv, proc \in ProcType, QuitLoop
  PROVE  LifeInv'
<1>1. /\ phase = "loop" /\ proc.quit
      /\ step = 12 /\ held = Top(Stack, Len(Stack))
      /\ failed \in {"none", "signals"} /\ (signals => failed = "none")
      /\ prog \in {"d", "br"} /\ LifeInv
  BY ServerAssumption DEF QuitLoop, LoopEnds, LifeInv
<1>2. CASE ~signals
  <2>1. Abort("signals") /\ UNCHANGED <<prog, step, held, rc, signals>>
    BY <1>2 DEF QuitLoop
  <2> QED
    BY <2>1, AbortLife
<1>3. CASE signals
  <2> DEFINE x == CloseLink(proc)
  <2>1. /\ phase' = "stop" /\ step' = Position("ctl") /\ ~signals' /\ rc'
        /\ signals' \in BOOLEAN /\ rc' \in BOOLEAN
        /\ proc' = Settled(x)
        /\ UNCHANGED <<prog, held, failed, batch, client>>
    BY <1>3, Zenon DEF QuitLoop
  <2>2. Settled(x).quit
    BY <1>1, CloseLinkQuit
  <2> HIDE DEF x
  <2>3. proc'.quit
    BY <2>1, <2>2
  <2>5. Stack' = Stack /\ Labels' = Labels
    BY <2>1, SameProgram
  <2>6. step' = 1 /\ Len(Stack) \in {5, 8} /\ Len(Labels) \in {6, 8}
    <3>1. Len(Stack) \in {5, 8} /\ Len(Labels) = IF prog = "d" THEN Len(Stack) ELSE Len(Stack) + 1
      BY <1>1, Tables
    <3>2. prog = "br" => Len(Stack) = 5
      BY <1>1, Tables
    <3>3. prog = "d" => Len(Stack) = 8
      BY TablesOfD DEF Stack
    <3>4. Stack[Len(Stack)] = "ctl"
      BY <1>1 DEF Stack, StackOfD, StackOfBr
    <3>5. Position("ctl") = 1
      <4>1. Len(Stack) \in 1..Len(Stack)
        BY <3>1, OneToTable, Zenon
      <4>2. Position(Stack[Len(Stack)]) = Len(Stack) + 1 - Len(Stack)
        BY <1>1, <4>1, PositionIs
      <4> QED
        BY <3>1, <3>4, <4>2
    <3>6. Len(Labels) \in {6, 8}
      <4>1. CASE prog = "d"
        BY <3>1, <3>3, <4>1, Zenon
      <4>2. CASE prog = "br"
        <5>1. prog # "d"
          BY <4>2
        <5> QED
          BY <4>2, <5>1, TablesOfBr DEF Labels
      <4> QED
        BY <1>1, <4>1, <4>2
    <3> QED
      BY <2>1, <3>1, <3>5, <3>6
  <2>7. UnwindInv'
    <3>1. ~Astray'
      BY <1>1, <1>3, <2>1 DEF Astray
    <3>2. held' = Top(Stack', Len(Stack') + 1 - step') /\ step' \in 1..Len(Labels')
      <4>1. Len(Stack') + 1 - step' = Len(Stack)
        BY <2>5, <2>6
      <4>2. step' \in 1..Len(Labels')
        BY <2>5, <2>6, OneToTable, Zenon
      <4>3. held' = Top(Stack', Len(Stack))
        BY <1>1, <2>1, <2>5
      <4> QED
        BY <4>1, <4>2, <4>3
    <3> QED
      BY <2>1, <3>1, <3>2 DEF UnwindInv
  <2> QED
    BY <1>1, <2>1, <2>3, <2>6, <2>7 DEF LifeInv, Earned
<1> QED
  BY <1>2, <1>3 DEF LifeInv

(* Nothing is left. *)
LEMMA TopIsEmpty ==
  ASSUME NEW s, NEW n \in Int, n <= 0
  PROVE  Top(s, n) = <<>>
BY DEF Top

(* A step of the unwinding that finds what its label releases *)
LEMMA StraightKeeps ==
  ASSUME LifeInv, Unwind, ~Astray
  PROVE  /\ UnwindInv'
         /\ phase' \in {"stop", "exit"} /\ step' \in 1..12
         /\ proc' = IF Labels[step] = "ctl" THEN Closed(proc) ELSE proc
         /\ client' = IF Labels[step] = "ctl" THEN [p \in Peers |-> Away] ELSE client
         /\ UNCHANGED <<prog, rc, failed, signals, batch>>
<1> DEFINE k == Len(Stack)
           n == k + 1 - step
           label == Labels[step]
<1>1. /\ phase = "stop" /\ prog \in {"d", "br"}
      /\ step \in 1..Len(Labels) /\ held = Top(Stack, n)
  BY ServerAssumption DEF LifeInv, UnwindInv, Unwind
<1>2. /\ k \in {5, 8}
      /\ Len(Labels) = IF prog = "d" THEN k ELSE k + 1
      /\ prog = "br" => k = 5 /\ Labels[6] = "out"
      /\ \A i \in 1..k : Labels[i] = Stack[k + 1 - i] /\ Labels[i] # "out"
      /\ \A i, j \in 1..k : Stack[i] = Stack[j] => i = j
  BY <1>1, Tables, Zenon
<1> HIDE DEF k
<1>3. Len(Labels) \in {k, k + 1} /\ (Len(Labels) = k + 1 => prog = "br" /\ k = 5)
  <2>1. CASE prog = "d"
    BY <1>2, <2>1
  <2>2. CASE prog = "br"
    <3>1. prog # "d"
      BY <2>2
    <3> QED
      BY <1>2, <2>2, <3>1
  <2> QED
    BY <1>1, <2>1, <2>2
<1>4. /\ label = "out" \/ label \in Range(held)
      /\ (IF label = "out" THEN held
          ELSE Without(held, CHOOSE i \in DOMAIN held : held[i] = label)) = Top(Stack, n - 1)
  <2>1. CASE step = k + 1
    <3>1. step = 6 /\ label = "out" /\ n = 0
      BY <1>1, <1>2, <1>3, <2>1
    <3>2. Top(Stack, n) = Top(Stack, n - 1)
      BY <3>1, TopIsEmpty
    <3> QED
      BY <1>1, <3>1, <3>2
  <2>2. CASE step # k + 1
    <3>1. step \in 1..k /\ n \in 1..k
      BY <1>1, <1>2, <1>3, <2>2
    <3>2. label = Stack[n] /\ label # "out"
      BY <1>2, <3>1
    <3>3. \A i, j \in 1..n : Stack[i] = Stack[j] => i = j
      BY <1>2, <3>1
    <3>4. n \in Nat \ {0}
      BY <1>2, <3>1
    <3> HIDE DEF n, label
    <3>5. /\ label \in Range(Top(Stack, n))
          /\ Without(Top(Stack, n), CHOOSE i \in DOMAIN Top(Stack, n) : Top(Stack, n)[i] = label)
               = Top(Stack, n - 1)
      BY <3>2, <3>3, <3>4, Popped
    <3> QED
      BY <1>1, <3>2, <3>5
  <2> QED
    BY <2>1, <2>2
<1>5. /\ phase' = IF step = Len(Labels) THEN "exit" ELSE "stop"
      /\ step' = step + 1
      /\ held' = IF label = "out" THEN held
                 ELSE Without(held, CHOOSE i \in DOMAIN held : held[i] = label)
      /\ proc' = IF label = "ctl" THEN Closed(proc) ELSE proc
      /\ client' = IF label = "ctl" THEN [p \in Peers |-> Away] ELSE client
      /\ UNCHANGED <<prog, rc, failed, signals, batch>>
  BY <1>4 DEF Unwind
<1>6. held' = Top(Stack, k + 1 - step')
  <2>1. n - 1 = k + 1 - step'
    BY <1>1, <1>2, <1>3, <1>5
  <2> QED
    BY <1>4, <1>5, <2>1
<1>7. Stack' = Stack /\ Labels' = Labels
  BY <1>5, SameProgram
<1>8. phase' \in {"stop", "exit"} /\ step' \in 1..12
  BY <1>1, <1>2, <1>3, <1>5
<1>9. UnwindInv'
  <2>1. ~Astray'
    BY <1>5 DEF Astray
  <2>2. CASE step = Len(Labels)
    <3>1. phase' = "exit" /\ step' = Len(Labels') + 1
      BY <1>5, <1>7, <2>2
    <3>2. k + 1 - step' \in Int /\ k + 1 - step' <= 0
      BY <1>2, <1>3, <1>5, <2>2
    <3>3. held' = <<>>
      BY <1>6, <3>2, TopIsEmpty
    <3> QED
      BY <2>1, <3>1, <3>3 DEF UnwindInv
  <2>3. CASE step # Len(Labels)
    <3>1. phase' = "stop" /\ step' \in 1..Len(Labels')
      BY <1>1, <1>2, <1>3, <1>5, <1>7, <2>3
    <3>2. held' = Top(Stack', Len(Stack') + 1 - step')
      BY <1>6, <1>7 DEF k
    <3> QED
      BY <2>1, <3>1, <3>2 DEF UnwindInv
  <2> QED
    BY <2>2, <2>3
<1> QED
  BY <1>5, <1>8, <1>9

(* One of two, and one of three, is released. *)
LEMMA Joined ==
  ASSUME NEW T, NEW u \in Seq(T), NEW v \in Seq(T)
  PROVE  /\ u \o v \in Seq(T) /\ Len(u \o v) = Len(u) + Len(v)
         /\ \A i \in 1..Len(u) : (u \o v)[i] = u[i]
         /\ \A i \in 1..Len(v) : (u \o v)[Len(u) + i] = v[i]
OBVIOUS

LEMMA ShorterTwo ==
  ASSUME NEW a, NEW b
  PROVE  Without(<<a, b>>, 1) = <<b>>
<1> DEFINE t == <<a, b>>
           T == {a, b}
           u == SubSeq(t, 1, 0)
           v == SubSeq(t, 2, 2)
<1>1. t \in Seq(T) /\ Len(t) = 2 /\ t[2] = b
  OBVIOUS
<1> HIDE DEF t, T
<1>2. u \in Seq(T) /\ Len(u) = 0
  BY <1>1
<1>3. v \in Seq(T) /\ Len(v) = 1 /\ v[1] = b
  BY <1>1
<1>4. Without(t, 1) = u \o v
  BY <1>1 DEF Without
<1> HIDE DEF u, v
<1>5. /\ u \o v \in Seq(T) /\ Len(u \o v) = Len(u) + Len(v)
      /\ \A i \in 1..Len(v) : (u \o v)[Len(u) + i] = v[i]
  BY <1>2, <1>3, Joined
<1> DEFINE w == u \o v
<1>6. w = u \o v
  OBVIOUS
<1> HIDE DEF w
<1>7. w \in Seq(T) /\ Len(w) = 1 /\ w[1] = b
  <2>1. /\ w \in Seq(T) /\ Len(w) = Len(u) + Len(v)
        /\ \A i \in 1..Len(v) : w[Len(u) + i] = v[i]
    BY <1>5, <1>6, Zenon
  <2> QED
    BY <1>2, <1>3, <2>1
<1>8. w = <<b>>
  BY <1>7
<1> QED
  BY <1>4, <1>6, <1>8, Zenon DEF t

LEMMA ShorterThree ==
  ASSUME NEW a, NEW b, NEW c
  PROVE  Without(<<a, b, c>>, 2) = <<a, c>>
<1> DEFINE t == <<a, b, c>>
           T == {a, b, c}
           u == SubSeq(t, 1, 1)
           v == SubSeq(t, 3, 3)
<1>1. t \in Seq(T) /\ Len(t) = 3 /\ t[1] = a /\ t[3] = c
  OBVIOUS
<1> HIDE DEF t, T
<1>2. u \in Seq(T) /\ Len(u) = 1 /\ u[1] = a
  BY <1>1
<1>3. v \in Seq(T) /\ Len(v) = 1 /\ v[1] = c
  BY <1>1
<1>4. Without(t, 2) = u \o v
  BY <1>1 DEF Without
<1> HIDE DEF u, v
<1>5. /\ u \o v \in Seq(T) /\ Len(u \o v) = Len(u) + Len(v)
      /\ \A i \in 1..Len(u) : (u \o v)[i] = u[i]
      /\ \A i \in 1..Len(v) : (u \o v)[Len(u) + i] = v[i]
  BY <1>2, <1>3, Joined
<1> DEFINE w == u \o v
<1>6. w = u \o v
  OBVIOUS
<1> HIDE DEF w
<1>7. w \in Seq(T) /\ Len(w) = 2 /\ w[1] = a /\ w[2] = c
  <2>1. /\ w \in Seq(T) /\ Len(w) = Len(u) + Len(v)
        /\ \A i \in 1..Len(u) : w[i] = u[i]
        /\ \A i \in 1..Len(v) : w[Len(u) + i] = v[i]
    BY <1>5, <1>6, Zenon
  <2> QED
    BY <1>2, <1>3, <2>1
<1>8. w = <<a, c>>
  BY <1>7
<1> QED
  BY <1>4, <1>6, <1>8, Zenon DEF t

(* A step of the bridge past the label that it should have gone to *)
LEMMA AstrayKeeps ==
  ASSUME LifeInv, Unwind, Astray
  PROVE  \/ Abort(failed) /\ prog = "br" /\ failed = "poll" /\ UNCHANGED <<prog, step, held, rc, signals>>
         \/ /\ UnwindInv'
            /\ phase' \in {"stop", "exit"} /\ step' \in 1..12
            /\ UNCHANGED <<prog, rc, failed, signals, batch, proc, client>>
<1>1. /\ phase = "stop" /\ prog = "br" /\ UnwindInv
  BY DEF LifeInv, Unwind, Astray
<1>2. Labels = LabelsOfBr
  BY <1>1 DEF Labels
<1>3. /\ Len(Labels) = 6 /\ Labels[3] = "poll" /\ Labels[4] = "mon" /\ Labels[5] = "nl" /\ Labels[6] = "out"
  BY <1>2 DEF LabelsOfBr
<1>4. CASE failed = "poll"
  <2>1. step = 3 /\ held = <<"nl", "mon">>
    BY <1>1, <1>4 DEF UnwindInv, Astray
  <2>2. ~(Labels[step] = "out" \/ Labels[step] \in Range(held))
    BY <1>3, <2>1 DEF Range
  <2> QED
    BY <1>1, <1>4, <2>2 DEF Unwind
<1>5. CASE failed # "poll"
  <2>0. failed \in {"console", "server"}
    BY <1>5 DEF Astray
  <2>1. \/ step = 4 /\ held = <<"nl", "mon", "poll">>
        \/ step = 5 /\ held = <<"nl", "poll">>
        \/ step = 6 /\ held = <<"poll">>
    BY <1>1, <1>5 DEF UnwindInv, Astray
  <2> DEFINE rest == Without(held, CHOOSE i \in DOMAIN held : held[i] = Labels[step])
  <2>2. ASSUME step = 4
        PROVE  Labels[step] \in Range(held) /\ rest = <<"nl", "poll">>
    <3>1. held = <<"nl", "mon", "poll">> /\ Labels[step] = "mon"
      BY <1>3, <2>1, <2>2
    <3>2. (CHOOSE i \in DOMAIN held : held[i] = Labels[step]) = 2
      <4>1. DOMAIN held = {1, 2, 3} /\ held[1] = "nl" /\ held[2] = "mon" /\ held[3] = "poll"
        BY <3>1
      <4> QED
        BY <3>1, <4>1
    <3>3. Without(<<"nl", "mon", "poll">>, 2) = <<"nl", "poll">>
      BY ShorterThree
    <3>4. Labels[step] \in Range(held)
      BY <3>1 DEF Range
    <3> QED
      BY <3>1, <3>2, <3>3, <3>4
  <2>3. ASSUME step = 5
        PROVE  Labels[step] \in Range(held) /\ rest = <<"poll">>
    <3>1. held = <<"nl", "poll">> /\ Labels[step] = "nl"
      BY <1>3, <2>1, <2>3
    <3>2. (CHOOSE i \in DOMAIN held : held[i] = Labels[step]) = 1
      <4>1. DOMAIN held = {1, 2} /\ held[1] = "nl" /\ held[2] = "poll"
        BY <3>1
      <4> QED
        BY <3>1, <4>1
    <3>3. Without(<<"nl", "poll">>, 1) = <<"poll">>
      BY ShorterTwo
    <3>4. Labels[step] \in Range(held)
      BY <3>1 DEF Range
    <3> QED
      BY <3>1, <3>2, <3>3, <3>4
  <2>4. /\ Labels[step] = "out" \/ Labels[step] \in Range(held)
        /\ Labels[step] # "ctl"
    BY <1>3, <2>1, <2>2, <2>3
  <2>5. /\ phase' = IF step = Len(Labels) THEN "exit" ELSE "stop"
        /\ step' = step + 1
        /\ held' = IF Labels[step] = "out" THEN held ELSE rest
        /\ UNCHANGED <<prog, rc, failed, signals, batch, proc, client>>
    BY <2>4 DEF Unwind
  <2> HIDE DEF rest
  <2>6. Astray' /\ failed' \in {"console", "server"}
    BY <2>0, <2>5 DEF Astray
  <2>7. \/ phase' = "stop" /\ step' = 5 /\ held' = <<"nl", "poll">>
        \/ phase' = "stop" /\ step' = 6 /\ held' = <<"poll">>
        \/ phase' = "exit" /\ step' = 7 /\ held' = <<"poll">>
    <3>1. CASE step = 4
      BY <1>3, <2>2, <2>5, <3>1
    <3>2. CASE step = 5
      BY <1>3, <2>3, <2>5, <3>2
    <3>3. CASE step = 6
      BY <1>3, <2>1, <2>5, <3>3
    <3> QED
      BY <2>1, <3>1, <3>2, <3>3
  <2>8. UnwindInv'
    BY <2>6, <2>7 DEF UnwindInv
  <2> QED
    BY <2>5, <2>7, <2>8
<1> QED
  BY <1>4, <1>5

LEMMA UnwindLife ==
  ASSUME LifeInv, Unwind
  PROVE  LifeInv'
<1>1. phase = "stop" /\ Earned
  BY DEF LifeInv, Unwind
<1>2. ASSUME /\ UnwindInv'
             /\ phase' \in {"stop", "exit"} /\ step' \in 1..12
             /\ proc' \in {proc, Closed(proc)}
             /\ UNCHANGED <<prog, rc, failed, signals>>
      PROVE  LifeInv'
  <2>1. Closed(proc).quit = proc.quit
    BY DEF Closed, Idle
  <2>2. Earned'
    BY <1>1, <1>2, <2>1 DEF Earned
  <2> QED
    BY <1>1, <1>2, <2>2 DEF LifeInv
<1>3. CASE ~Astray
  BY <1>2, <1>3, StraightKeeps
<1>4. CASE Astray
  <2>1. CASE /\ Abort(failed) /\ prog = "br" /\ failed = "poll"
             /\ UNCHANGED <<prog, step, held, rc, signals>>
    BY <2>1, AbortLife
  <2>2. CASE /\ UnwindInv'
             /\ phase' \in {"stop", "exit"} /\ step' \in 1..12
             /\ UNCHANGED <<prog, rc, failed, signals, batch, proc, client>>
    BY <1>2, <2>2
  <2> QED
    BY <1>4, <2>1, <2>2, AstrayKeeps
<1> QED
  BY <1>3, <1>4

-----------------------------------------------------------------------------
(* The whole life *)

LEMMA InitLife ==
  ASSUME Init
  PROVE  LifeInv
<1>1. /\ prog \in {"d", "br"} /\ phase = "start" /\ step = 1 /\ rc = TRUE /\ failed = "none"
      /\ signals = FALSE
      /\ held = IF prog = "d" THEN <<"log">> ELSE <<>>
      /\ prog \in Programs
  BY ServerAssumption DEF Init
<1>2. held = Top(Stack, Owned[step])
  <2>1. CASE prog = "d"
    BY <1>1, <2>1 DEF Top, Stack, Owned, StackOfD, OwnedByD
  <2>2. CASE prog = "br"
    <3>1. Owned[1] = 0 /\ held = <<>>
      BY <1>1, <2>2 DEF Owned, OwnedByBr
    <3> QED
      BY <1>1, <3>1, TopIsEmpty
  <2> QED
    BY <1>1, <2>1, <2>2
<1>3. rc \in BOOLEAN /\ signals \in BOOLEAN /\ ~signals
  BY <1>1, Zenon
<1>4. prog \in Programs /\ phase = "start" /\ step = 1 /\ failed = "none"
  BY <1>1, Zenon
<1> QED
  BY <1>2, <1>3, <1>4 DEF LifeInv

LEMMA StutterLife ==
  ASSUME LifeInv, UNCHANGED vars
  PROVE  LifeInv'
<1>1. UNCHANGED <<prog, phase, step, held, rc, failed, signals, proc>>
  BY DEF vars
<1>2. Stack' = Stack /\ Owned' = Owned /\ Labels' = Labels
  BY <1>1, SameProgram
<1>3. UnwindInv' = UnwindInv /\ Earned' = Earned
  BY <1>1, <1>2 DEF UnwindInv, Astray, Earned
<1> QED
  BY <1>1, <1>2, <1>3 DEF LifeInv

(* What the invariant says at the end, and on the way there *)
LEMMA LifeUnwound ==
  ASSUME LifeInv
  PROVE  Unwound
<1>1. ASSUME phase = "exit"
      PROVE  held = <<>> \/ (prog = "br" /\ failed \in {"console", "server"})
  BY <1>1 DEF LifeInv, UnwindInv, Astray
<1>2. ASSUME phase = "stop", Labels[step] \in Range(held)
      PROVE  Last(held) = Labels[step] \/ (prog = "br" /\ failed \in {"console", "server"})
  <2>1. CASE Astray
    <3>1. CASE failed = "poll"
      <4>1. step = 3 /\ held = <<"nl", "mon">> /\ Labels[3] = "poll"
        BY <1>2, <2>1, <3>1 DEF LifeInv, UnwindInv, Astray, Labels, LabelsOfBr
      <4> QED
        BY <1>2, <4>1 DEF Range
    <3> QED
      BY <2>1, <3>1 DEF Astray
  <2>2. CASE ~Astray
    <3> DEFINE k == Len(Stack)
               n == k + 1 - step
    <3>1. prog \in {"d", "br"} /\ step \in 1..Len(Labels) /\ held = Top(Stack, n)
      BY <1>2, <2>2, ServerAssumption DEF LifeInv, UnwindInv
    <3>2. /\ k \in {5, 8}
          /\ Len(Labels) \in {k, k + 1}
          /\ \A i \in 1..k : Labels[i] = Stack[k + 1 - i]
          /\ \A i, j \in 1..k : Stack[i] = Stack[j] => i = j
      <4>1. Len(Labels) = IF prog = "d" THEN k ELSE k + 1
        BY <3>1, Tables
      <4>2. Len(Labels) \in {k, k + 1}
        BY <4>1, Zenon
      <4> QED
        BY <3>1, <4>2, Tables
    <3> HIDE DEF k
    <3>3. step \in 1..k
      <4>1. CASE step = k + 1
        <5>1. n \in Int /\ n <= 0
          BY <3>2, <4>1
        <5>2. held = <<>>
          BY <3>1, <5>1, TopIsEmpty
        <5> QED
          BY <1>2, <5>2 DEF Range
      <4> QED
        BY <3>1, <3>2, <4>1
    <3>4. n \in 1..k /\ n \in Nat \ {0} /\ Labels[step] = Stack[n]
      BY <3>2, <3>3
    <3>5. \A i, j \in 1..n : Stack[i] = Stack[j] => i = j
      BY <3>2, <3>4
    <3> HIDE DEF n
    <3>6. Last(Top(Stack, n)) = Labels[step]
      BY <3>4, <3>5, Popped, Zenon
    <3> QED
      BY <3>1, <3>6
  <2> QED
    BY <2>1, <2>2
<1>3. ASSUME phase = "abort"
      PROVE  \/ failed \in {"event", "callback", "signals"}
             \/ prog = "br" /\ failed = "poll"
  BY <1>3 DEF LifeInv
<1> QED
  BY <1>1, <1>2, <1>3 DEF Unwound

LEMMA LifeEarned ==
  ASSUME LifeInv
  PROVE  SuccessIsEarned
BY DEF LifeInv, Earned, SuccessIsEarned

=============================================================================
