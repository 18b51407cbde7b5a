------------------------ MODULE CoroutineFramesProofs ------------------------
(***************************************************************************)
(* Proof that frames are resumed and destroyed when they may be, that      *)
(* bodies nest as the threads that run them, that values arrive in order   *)
(* and that arguments stay anchored, for every number of threads, frames   *)
(* and values.                                                             *)
(***************************************************************************)
EXTENDS CoroutineFrames, SequenceTheorems, TLAPS

FrameStates == {"unused", "running", "suspended", "done", "destroyed", "broken"}

TypeOK ==
  /\ chain \in Seq(Thread) /\ referenced \in SUBSET Thread /\ collected \in SUBSET Frame
  /\ status \in [Thread -> {"suspended", "active", "dead"}]
  /\ call \in [Thread -> Frame \union {NoFrame}] /\ stack \in [Thread -> Seq(Slot)]
  /\ coro \in [Frame -> FrameStates]
  /\ produced \in [Frame -> 0..MaxValues] /\ received \in [Frame -> Seq(Slot)]

(* The main thread is at the bottom, a thread runs once at most, and one   *)
(* that runs is referenced by whoever resumed it.                          *)
ChainInv ==
  /\ Len(chain) > 0 /\ chain[1] = Main
  /\ \A i, j \in 1..Len(chain) : chain[i] = chain[j] => i = j
  /\ \A t \in Thread : status[t] = "active" <=> \E i \in 1..Len(chain) : chain[i] = t
  /\ \A t \in Thread : status[t] = "active" => t \in referenced

(* The stack of a call is its argument and its frame, above which a value  *)
(* is only while it travels.                                               *)
StackInv ==
  \A t \in Thread :
    stack[t] = IF call[t] = NoFrame THEN <<>> ELSE <<Arg(call[t]), Ud(call[t])>>

(* A thread in a call is alive and the only one in it. The body runs while *)
(* the thread does, and waits otherwise, until Lua collects both.          *)
CallInv ==
  \A t \in Thread : call[t] # NoFrame =>
    /\ \A u \in Thread : call[u] = call[t] => u = t
    /\ \/ status[t] = "active" /\ coro[call[t]] = "running"
       \/ status[t] = "suspended" /\ coro[call[t]] = "suspended"
       \/ status[t] = "suspended" /\ t \notin referenced /\ coro[call[t]] = "destroyed"

(* A body without a call does not run, and a frame that is destroyed was   *)
(* collected.                                                              *)
FrameInv ==
  \A f \in Frame :
    /\ coro[f] # "broken"
    /\ coro[f] = "running" => \E t \in Thread : call[t] = f
    /\ coro[f] = "destroyed" => f \in collected

ValueInv == \A f \in Frame : received[f] = [i \in 1..produced[f] |-> Val(i)]

IInv == TypeOK /\ ChainInv /\ StackInv /\ CallInv /\ FrameInv /\ ValueInv
-----------------------------------------------------------------------------
(* The chain of running threads.                                           *)

LEMMA FrontFacts ==
  ASSUME NEW S, NEW s \in Seq(S), Len(s) > 0
  PROVE  /\ Front(s) \in Seq(S) /\ Len(Front(s)) = Len(s) - 1
         /\ \A i \in 1..Len(s) - 1 : Front(s)[i] = s[i]
<1> DEFINE n == Len(s) - 1
<1>1. n \in Nat /\ 1 \in Int /\ n \in Int /\ \A i \in 1..n : s[i] \in S
  OBVIOUS
<1> HIDE DEF n
<1>2. /\ SubSeq(s, 1, n) \in Seq(S)
      /\ Len(SubSeq(s, 1, n)) = IF 1 <= n THEN n - 1 + 1 ELSE 0
      /\ \A i \in 1..n - 1 + 1 : SubSeq(s, 1, n)[i] = s[1 + i - 1]
  BY <1>1, SubSeqProperties
<1>3. Len(SubSeq(s, 1, n)) = n
  BY <1>1, <1>2
<1>4. \A i \in 1..n : SubSeq(s, 1, n)[i] = s[i]
  <2>1. \A i \in 1..n : i \in 1..n - 1 + 1 /\ 1 + i - 1 = i
    BY <1>1
  <2> QED BY <1>2, <2>1
<1> QED BY <1>2, <1>3, <1>4 DEF Front, n

LEMMA AppendedFacts ==
  ASSUME NEW S, NEW s \in Seq(S), NEW v \in S
  PROVE  Last(Append(s, v)) = v /\ Front(Append(s, v)) = s
<1>1. /\ Append(s, v) \in Seq(S) /\ Len(Append(s, v)) = Len(s) + 1 /\ Len(s) \in Nat
      /\ Append(s, v)[Len(s) + 1] = v /\ \A i \in 1..Len(s) : Append(s, v)[i] = s[i]
  BY AppendProperties
<1>2. Last(Append(s, v)) = v
  BY <1>1 DEF Last
<1>3. /\ Front(Append(s, v)) \in Seq(S) /\ Len(Front(Append(s, v))) = Len(s)
      /\ \A i \in 1..Len(s) : Front(Append(s, v))[i] = s[i]
  <2> DEFINE a == Append(s, v)
  <2>1. a \in Seq(S) /\ Len(a) > 0 /\ Len(a) = Len(s) + 1
    BY <1>1
  <2> HIDE DEF a
  <2>2. /\ Front(a) \in Seq(S) /\ Len(Front(a)) = Len(a) - 1
        /\ \A i \in 1..Len(a) - 1 : Front(a)[i] = a[i]
    BY ONLY <2>1, FrontFacts
  <2>3. Len(a) - 1 = Len(s)
    BY ONLY <2>1, <1>1
  <2>4. /\ Front(a) \in Seq(S) /\ Len(Front(a)) = Len(s)
        /\ \A i \in 1..Len(s) : Front(a)[i] = a[i]
    BY ONLY <2>2, <2>3, <1>1
  <2>5. \A i \in 1..Len(s) : a[i] = s[i]
    BY ONLY <1>1 DEF a
  <2> QED BY ONLY <2>4, <2>5 DEF a
<1>4. Front(Append(s, v)) = s
  BY <1>3, SeqEqual
<1> QED BY <1>2, <1>4

LEMMA RunningFacts ==
  ASSUME TypeOK, ChainInv
  PROVE  /\ Running \in Thread /\ status[Running] = "active" /\ Running \in referenced
         /\ Front(chain) \in Seq(Thread) /\ Len(Front(chain)) = Len(chain) - 1
         /\ \A i \in 1..Len(chain) - 1 : Front(chain)[i] = chain[i]
         /\ Range(chain) = {t \in Thread : status[t] = "active"}
<1>1. chain \in Seq(Thread) /\ Len(chain) \in Nat /\ Len(chain) > 0
  BY DEF TypeOK, ChainInv
<1>2. Running \in Thread /\ Running = chain[Len(chain)]
  BY <1>1 DEF Running, Last
<1>3. status[Running] = "active" /\ Running \in referenced
  BY <1>1, <1>2 DEF ChainInv
<1>4. /\ Front(chain) \in Seq(Thread) /\ Len(Front(chain)) = Len(chain) - 1
      /\ \A i \in 1..Len(chain) - 1 : Front(chain)[i] = chain[i]
  BY <1>1, FrontFacts
<1>5. Range(chain) = {t \in Thread : status[t] = "active"}
  BY <1>1 DEF Range, ChainInv
<1> QED BY <1>2, <1>3, <1>4, <1>5

(* A thread that enters the chain was suspended, so it is not yet there.   *)
LEMMA EnterChain ==
  ASSUME TypeOK, ChainInv, NEW t \in Thread, Resumable(t), EnterThread(t)
  PROVE  /\ ChainInv' /\ chain' \in Seq(Thread) /\ referenced' \in SUBSET Thread
         /\ status' \in [Thread -> {"suspended", "active", "dead"}]
<1>1. /\ chain' = Append(chain, t) /\ status' = [status EXCEPT ![t] = "active"]
      /\ referenced' = referenced /\ status[t] = "suspended" /\ t \in referenced
      /\ chain \in Seq(Thread) /\ Len(chain) \in Nat
      /\ status \in [Thread -> {"suspended", "active", "dead"}]
  BY DEF EnterThread, Resumable, TypeOK
<1>2. /\ chain' \in Seq(Thread) /\ Len(chain') = Len(chain) + 1 /\ chain'[Len(chain) + 1] = t
      /\ \A i \in 1..Len(chain) : chain'[i] = chain[i]
  BY <1>1
<1>3. \A i \in 1..Len(chain) : chain[i] # t
  BY <1>1 DEF ChainInv
<1>4. Len(chain') > 0 /\ chain'[1] = Main
  BY <1>2, <1>1 DEF ChainInv
<1>5. \A i, j \in 1..Len(chain') : chain'[i] = chain'[j] => i = j
  BY <1>1, <1>2, <1>3 DEF ChainInv
<1>6. \A u \in Thread : status'[u] = "active" <=> \E i \in 1..Len(chain') : chain'[i] = u
  <2>1. ASSUME NEW u \in Thread, u # t
        PROVE  status'[u] = "active" <=> \E i \in 1..Len(chain') : chain'[i] = u
    <3>1. status'[u] = "active" <=> \E i \in 1..Len(chain) : chain[i] = u
      BY <1>1, <2>1 DEF ChainInv
    <3> QED BY <1>1, <1>2, <2>1, <3>1
  <2>2. status'[t] = "active" /\ Len(chain') \in 1..Len(chain') /\ chain'[Len(chain')] = t
    BY <1>1, <1>2
  <2> QED BY <2>1, <2>2
<1>7. \A u \in Thread : status'[u] = "active" => u \in referenced'
  BY <1>1 DEF ChainInv
<1> QED BY <1>1, <1>2, <1>4, <1>5, <1>6, <1>7 DEF ChainInv, TypeOK

LEMMA LeaveChain ==
  ASSUME TypeOK, ChainInv, Running # Main, NEW s \in {"suspended", "dead"}, LeaveThread(s)
  PROVE  /\ ChainInv' /\ chain' \in Seq(Thread) /\ referenced' \in SUBSET Thread
         /\ status' \in [Thread -> {"suspended", "active", "dead"}]
<1> DEFINE n == Len(chain)
<1>1. /\ chain' = Front(chain) /\ status' = [status EXCEPT ![Running] = s]
      /\ referenced' = referenced /\ chain \in Seq(Thread) /\ n \in Nat /\ n > 0
      /\ status \in [Thread -> {"suspended", "active", "dead"}] /\ Running = chain[n]
  BY DEF LeaveThread, TypeOK, ChainInv, Running, Last
<1>2. /\ chain' \in Seq(Thread) /\ Len(chain') = n - 1 /\ Running \in Thread
      /\ \A i \in 1..n - 1 : chain'[i] = chain[i]
  BY <1>1, RunningFacts
<1>3. n # 1 /\ chain[1] = Main
  BY <1>1 DEF ChainInv
<1>4. Len(chain') > 0 /\ chain'[1] = Main
  BY <1>1, <1>2, <1>3
<1>5. \A i, j \in 1..Len(chain') : chain'[i] = chain'[j] => i = j
  BY <1>1, <1>2 DEF ChainInv
<1>6. \A i \in 1..n - 1 : chain[i] # Running
  BY <1>1 DEF ChainInv
<1>7. \A u \in Thread : status'[u] = "active" <=> \E i \in 1..Len(chain') : chain'[i] = u
  <2>1. ASSUME NEW u \in Thread, u # Running
        PROVE  status'[u] = "active" <=> \E i \in 1..Len(chain') : chain'[i] = u
    <3>1. status'[u] = "active" <=> \E i \in 1..n : chain[i] = u
      BY <1>1, <1>2, <2>1 DEF ChainInv
    <3> QED BY SMTT(20), <1>1, <1>2, <2>1, <3>1
  <2>2. status'[Running] # "active" /\ ~ \E i \in 1..Len(chain') : chain'[i] = Running
    BY <1>1, <1>2, <1>6
  <2> QED BY <2>1, <2>2
<1>8. \A u \in Thread : status'[u] = "active" => u \in referenced'
  BY <1>1, <1>2 DEF ChainInv
<1> QED BY <1>1, <1>2, <1>4, <1>5, <1>7, <1>8 DEF ChainInv, TypeOK
-----------------------------------------------------------------------------
(* Steps of threads.                                                       *)

LEMMA ResumeLuaStep ==
  ASSUME IInv, NEW t \in Thread, ResumeLua(t)
  PROVE  IInv'
<1>1. /\ Resumable(t) /\ EnterThread(t) /\ call[t] = NoFrame
      /\ UNCHANGED <<call, stack, coro, collected, produced, received>>
  BY DEF ResumeLua
<1>2. status' = [status EXCEPT ![t] = "active"] /\ referenced' = referenced /\ TypeOK
  BY <1>1 DEF EnterThread, IInv
<1>3. ChainInv' /\ TypeOK'
  BY <1>1, EnterChain DEF IInv, TypeOK
<1>4. StackInv' /\ FrameInv' /\ ValueInv'
  BY <1>1 DEF IInv, StackInv, FrameInv, ValueInv
<1>5. CallInv'
  BY <1>1, <1>2 DEF IInv, CallInv, TypeOK
<1> QED BY <1>3, <1>4, <1>5 DEF IInv

(* The body of a thread that Lua may resume waits in its frame.            *)
LEMMA ResumeBodyStep ==
  ASSUME IInv, NEW t \in Thread, ResumeBody(t)
  PROVE  IInv'
<1> DEFINE f == call[t]
<1>1. /\ Resumable(t) /\ EnterThread(t) /\ f # NoFrame
      /\ coro' = Resumed(f) /\ UNCHANGED <<call, collected, produced, received>>
      /\ \E extra \in {<<>>, <<ResumeArg>>} :
            stack' = [stack EXCEPT ![t] = SetTop(@ \o extra, FrameIndex)]
  BY DEF ResumeBody
<1>2. /\ TypeOK /\ status' = [status EXCEPT ![t] = "active"] /\ referenced' = referenced
      /\ f \in Frame
  BY <1>1 DEF EnterThread, IInv, TypeOK
<1>3. coro[f] = "suspended"
  BY <1>1 DEF IInv, CallInv, Resumable
<1>4. coro' = [coro EXCEPT ![f] = "running"]
  BY <1>1, <1>2, <1>3 DEF Resumed, TypeOK
<1>5. stack' = stack
  <2>1. stack[t] = <<Arg(f), Ud(f)>> /\ stack \in [Thread -> Seq(Slot)]
    BY <1>1, <1>2 DEF IInv, StackInv, TypeOK
  <2>2. ASSUME NEW extra \in {<<>>, <<ResumeArg>>}
        PROVE  SetTop(stack[t] \o extra, FrameIndex) = stack[t]
    <3>1. CASE extra = <<>>
      BY <2>1, <3>1 DEF SetTop, FrameIndex, ArgsTop
    <3>2. CASE extra = <<ResumeArg>>
      BY <2>1, <3>2 DEF SetTop, FrameIndex, ArgsTop
    <3> QED BY <3>1, <3>2
  <2> QED BY <1>1, <2>1, <2>2
<1>6. ChainInv' /\ TypeOK'
  BY <1>1, <1>2, <1>4, <1>5, EnterChain DEF IInv, TypeOK, FrameStates
<1>7. StackInv' /\ ValueInv'
  BY <1>1, <1>5 DEF IInv, StackInv, ValueInv
<1>8. CallInv'
  BY <1>1, <1>2, <1>3, <1>4 DEF IInv, CallInv, TypeOK
<1>9. FrameInv'
  BY <1>1, <1>2, <1>4 DEF IInv, FrameInv, TypeOK
<1> QED BY <1>6, <1>7, <1>8, <1>9 DEF IInv

LEMMA LeaveLuaStep ==
  ASSUME IInv, NEW s \in {"suspended", "dead"}, LeaveLua(s)
  PROVE  IInv'
<1>1. /\ Running # Main /\ LeaveThread(s) /\ call[Running] = NoFrame
      /\ UNCHANGED <<call, stack, coro, collected, produced, received>>
  BY DEF LeaveLua
<1>2. status' = [status EXCEPT ![Running] = s] /\ referenced' = referenced /\ TypeOK
  BY <1>1 DEF LeaveThread, IInv
<1>3. ChainInv' /\ TypeOK'
  BY <1>1, LeaveChain DEF IInv, TypeOK
<1>4. StackInv' /\ FrameInv' /\ ValueInv'
  BY <1>1 DEF IInv, StackInv, FrameInv, ValueInv
<1>5. CallInv'
  BY <1>1, <1>2 DEF IInv, CallInv, TypeOK
<1> QED BY <1>3, <1>4, <1>5 DEF IInv

LEMMA DropStep ==
  ASSUME IInv, NEW t \in Thread, Drop(t)
  PROVE  IInv'
<1>1. /\ referenced' = referenced \ {t} /\ t \notin Range(chain)
      /\ UNCHANGED <<chain, status, call, stack, coro, collected, produced, received>>
  BY DEF Drop
<1>2. status[t] # "active"
  BY <1>1, RunningFacts DEF IInv
<1>3. TypeOK' /\ ChainInv'
  BY <1>1, <1>2 DEF IInv, TypeOK, ChainInv
<1>4. StackInv' /\ FrameInv' /\ ValueInv'
  BY <1>1 DEF IInv, StackInv, FrameInv, ValueInv
<1>5. CallInv'
  BY <1>1 DEF IInv, CallInv
<1> QED BY <1>3, <1>4, <1>5 DEF IInv

LEMMA CloseStep ==
  ASSUME IInv, NEW t \in Thread, Close(t)
  PROVE  IInv'
<1>1. /\ status[t] = "suspended" /\ status' = [status EXCEPT ![t] = "dead"]
      /\ call' = [call EXCEPT ![t] = NoFrame] /\ stack' = [stack EXCEPT ![t] = <<>>]
      /\ UNCHANGED <<chain, referenced, coro, collected, produced, received>> /\ TypeOK
  BY DEF Close, Resumable, IInv
<1>2. TypeOK'
  BY <1>1 DEF TypeOK
<1>3. ChainInv'
  BY <1>1 DEF IInv, TypeOK, ChainInv
<1>4. StackInv' /\ ValueInv'
  BY <1>1 DEF IInv, StackInv, ValueInv, TypeOK
<1>5. CallInv'
  BY <1>1 DEF IInv, CallInv, TypeOK
<1>6. FrameInv'
  <2>1. \A f \in Frame : coro[f] = "running" => call[t] # f
    <3>1. CallInv /\ status[t] # "active"
      BY <1>1 DEF IInv
    <3>2. call[t] # NoFrame => coro[call[t]] # "running"
      BY ONLY <3>1, t \in Thread DEF CallInv
    <3> QED BY ONLY <3>2, CoroutineAssumption
  <2> QED BY <1>1, <2>1 DEF IInv, FrameInv, TypeOK
<1> QED BY <1>2, <1>3, <1>4, <1>5, <1>6 DEF IInv
-----------------------------------------------------------------------------
(* Steps of coroutines.                                                    *)

LEMMA EnterStep ==
  ASSUME IInv, NEW f \in Frame, Enter(f)
  PROVE  IInv'
<1>1. PICK t \in Thread : t = Running /\ status[t] = "active"
  BY RunningFacts DEF IInv
<1>2. /\ coro[f] = "unused" /\ call[t] = NoFrame
      /\ call' = [call EXCEPT ![t] = f] /\ stack' = [stack EXCEPT ![t] = <<Arg(f), Ud(f)>>]
      /\ coro' = [coro EXCEPT ![f] = "running"] /\ TypeOK
      /\ UNCHANGED <<chain, status, referenced, collected, produced, received>>
  BY <1>1 DEF Enter, threads, IInv
<1>3. \A u \in Thread : call[u] # f
  BY <1>2, CoroutineAssumption DEF IInv, CallInv
<1>4. TypeOK'
  <2>1. Arg(f) \in Slot /\ Ud(f) \in Slot
    BY DEF Arg, Ud, Slot
  <2>2. <<Arg(f), Ud(f)>> \in Seq(Slot)
    BY <2>1
  <2> QED BY <1>2, <2>2 DEF TypeOK, FrameStates
<1>5. ChainInv' /\ ValueInv'
  BY <1>2 DEF IInv, ChainInv, ValueInv
<1>6. StackInv'
  BY <1>2, CoroutineAssumption DEF IInv, StackInv, TypeOK
<1>7. CallInv'
  BY <1>1, <1>2, <1>3 DEF IInv, CallInv, TypeOK
<1>8. FrameInv'
  <2>1. \A g \in Frame : \A u \in Thread : call[u] = g => call'[u] = g
    BY <1>2, CoroutineAssumption DEF TypeOK
  <2>2. call'[t] = f /\ coro'[f] = "running" /\ \A g \in Frame \ {f} : coro'[g] = coro[g]
    BY <1>2 DEF TypeOK
  <2> QED BY <1>2, <2>1, <2>2 DEF IInv, FrameInv
<1> QED BY <1>4, <1>5, <1>6, <1>7, <1>8 DEF IInv

(* The body that runs is the one of the running thread.                    *)
LEMMA BodyFacts ==
  ASSUME IInv, NEW f \in Frame, Body(f)
  PROVE  /\ Running \in Thread /\ status[Running] = "active" /\ Running \in referenced
         /\ call[Running] = f /\ coro[f] = "running" /\ f # NoFrame
         /\ stack[Running] = <<Arg(f), Ud(f)>>
         /\ \A u \in Thread : call[u] = f => u = Running
<1>1. Running \in Thread /\ status[Running] = "active" /\ Running \in referenced
  BY RunningFacts DEF IInv
<1> QED BY <1>1, CoroutineAssumption DEF Body, IInv, CallInv, StackInv

(* The call of a coroutine is over, with a result or an error: the thread  *)
(* goes on, or dies of the error.                                          *)
LEMMA CallEnds ==
  ASSUME IInv, NEW f \in Frame, Body(f), NEW s \in {"suspended", "done"},
         coro' = [coro EXCEPT ![f] = s],
         call' = [call EXCEPT ![Running] = NoFrame], stack' = [stack EXCEPT ![Running] = <<>>],
         UNCHANGED threads \/ (Running # Main /\ LeaveThread("dead")),
         UNCHANGED collected,
         produced' \in [Frame -> 0..MaxValues], received' \in [Frame -> Seq(Slot)], ValueInv'
  PROVE  IInv'
<1>1. PICK t \in Thread : /\ t = Running /\ status[t] = "active" /\ call[t] = f
                          /\ coro[f] = "running" /\ \A u \in Thread : call[u] = f => u = t
  BY BodyFacts
<1>2. /\ TypeOK /\ call' = [call EXCEPT ![t] = NoFrame]
      /\ stack' = [stack EXCEPT ![t] = <<>>]
  BY <1>1 DEF IInv
<1>3. /\ ChainInv' /\ chain' \in Seq(Thread) /\ referenced' \in SUBSET Thread
      /\ status' \in [Thread -> {"suspended", "active", "dead"}]
      /\ referenced' = referenced /\ \A u \in Thread \ {t} : status'[u] = status[u]
  <2>1. CASE UNCHANGED threads
    BY <2>1 DEF threads, IInv, TypeOK, ChainInv
  <2>2. CASE Running # Main /\ LeaveThread("dead")
    BY <1>1, <1>2, <2>2, LeaveChain DEF IInv, LeaveThread, TypeOK
  <2> QED BY <2>1, <2>2
<1>4. TypeOK'
  <2>1. coro' \in [Frame -> FrameStates]
    BY <1>2 DEF TypeOK, FrameStates
  <2>2. call' \in [Thread -> Frame \union {NoFrame}]
    BY <1>2 DEF TypeOK
  <2>3. stack' \in [Thread -> Seq(Slot)]
    <3>1. <<>> \in Seq(Slot)
      OBVIOUS
    <3> QED BY <1>2, <3>1 DEF TypeOK
  <2> QED BY <1>2, <1>3, <2>1, <2>2, <2>3 DEF TypeOK
<1>5. StackInv'
  BY <1>2 DEF IInv, StackInv, TypeOK
<1>6. CallInv'
  BY <1>1, <1>2, <1>3 DEF IInv, CallInv, TypeOK
<1>7. FrameInv'
  BY <1>1, <1>2 DEF IInv, FrameInv, TypeOK
<1> QED BY <1>3, <1>4, <1>5, <1>6, <1>7 DEF IInv

(* The values that arrived, and one more.                                  *)
LEMMA ValueArrives ==
  ASSUME IInv, NEW f \in Frame, produced[f] < MaxValues,
         produced' = [produced EXCEPT ![f] = @ + 1],
         received' = [received EXCEPT ![f] = Append(@, Val(produced[f] + 1))]
  PROVE  /\ produced' \in [Frame -> 0..MaxValues] /\ received' \in [Frame -> Seq(Slot)]
         /\ ValueInv'
<1> DEFINE n == produced[f]
<1>1. /\ TypeOK /\ n \in Nat /\ n + 1 \in 1..MaxValues
      /\ received[f] = [i \in 1..n |-> Val(i)] /\ received[f] \in Seq(Slot)
  BY CoroutineAssumption DEF IInv, TypeOK, ValueInv
<1>2. Val(n + 1) \in Slot
  BY <1>1 DEF Val, Slot
<1>3. produced' \in [Frame -> 0..MaxValues] /\ received' \in [Frame -> Seq(Slot)]
  BY <1>1, <1>2 DEF TypeOK
<1>4. Append(received[f], Val(n + 1)) = [i \in 1..n + 1 |-> Val(i)]
  BY <1>1
<1>5. ValueInv'
  BY <1>1, <1>4 DEF IInv, ValueInv, TypeOK
<1> QED BY <1>3, <1>5

LEMMA BodyYieldStep ==
  ASSUME IInv, NEW f \in Frame, BodyYield(f)
  PROVE  IInv'
<1>1. /\ Body(f) /\ Running # Main /\ LeaveThread("suspended") /\ UNCHANGED <<call, collected>>
      /\ coro' = [coro EXCEPT ![f] = "suspended"] /\ produced[f] < MaxValues
      /\ produced' = [produced EXCEPT ![f] = @ + 1]
  BY DEF BodyYield
<1>2. PICK t \in Thread : /\ t = Running /\ status[t] = "active" /\ call[t] = f /\ t \in referenced
                          /\ coro[f] = "running" /\ stack[t] = <<Arg(f), Ud(f)>> /\ f # NoFrame
                          /\ \A u \in Thread : call[u] = f => u = t
  BY <1>1, BodyFacts
<1> DEFINE v == Val(produced[f] + 1)
           s == Append(stack[t], v)
<1>3. Last(s) = v /\ Front(s) = stack[t]
  <2>1. produced[f] + 1 \in 1..MaxValues /\ stack[t] \in Seq(Slot)
    BY <1>1, CoroutineAssumption DEF IInv, TypeOK
  <2>2. v \in Slot
    BY <2>1 DEF Val, Slot
  <2> QED BY <2>1, <2>2, AppendedFacts
<1>4. /\ received' = [received EXCEPT ![f] = Append(@, v)]
      /\ stack' = [stack EXCEPT ![t] = stack[t]] /\ TypeOK
  BY <1>2, <1>3 DEF BodyYield, Result, IInv
<1>5. /\ produced' \in [Frame -> 0..MaxValues] /\ received' \in [Frame -> Seq(Slot)]
      /\ ValueInv' /\ stack' = stack
  BY <1>1, <1>4, ValueArrives DEF TypeOK
<1>6. status' = [status EXCEPT ![t] = "suspended"] /\ referenced' = referenced
  BY <1>1, <1>2 DEF LeaveThread
<1>7. TypeOK' /\ ChainInv'
  BY <1>1, <1>5, LeaveChain DEF IInv, TypeOK, FrameStates
<1>8. StackInv'
  BY <1>1, <1>5 DEF IInv, StackInv
<1>9. CallInv'
  BY <1>1, <1>2, <1>4, <1>6 DEF IInv, CallInv, TypeOK
<1>10. FrameInv'
  BY <1>1, <1>4 DEF IInv, FrameInv, TypeOK
<1> QED BY <1>5, <1>7, <1>8, <1>9, <1>10 DEF IInv

LEMMA BodyEndsStep ==
  ASSUME IInv, NEW f \in Frame,
         BodyYieldFails(f) \/ BodyReturn(f) \/ BodyReturnVoid(f) \/ BodyThrows(f)
  PROVE  IInv'
<1>1. Body(f) /\ TypeOK
  BY DEF BodyYieldFails, BodyReturn, BodyReturnVoid, BodyThrows, IInv
<1>2. CASE BodyReturn(f)
  <2>1. /\ produced[f] < MaxValues /\ produced' = [produced EXCEPT ![f] = @ + 1]
        /\ call' = [call EXCEPT ![Running] = NoFrame]
        /\ stack' = [stack EXCEPT ![Running] = <<>>]
        /\ coro' = [coro EXCEPT ![f] = "done"] /\ UNCHANGED <<threads, collected>>
    BY <1>2 DEF BodyReturn
  <2> DEFINE v == Val(produced[f] + 1)
             s == Append(stack[Running], v)
  <2>2. Last([Front(s) EXCEPT ![FrameIndex] = Last(s)]) = v
    <3>1. stack[Running] = <<Arg(f), Ud(f)>>
      BY <1>1, BodyFacts
    <3>2. /\ produced[f] + 1 \in 1..MaxValues /\ Running \in Thread
          /\ stack[Running] \in Seq(Slot)
      BY <1>1, <2>1, BodyFacts, CoroutineAssumption DEF TypeOK
    <3>3. v \in Slot
      BY <3>2 DEF Val, Slot
    <3>4. Last(s) = v /\ Front(s) = <<Arg(f), Ud(f)>>
      BY <3>1, <3>2, <3>3, AppendedFacts
    <3>5. [<<Arg(f), Ud(f)>> EXCEPT ![2] = v] = <<Arg(f), v>>
      OBVIOUS
    <3> QED BY <3>4, <3>5 DEF Last, FrameIndex, ArgsTop
  <2>3. received' = [received EXCEPT ![f] = Append(@, v)]
    BY <1>2, <2>2 DEF BodyReturn, Result
  <2> QED BY <1>1, <2>1, <2>3, CallEnds, ValueArrives
<1>3. CASE BodyYieldFails(f) \/ BodyReturnVoid(f) \/ BodyThrows(f)
  <2>1. /\ UNCHANGED <<collected, produced, received>>
        /\ call' = [call EXCEPT ![Running] = NoFrame]
        /\ stack' = [stack EXCEPT ![Running] = <<>>]
        /\ UNCHANGED threads \/ (Running # Main /\ LeaveThread("dead"))
        /\ \E s \in {"suspended", "done"} : coro' = [coro EXCEPT ![f] = s]
    BY <1>3 DEF BodyYieldFails, BodyReturnVoid, BodyThrows, Abort
  <2>2. ValueInv'
    BY <2>1 DEF IInv, ValueInv
  <2> QED BY <1>1, <2>1, <2>2, CallEnds DEF TypeOK
<1> QED BY <1>2, <1>3

(* Lua does not collect the frame of a body that runs: it is on the stack  *)
(* of a thread that runs.                                                  *)
LEMMA CollectStep ==
  ASSUME IInv, NEW f \in Frame, Collect(f)
  PROVE  IInv'
<1>1. /\ coro[f] # "unused" /\ f \notin collected /\ ~OnStack(f)
      /\ collected' = collected \union {f} /\ coro' = Destructor(f) /\ TypeOK
      /\ UNCHANGED <<chain, status, referenced, call, stack, produced, received>>
  BY DEF Collect, Garbage, threads, IInv
<1>2. \A t \in Thread : call[t] = f => t \notin referenced /\ status[t] # "active"
  <2> SUFFICES ASSUME NEW t \in Thread, call[t] = f
               PROVE  t \notin referenced /\ status[t] # "active"
    OBVIOUS
  <2>1. stack[t] = <<Arg(f), Ud(f)>>
    BY CoroutineAssumption DEF IInv, StackInv
  <2>2. Ud(f) \in Range(stack[t])
    BY <2>1 DEF Range
  <2>3. t \notin referenced
    BY <1>1, <2>2 DEF OnStack
  <2> QED BY <2>3 DEF IInv, ChainInv
<1>3. coro[f] \in {"suspended", "done"}
  <2>1. coro[f] # "running"
    BY <1>2, CoroutineAssumption DEF IInv, FrameInv, CallInv
  <2> QED BY <1>1, <2>1 DEF IInv, FrameInv, TypeOK, FrameStates
<1>4. coro' = [coro EXCEPT ![f] = IF @ = "suspended" THEN "destroyed" ELSE "done"]
  BY <1>1, <1>3 DEF Destructor, TypeOK
<1>5. TypeOK'
  BY <1>1, <1>4 DEF TypeOK, FrameStates
<1>6. ChainInv' /\ StackInv' /\ ValueInv'
  BY <1>1 DEF IInv, ChainInv, StackInv, ValueInv
<1>7. CallInv'
  BY <1>1, <1>2, <1>3, <1>4 DEF IInv, CallInv, TypeOK
<1>8. FrameInv'
  BY <1>1, <1>3, <1>4 DEF IInv, FrameInv, TypeOK
<1> QED BY <1>5, <1>6, <1>7, <1>8 DEF IInv
-----------------------------------------------------------------------------
(* The invariant, and what follows from it.                                *)

LEMMA InitInvariant == Init => IInv
<1> SUFFICES ASSUME Init PROVE IInv
  OBVIOUS
<1>1. TypeOK
  BY CoroutineAssumption DEF Init, TypeOK, FrameStates
<1>2. ChainInv
  BY CoroutineAssumption DEF Init, ChainInv
<1>3. StackInv /\ CallInv /\ FrameInv /\ ValueInv
  BY DEF Init, StackInv, CallInv, FrameInv, ValueInv
<1> QED BY <1>1, <1>2, <1>3 DEF IInv

(* The inductive invariant holds in every reachable state.                 *)
THEOREM FramesInvariant == Spec => []IInv
<1>1. IInv /\ [Next]_vars => IInv'
  <2> SUFFICES ASSUME IInv, [Next]_vars PROVE IInv'
    OBVIOUS
  <2>1. CASE UNCHANGED vars
    BY <2>1 DEF vars, threads, IInv, TypeOK, ChainInv, StackInv, CallInv, FrameInv, ValueInv
  <2> QED BY <2>1, ResumeLuaStep, ResumeBodyStep, LeaveLuaStep, DropStep, CloseStep,
             EnterStep, BodyYieldStep, BodyEndsStep, CollectStep DEF Next, InCall
<1> QED BY InitInvariant, <1>1, PTL DEF Spec

(* No coroutine is resumed when it is not suspended, nor destroyed while   *)
(* it runs, whichever threads are resumed, dropped and closed meanwhile.   *)
THEOREM FramesNeverBroken == Spec => []NeverBroken
<1>1. IInv => NeverBroken
  BY DEF IInv, FrameInv, NeverBroken
<1> QED BY FramesInvariant, <1>1, PTL

(* A body runs exactly when its thread is in the chain and in its call,    *)
(* and no thread is in the chain twice.                                    *)
THEOREM BodiesAreNested == Spec => []BodiesNest
<1>1. IInv => BodiesNest
  <2> SUFFICES ASSUME IInv PROVE BodiesNest
    OBVIOUS
  <2>1. Range(chain) = {t \in Thread : status[t] = "active"} /\ chain \in Seq(Thread)
    BY RunningFacts DEF IInv, TypeOK
  <2>2. IsInjective(chain)
    BY <2>1 DEF IsInjective, IInv, ChainInv
  <2>3. \A f \in Frame : coro[f] = "running" <=> \E t \in Range(chain) : call[t] = f
    BY <2>1, CoroutineAssumption DEF IInv, CallInv, FrameInv
  <2> QED BY <2>1, <2>2, <2>3 DEF BodiesNest
<1> QED BY FramesInvariant, <1>1, PTL

(* The values of a body reach those that resume it in order, once each,    *)
(* and nothing else does.                                                  *)
THEOREM ValuesArriveInOrder == Spec => []ValuesInOrder
<1>1. IInv => ValuesInOrder
  BY DEF IInv, ValueInv, ValuesInOrder
<1> QED BY FramesInvariant, <1>1, PTL

(* The object a coroutine was called on stays on the stack as long as the  *)
(* body may run.                                                           *)
THEOREM ArgumentsAnchored == Spec => []ArgumentAnchored
<1>1. IInv => ArgumentAnchored
  <2> SUFFICES ASSUME IInv, NEW t \in Thread, call[t] # NoFrame
               PROVE  IsPrefix(<<Arg(call[t]), Ud(call[t])>>, stack[t])
    BY DEF ArgumentAnchored
  <2>1. stack[t] = <<Arg(call[t]), Ud(call[t])>>
    BY DEF IInv, StackInv
  <2> QED BY <2>1 DEF IsPrefix
<1> QED BY FramesInvariant, <1>1, PTL
=============================================================================
