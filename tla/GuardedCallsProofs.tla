-------------------------- MODULE GuardedCallsProofs --------------------------
(***************************************************************************)
(* The guards and the lock of compiled functions do what they promise for  *)
(* any number of contracts and functions and any depth of calls, whatever  *)
(* foreign code does and wherever calls revert.                            *)
(***************************************************************************)
EXTENDS GuardedCalls, SequenceTheorems, TLAPS

Frames ==
  {fr \in [contract : Contract \cup {Foreign}, function : Function \cup {Foreign},
           lock : [Contract -> 0 .. 1], flag : [Contract -> 0 .. 1],
           runs : [Contract -> Nat]] :
     fr.contract # Foreign => fr.function \in Function}

FramesOK ==
  /\ lock \in [Contract -> 0 .. 1]
  /\ flag \in [Contract -> 0 .. 1]
  /\ runs \in [Contract -> Nat]
  /\ stack \in Seq(Frames)
  /\ failed \in BOOLEAN
  /\ failed => stack # <<>>

\* A locked function of c runs among the n outermost of these frames.
RunningBelow(frames, c, n) == \E i \in 1 .. n : IsGuarded(frames[i], c)

\* A revert restores what its frame saved, so the claims about the present
\* state have to hold of every saved state too, with respect to the frames
\* that were on the stack when it was saved.
LocksMatch ==
  \A c \in Contract :
    /\ lock[c] = 1 <=> RunningBelow(stack, c, Len(stack))
    /\ \A j \in 1 .. Len(stack) : stack[j].lock[c] = 1 <=> RunningBelow(stack, c, j - 1)

RunsMatch ==
  \A c \in Contract :
    /\ runs[c] = flag[c]
    /\ \A j \in 1 .. Len(stack) : stack[j].runs[c] = stack[j].flag[c]

IInv == FramesOK /\ NoGuardedReentry /\ LocksMatch /\ RunsMatch

\* Nothing runs, nothing is locked, nothing is initialized.
LEMMA InitIInv == Init => IInv
  <1> SUFFICES ASSUME Init PROVE IInv
    OBVIOUS
  <1>1. stack = <<>> /\ stack \in Seq(Frames) /\ Len(stack) = 0
    BY DEF Init
  <1>2. FramesOK
    <2>1. failed \in BOOLEAN /\ ~failed
      BY DEF Init
    <2>2. /\ lock \in [Contract -> 0 .. 1]
          /\ flag \in [Contract -> 0 .. 1]
          /\ runs \in [Contract -> Nat]
      BY DEF Init
    <2> QED BY <1>1, <2>1, <2>2 DEF FramesOK
  <1>3. NoGuardedReentry
    BY <1>1 DEF NoGuardedReentry, GuardedDepths
  <1>4. LocksMatch
    BY <1>1 DEF Init, LocksMatch, RunningBelow
  <1>5. RunsMatch
    BY <1>1 DEF Init, RunsMatch
  <1> QED BY <1>2, <1>3, <1>4, <1>5 DEF IInv

\* Steps that leave the storage and the stack alone.
LEMMA QuietIInv ==
  ASSUME IInv, UNCHANGED <<lock, flag, runs, stack>>,
         failed' \in BOOLEAN, failed' => stack # <<>>
  PROVE  IInv'
  BY DEF IInv, FramesOK, NoGuardedReentry, GuardedDepths, LocksMatch, RunsMatch,
         RunningBelow, IsGuarded

\* A frame pushed: what the older frames saved still matches.
LEMMA PushedFrame ==
  ASSUME IInv, NEW fr \in Frames, stack' = Append(stack, fr)
  PROVE  /\ stack' \in Seq(Frames)
         /\ Len(stack') = Len(stack) + 1
         /\ Len(stack) \in Nat
         /\ \A i \in 1 .. Len(stack) : stack'[i] = stack[i]
         /\ stack'[Len(stack) + 1] = fr
         /\ \A c \in Contract, n \in 0 .. Len(stack) :
              RunningBelow(stack', c, n) <=> RunningBelow(stack, c, n)
         /\ \A c \in Contract :
              RunningBelow(stack', c, Len(stack')) <=>
                RunningBelow(stack, c, Len(stack)) \/ IsGuarded(fr, c)
  <1>1. /\ stack \in Seq(Frames)
        /\ Len(stack) \in Nat
    BY DEF IInv, FramesOK
  <1>2. /\ stack' \in Seq(Frames)
        /\ Len(stack') = Len(stack) + 1
        /\ \A i \in 1 .. Len(stack) : stack'[i] = stack[i]
        /\ stack'[Len(stack) + 1] = fr
    BY <1>1, AppendProperties
  <1>3. \A c \in Contract, n \in 0 .. Len(stack) :
          RunningBelow(stack', c, n) <=> RunningBelow(stack, c, n)
    <2> TAKE c \in Contract, n \in 0 .. Len(stack)
    <2>1. \A i \in 1 .. n : stack'[i] = stack[i]
      BY <1>1, <1>2
    <2> QED BY <2>1 DEF RunningBelow, IsGuarded
  <1>4. \A c \in Contract :
          RunningBelow(stack', c, Len(stack')) <=>
            RunningBelow(stack, c, Len(stack)) \/ IsGuarded(fr, c)
    <2> TAKE c \in Contract
    <2>1. 1 .. Len(stack') = (1 .. Len(stack)) \cup {Len(stack) + 1}
      BY <1>1, <1>2
    <2>2. ASSUME NEW i \in 1 .. Len(stack) + 1
          PROVE  IsGuarded(stack'[i], c) <=>
                   (i \in 1 .. Len(stack) /\ IsGuarded(stack[i], c))
                     \/ (i = Len(stack) + 1 /\ IsGuarded(fr, c))
      BY <1>1, <1>2 DEF IsGuarded
    <2> QED BY <1>1, <1>2, <2>1, <2>2 DEF RunningBelow
  <1> QED BY <1>1, <1>2, <1>3, <1>4

\* The frame pushed saves the present state, which matches the frames below.
LEMMA PushKeepsOldClaims ==
  ASSUME IInv, NEW fr \in Frames, stack' = Append(stack, fr),
         fr.lock = lock, fr.flag = flag, fr.runs = runs, NEW c \in Contract
  PROVE  \A j \in 1 .. Len(stack') :
           /\ stack'[j].lock[c] = 1 <=> RunningBelow(stack', c, j - 1)
           /\ stack'[j].runs[c] = stack'[j].flag[c]
  <1> TAKE j \in 1 .. Len(stack')
  <1>1. CASE j \in 1 .. Len(stack)
    <2>1. j - 1 \in 0 .. Len(stack)
      BY <1>1, PushedFrame
    <2>2. RunningBelow(stack', c, j - 1) <=> RunningBelow(stack, c, j - 1)
      BY <2>1, PushedFrame
    <2>3. stack'[j] = stack[j]
      BY <1>1, PushedFrame
    <2> QED BY <1>1, <2>2, <2>3 DEF IInv, LocksMatch, RunsMatch
  <1>2. CASE j = Len(stack) + 1
    <2>1. stack'[j] = fr /\ j - 1 = Len(stack) /\ Len(stack) \in 0 .. Len(stack)
      BY <1>2, PushedFrame
    <2>2. RunningBelow(stack', c, j - 1) <=> RunningBelow(stack, c, Len(stack))
      BY <2>1, PushedFrame
    <2> QED BY <2>1, <2>2 DEF IInv, LocksMatch, RunsMatch
  <1> QED BY <1>1, <1>2, PushedFrame

\* A guard that passes takes a free lock, or spends an unspent initializer.
LEMMA EnterIInv ==
  ASSUME IInv, NEW c \in Contract, NEW f \in Function, Enter(c, f)
  PROVE  IInv'
  <1> DEFINE fr == Frame(c, f)
  <1>1. fr \in Frames /\ stack' = Append(stack, fr)
    BY DEF IInv, FramesOK, Frames, Frame, Enter
  <1>2. fr.contract = c /\ fr.function = f
        /\ fr.lock = lock /\ fr.flag = flag /\ fr.runs = runs
    BY DEF Frame
  <1> HIDE DEF fr
  <1>3. FramesOK'
    <2>1. /\ lock' \in [Contract -> 0 .. 1]
          /\ flag' \in [Contract -> 0 .. 1]
          /\ runs' \in [Contract -> Nat]
      BY DEF IInv, FramesOK, Enter
    <2>2. stack' \in Seq(Frames) /\ stack' # <<>>
      BY <1>1, PushedFrame
    <2> QED BY <2>1, <2>2 DEF IInv, FramesOK, Enter
  <1>4. \A d \in Contract : IsGuarded(fr, d) <=> d = c /\ f \in NonReentrant
    BY <1>2 DEF IsGuarded
  <1>5. f \in NonReentrant => ~RunningBelow(stack, c, Len(stack))
    BY DEF IInv, LocksMatch, Enter, emit_reentrant_lock_acquire
  <1>6. NoGuardedReentry'
    <2> SUFFICES ASSUME NEW d \in Contract, NEW i \in GuardedDepths(d)',
                        NEW j \in GuardedDepths(d)'
                 PROVE  i = j
      BY DEF NoGuardedReentry
    <2>1. /\ i \in 1 .. Len(stack) + 1 /\ IsGuarded(stack'[i], d)
          /\ j \in 1 .. Len(stack) + 1 /\ IsGuarded(stack'[j], d)
      BY <1>1, PushedFrame DEF GuardedDepths, IsGuarded
    <2>2. CASE i \in 1 .. Len(stack) /\ j \in 1 .. Len(stack)
      BY <1>1, <2>1, <2>2, PushedFrame DEF IInv, NoGuardedReentry, GuardedDepths
    <2>3. CASE i = Len(stack) + 1 /\ j \in 1 .. Len(stack)
      BY <1>1, <1>4, <1>5, <2>1, <2>3, PushedFrame DEF RunningBelow
    <2>4. CASE j = Len(stack) + 1 /\ i \in 1 .. Len(stack)
      BY <1>1, <1>4, <1>5, <2>1, <2>4, PushedFrame DEF RunningBelow
    <2>5. CASE i = Len(stack) + 1 /\ j = Len(stack) + 1
      BY <2>5
    <2> QED BY <1>1, <2>1, <2>2, <2>3, <2>4, <2>5, PushedFrame
  <1>7. LocksMatch'
    <2> SUFFICES ASSUME NEW d \in Contract
                 PROVE  lock'[d] = 1 <=> RunningBelow(stack', d, Len(stack'))
      BY <1>1, <1>2, PushKeepsOldClaims DEF LocksMatch
    <2>1. RunningBelow(stack', d, Len(stack')) <=> RunningBelow(stack, d, Len(stack)) \/ IsGuarded(fr, d)
      BY <1>1, PushedFrame
    <2>2. lock[d] = 1 <=> RunningBelow(stack, d, Len(stack))
      BY DEF IInv, LocksMatch
    <2>3. lock'[d] = IF d = c /\ f \in NonReentrant THEN 1 ELSE lock[d]
      BY DEF IInv, FramesOK, Enter
    <2> QED BY <1>4, <2>1, <2>2, <2>3
  <1>8. RunsMatch'
    <2> SUFFICES ASSUME NEW d \in Contract PROVE runs'[d] = flag'[d]
      BY <1>1, <1>2, PushKeepsOldClaims DEF RunsMatch
    <2>1. runs[d] = flag[d]
      BY DEF IInv, RunsMatch
    <2> QED BY <2>1 DEF IInv, FramesOK, Enter, emit_initializer_guard
  <1> QED BY <1>3, <1>6, <1>7, <1>8 DEF IInv

\* A foreign frame holds no lock and sets no flag.
LEMMA EnterForeignIInv ==
  ASSUME IInv, EnterForeign
  PROVE  IInv'
  <1> DEFINE fr == Frame(Foreign, Foreign)
  <1>1. fr \in Frames /\ stack' = Append(stack, fr)
    BY DEF IInv, FramesOK, Frames, Frame, EnterForeign
  <1>2. fr.contract = Foreign /\ fr.lock = lock /\ fr.flag = flag /\ fr.runs = runs
    BY DEF Frame
  <1> HIDE DEF fr
  <1>3. FramesOK'
    <2>1. stack' \in Seq(Frames) /\ stack' # <<>>
      BY <1>1, PushedFrame
    <2> QED BY <2>1 DEF IInv, FramesOK, EnterForeign
  <1>4. \A d \in Contract : ~IsGuarded(fr, d)
    BY <1>2, GuardAssumption DEF IsGuarded
  <1>5. NoGuardedReentry'
    <2> SUFFICES ASSUME NEW d \in Contract, NEW i \in GuardedDepths(d)',
                        NEW j \in GuardedDepths(d)'
                 PROVE  i = j
      BY DEF NoGuardedReentry
    <2>1. /\ i \in 1 .. Len(stack) + 1 /\ IsGuarded(stack'[i], d)
          /\ j \in 1 .. Len(stack) + 1 /\ IsGuarded(stack'[j], d)
      BY <1>1, PushedFrame DEF GuardedDepths, IsGuarded
    <2>2. i \in 1 .. Len(stack) /\ j \in 1 .. Len(stack)
      BY <1>1, <1>4, <2>1, PushedFrame
    <2> QED BY <1>1, <2>1, <2>2, PushedFrame DEF IInv, NoGuardedReentry, GuardedDepths
  <1>6. LocksMatch'
    <2> SUFFICES ASSUME NEW d \in Contract
                 PROVE  lock'[d] = 1 <=> RunningBelow(stack', d, Len(stack'))
      BY <1>1, <1>2, PushKeepsOldClaims DEF LocksMatch
    <2> QED BY <1>1, <1>4, PushedFrame DEF IInv, LocksMatch, EnterForeign
  <1>7. RunsMatch'
    <2> SUFFICES ASSUME NEW d \in Contract PROVE runs'[d] = flag'[d]
      BY <1>1, <1>2, PushKeepsOldClaims DEF RunsMatch
    <2> QED BY DEF IInv, RunsMatch, EnterForeign
  <1> QED BY <1>3, <1>5, <1>6, <1>7 DEF IInv

\* The top frame popped: what the others saved still matches, and locked
\* functions still run at most once.
LEMMA PoppedFrame ==
  ASSUME IInv, stack # <<>>, stack' = Front(stack)
  PROVE  /\ stack' \in Seq(Frames)
         /\ Len(stack) \in Nat \ {0}
         /\ Len(stack') = Len(stack) - 1
         /\ Top \in Frames
         /\ \A i \in 1 .. Len(stack') : stack'[i] = stack[i]
         /\ \A c \in Contract, n \in 0 .. Len(stack') :
              RunningBelow(stack', c, n) <=> RunningBelow(stack, c, n)
         /\ NoGuardedReentry'
         /\ \A c \in Contract : \A j \in 1 .. Len(stack') :
              /\ stack'[j].lock[c] = 1 <=> RunningBelow(stack', c, j - 1)
              /\ stack'[j].runs[c] = stack'[j].flag[c]
  <1>1. stack \in Seq(Frames) /\ Len(stack) \in Nat \ {0}
    BY DEF IInv, FramesOK
  <1>2. /\ stack' \in Seq(Frames)
        /\ Len(stack') = Len(stack) - 1
        /\ \A i \in 1 .. Len(stack') : stack'[i] = stack[i]
    <2>1. stack' = SubSeq(stack, 1, Len(stack) - 1)
      BY DEF Front
    <2>2. \A i \in 1 .. Len(stack) - 1 : stack[i] \in Frames
      BY <1>1
    <2>3. 1 \in Int /\ Len(stack) - 1 \in Int
      BY <1>1
    <2>4. /\ SubSeq(stack, 1, Len(stack) - 1) \in Seq(Frames)
          /\ Len(SubSeq(stack, 1, Len(stack) - 1)) =
               IF 1 <= Len(stack) - 1 THEN Len(stack) - 1 - 1 + 1 ELSE 0
          /\ \A i \in 1 .. Len(stack) - 1 - 1 + 1 :
               SubSeq(stack, 1, Len(stack) - 1)[i] = stack[1 + i - 1]
      BY <2>2, <2>3, SubSeqProperties
    <2>5. \A n \in Nat \ {0} :
            /\ 1 <= n - 1 \/ n - 1 = 0
            /\ n - 1 - 1 + 1 = n - 1
      OBVIOUS
    <2>6. \A i \in 1 .. Len(stack) - 1 : 1 + i - 1 = i
      BY <1>1
    <2>7. Len(stack') = Len(stack) - 1
      BY <1>1, <2>1, <2>4, <2>5
    <2>8. \A i \in 1 .. Len(stack') : stack'[i] = stack[i]
      BY <1>1, <2>1, <2>4, <2>5, <2>6, <2>7
    <2> QED BY <2>1, <2>4, <2>7, <2>8
  <1>3. Top \in Frames
    BY <1>1 DEF Top
  <1>4. \A c \in Contract, n \in 0 .. Len(stack') :
          RunningBelow(stack', c, n) <=> RunningBelow(stack, c, n)
    <2> TAKE c \in Contract, n \in 0 .. Len(stack')
    <2>1. \A i \in 1 .. n : stack'[i] = stack[i]
      BY <1>1, <1>2
    <2> QED BY <2>1 DEF RunningBelow, IsGuarded
  <1>5. NoGuardedReentry'
    <2> SUFFICES ASSUME NEW d \in Contract, NEW i \in GuardedDepths(d)',
                        NEW j \in GuardedDepths(d)'
                 PROVE  i = j
      BY DEF NoGuardedReentry
    <2>1. i \in GuardedDepths(d) /\ j \in GuardedDepths(d)
      BY <1>1, <1>2 DEF GuardedDepths, IsGuarded
    <2> QED BY <2>1 DEF IInv, NoGuardedReentry
  <1>6. \A c \in Contract : \A j \in 1 .. Len(stack') :
          /\ stack'[j].lock[c] = 1 <=> RunningBelow(stack', c, j - 1)
          /\ stack'[j].runs[c] = stack'[j].flag[c]
    <2> TAKE c \in Contract
    <2> TAKE j \in 1 .. Len(stack')
    <2>1. stack'[j] = stack[j] /\ j \in 1 .. Len(stack) /\ j - 1 \in 0 .. Len(stack')
      BY <1>1, <1>2
    <2>2. RunningBelow(stack', c, j - 1) <=> RunningBelow(stack, c, j - 1)
      BY <1>4, <2>1
    <2> QED BY <2>1, <2>2 DEF IInv, LocksMatch, RunsMatch
  <1> QED BY <1>1, <1>2, <1>3, <1>4, <1>5, <1>6

\* Releasing the lock is right because no second locked call runs below.
LEMMA ReturnIInv ==
  ASSUME IInv, Return
  PROVE  IInv'
  <1>1. stack # <<>> /\ stack' = Front(stack) /\ ~failed /\ failed' = failed
    BY DEF Return
  <1>2. /\ lock' \in [Contract -> 0 .. 1]
        /\ \A d \in Contract :
             lock'[d] = IF IsGuarded(Top, d) THEN 0 ELSE lock[d]
    <2>1. Top.contract # Foreign <=> Top.contract \in Contract
      BY <1>1, PoppedFrame, GuardAssumption DEF Frames
    <2> QED BY <2>1 DEF IInv, FramesOK, Return, emit_reentrant_lock_release, IsGuarded
  <1>3. FramesOK'
    BY <1>1, <1>2, PoppedFrame DEF IInv, FramesOK, Return
  <1>4. LocksMatch'
    <2> SUFFICES ASSUME NEW d \in Contract
                 PROVE  lock'[d] = 1 <=> RunningBelow(stack', d, Len(stack'))
      BY <1>1, PoppedFrame DEF LocksMatch
    <2>1. /\ Len(stack) \in Nat \ {0}
          /\ Len(stack') = Len(stack) - 1
          /\ RunningBelow(stack', d, Len(stack')) <=> RunningBelow(stack, d, Len(stack) - 1)
      BY <1>1, PoppedFrame
    <2>2. lock[d] = 1 <=> RunningBelow(stack, d, Len(stack))
      BY DEF IInv, LocksMatch
    <2>3. 1 .. Len(stack) = (1 .. Len(stack) - 1) \cup {Len(stack)}
      BY <2>1
    <2>4. RunningBelow(stack, d, Len(stack)) <=> RunningBelow(stack, d, Len(stack) - 1) \/ IsGuarded(Top, d)
      BY <2>3 DEF RunningBelow, Top
    <2>5. IsGuarded(Top, d) => ~RunningBelow(stack, d, Len(stack) - 1)
      BY <2>1 DEF IInv, NoGuardedReentry, GuardedDepths, RunningBelow, Top
    <2> QED BY <1>2, <2>1, <2>2, <2>4, <2>5
  <1>5. RunsMatch'
    BY <1>1, PoppedFrame DEF IInv, RunsMatch, Return
  <1> QED BY <1>1, <1>3, <1>4, <1>5, PoppedFrame DEF IInv

\* What a frame saved matches the frames below it, which are those left.
LEMMA RevertIInv ==
  ASSUME IInv, Revert
  PROVE  IInv'
  <1>1. /\ stack # <<>> /\ stack' = Front(stack)
        /\ lock' = Top.lock /\ flag' = Top.flag /\ runs' = Top.runs
        /\ failed' = (Len(stack) - 1 > 0)
    BY DEF Revert, CallerReacts
  <1>2. /\ Len(stack) \in Nat \ {0}
        /\ Len(stack') = Len(stack) - 1
        /\ stack' \in Seq(Frames)
        /\ Top \in Frames
    BY <1>1, PoppedFrame
  <1>3. FramesOK'
    <2>1. failed' \in BOOLEAN
      BY <1>1
    <2>2. (Len(stack) - 1 > 0) => stack' # <<>>
      BY <1>2
    <2>3. failed' => stack' # <<>>
      BY <1>1, <2>2
    <2> QED BY <1>1, <1>2, <2>1, <2>3 DEF FramesOK, Frames
  <1>4. \A d \in Contract :
          /\ lock'[d] = 1 <=> RunningBelow(stack', d, Len(stack'))
          /\ runs'[d] = flag'[d]
    <2> TAKE d \in Contract
    <2>1. RunningBelow(stack', d, Len(stack')) <=> RunningBelow(stack, d, Len(stack) - 1)
      BY <1>1, <1>2, PoppedFrame
    <2> QED BY <1>1, <1>2, <2>1 DEF IInv, LocksMatch, RunsMatch, Top
  <1>5. LocksMatch'
    BY <1>1, <1>4, PoppedFrame DEF LocksMatch
  <1>6. RunsMatch'
    BY <1>1, <1>4, PoppedFrame DEF RunsMatch
  <1> QED BY <1>1, <1>3, <1>5, <1>6, PoppedFrame DEF IInv

\* Every step of contracts, foreign code or a transaction preserves IInv.
LEMMA NextIInv == IInv /\ [Next]_vars => IInv'
  <1> SUFFICES ASSUME IInv, [Next]_vars PROVE IInv'
    OBVIOUS
  <1>1. ASSUME NEW c \in Contract, NEW f \in Function, Enter(c, f) PROVE IInv'
    BY <1>1, EnterIInv
  <1>2. ASSUME NEW c \in Contract, NEW f \in Function, Refused(c, f) PROVE IInv'
    <2>1. UNCHANGED <<lock, flag, runs, stack>> /\ failed' = (Len(stack) > 0)
      BY <1>2 DEF Refused, CallerReacts
    <2>2. failed' \in BOOLEAN /\ (failed' => stack # <<>>)
      BY <2>1 DEF IInv, FramesOK
    <2> QED BY <2>1, <2>2, QuietIInv
  <1>3. CASE EnterForeign
    BY <1>3, EnterForeignIInv
  <1>4. CASE Return
    BY <1>4, ReturnIInv
  <1>5. CASE Revert
    BY <1>5, RevertIInv
  <1>6. CASE Ignore
    BY <1>6, QuietIInv DEF Ignore
  <1>7. CASE UNCHANGED vars
    BY <1>7, QuietIInv DEF vars, IInv, FramesOK
  <1> QED BY <1>1, <1>2, <1>3, <1>4, <1>5, <1>6, <1>7 DEF Next

\* In every reachable state the present and every saved state match the stack.
THEOREM SpecIInv == Spec => []IInv
  BY InitIInv, NextIInv, PTL DEF Spec

\* GuardTypeOK holds for any contracts, functions and depth.
THEOREM TypeCorrect == Spec => []GuardTypeOK
  <1>1. IInv => GuardTypeOK
    <2> SUFFICES ASSUME IInv PROVE GuardTypeOK
      OBVIOUS
    <2>1. \A c \in Contract : runs[c] = flag[c] /\ flag[c] \in 0 .. 1
      BY DEF IInv, FramesOK, RunsMatch
    <2>2. runs \in [Contract -> 0 .. 1]
      BY <2>1 DEF IInv, FramesOK
    <2> QED BY <2>2 DEF IInv, FramesOK, Frames, GuardTypeOK
  <1> QED BY <1>1, SpecIInv, PTL

\* No call stack, however deep, runs two @non_reentrant calls of a contract.
THEOREM Reentrancy == Spec => []NoGuardedReentry
  <1>1. IInv => NoGuardedReentry
    BY DEF IInv
  <1> QED BY <1>1, SpecIInv, PTL

\* The lock of emit_reentrant_lock_acquire is neither lost nor left behind.
THEOREM Lock == Spec => []LockHeldIffRunning
  <1>1. IInv => LockHeldIffRunning
    BY DEF IInv, LocksMatch, RunningBelow, LockHeldIffRunning, GuardedDepths
  <1> QED BY <1>1, SpecIInv, PTL

\* emit_initializer_guard lets at most one run of the initializer take effect.
THEOREM RunOnce == Spec => []InitializedAtMostOnce
  <1>1. IInv => InitializedAtMostOnce
    BY DEF IInv, RunsMatch, InitializedAtMostOnce
  <1> QED BY <1>1, SpecIInv, PTL
=============================================================================
