--------------------------- MODULE StreamPipeProofs ---------------------------
(***************************************************************************)
(* What TLAPS proves of StreamPipe, for channels of any capacity and any   *)
(* number of lines: the client reads the deltas in order, and an answer    *)
(* that ended as completed is whole.                                       *)
(***************************************************************************)
EXTENDS StreamPipe, SequenceTheorems, TLAPS

\* The last line before each stage's part of the pipeline.
AtOut == Len(shown) + Len(events)
AtScanned == IF wrapper = "send" THEN AtOut + 1 ELSE AtOut
AtHand == AtScanned + Len(scanned)
AtPipe == IF scanner = "send" THEN AtHand + 1 ELSE AtHand

\* A failure is the last thing the scanner sends; the wrapper may add its own.
FailureIsLast ==
  /\ \A i \in 1 .. Len(events) : events[i] = Failure =>
        /\ scanner = "closed" /\ Len(scanned) = 0 /\ wrapper # "send"
        /\ \A j \in i .. Len(events) : events[j] = Failure
  /\ wrapper = "send" /\ outHand = Failure => scanner = "closed" /\ Len(scanned) = 0
  /\ \A i \in 1 .. Len(scanned) : scanned[i] = Failure => scanner = "closed" /\ i = Len(scanned)
  /\ scanner = "send" => inHand # Failure
  /\ scanner = "fail" => inHand = Failure
  /\ \A i \in 1 .. Len(stdout) : stdout[i] # Failure
  /\ wrapper \in {"wait", "warn", "done"} => scanner = "closed" /\ Len(scanned) = 0

\* Until the pump returns, the line at each place of the pipeline follows
\* the one before it.
OutNumbered ==
  /\ \A i \in 1 .. Len(events) : events[i] # Failure => events[i] = Len(shown) + i
  /\ wrapper = "send" /\ outHand # Failure => outHand = AtOut + 1
ScannedNumbered ==
  /\ \A i \in 1 .. Len(scanned) : scanned[i] # Failure => scanned[i] = AtScanned + i
  /\ scanner = "send" => inHand = AtHand + 1
PipeNumbered == scanner \in {"scan", "send"} =>
  /\ said = AtPipe + Len(stdout)
  /\ \A i \in 1 .. Len(stdout) : stdout[i] = AtPipe + i
Numbered == pump = "pumping" => OutNumbered /\ ScannedNumbered /\ PipeNumbered

\* No stage holds a line that claude did not write.
Written ==
  /\ Len(shown) <= said /\ inHand <= said /\ outHand <= said
  /\ \A i \in 1 .. Len(events) : events[i] <= said
  /\ \A i \in 1 .. Len(scanned) : scanned[i] <= said
  /\ \A i \in 1 .. Len(stdout) : stdout[i] <= said

\* A failure is under way to the pump.
Failing ==
  \/ \E i \in 1 .. Len(events) : events[i] = Failure
  \/ wrapper = "send" /\ outHand = Failure
  \/ wrapper = "warn"
  \/ \E i \in 1 .. Len(scanned) : scanned[i] = Failure
  \/ scanner = "fail"

\* While a client listens, either a failure is under way, or what the
\* scanner and the wrapper left behind them is all there was.
Accounted == pump = "pumping" /\ client = "connected" =>
  /\ cli # "killed"
  /\ scanner = "closed" =>
        Failing \/ (cli # "running" /\ said = AtPipe /\ Len(stdout) = 0)
  /\ wrapper = "done" => Failing \/ cli = "zero"
  /\ lastWord # "none" => Len(shown) < said
  /\ terminal = "none"

IInv == /\ StreamTypes /\ InOrder /\ FailureIsLast /\ Numbered
        /\ Written /\ Accounted /\ CompletedIsWhole

-----------------------------------------------------------------------------
\* The pipeline as numbers.
Numbers ==
  /\ said \in Nat /\ inHand \in Nat /\ outHand \in Nat
  /\ Len(stdout) \in Nat /\ \A i \in 1 .. Len(stdout) : stdout[i] \in Nat
  /\ Len(scanned) \in Nat /\ \A i \in 1 .. Len(scanned) : scanned[i] \in Nat
  /\ Len(events) \in Nat /\ \A i \in 1 .. Len(events) : events[i] \in Nat
  /\ Len(shown) \in Nat /\ \A i \in 1 .. Len(shown) : shown[i] \in Nat

\* t is s with e at its end, ...
Pushed(s, t, e) ==
  /\ Len(t) = Len(s) + 1
  /\ \A i \in 1 .. Len(t) : \/ i \in 1 .. Len(s) /\ t[i] = s[i]
                            \/ i = Len(s) + 1 /\ t[i] = e

\* ... or s without its head e.
Popped(s, t, e) ==
  /\ Len(s) # 0 /\ s[1] = e /\ Len(t) = Len(s) - 1
  /\ \A i \in 1 .. Len(t) : i + 1 \in 1 .. Len(s) /\ t[i] = s[i + 1]

\* What the channels' sends ...
LEMMA AppendPushes ==
  ASSUME NEW S, NEW s \in Seq(S), NEW e \in S
  PROVE  Append(s, e) \in Seq(S) /\ Pushed(s, Append(s, e), e)
<1> DEFINE t == Append(s, e)
<1>1. /\ t \in Seq(S) /\ Len(t) = Len(s) + 1 /\ Len(s) \in Nat
      /\ \A i \in 1 .. Len(s) : t[i] = s[i]
      /\ t[Len(s) + 1] = e
  BY AppendProperties
<1> HIDE DEF t
<1>2. Pushed(s, t, e)
  BY <1>1 DEF Pushed
<1> QED
  BY <1>1, <1>2 DEF t

\* ... and receives do to their contents.
LEMMA TailPops ==
  ASSUME NEW S, NEW s \in Seq(S), s # <<>>
  PROVE  Tail(s) \in Seq(S) /\ Popped(s, Tail(s), Head(s))
  BY DEF Popped

\* Sequences have a length and elements.
LEMMA SeqNumbers ==
  ASSUME NEW S, NEW s \in Seq(S)
  PROVE  Len(s) \in Nat /\ \A i \in 1 .. Len(s) : s[i] \in S
  OBVIOUS

\* What the pump does with an event: it reports a failure or the result, or
\* it shows a delta.
LEMMA PumpEventCases ==
  ASSUME StreamTypes, PumpEvent
  PROVE  /\ pump = "pumping" /\ events # <<>> /\ Head(events) \in EventNumbers /\ events' = Tail(events)
         /\ UNCHANGED <<process, scanning, wrapper, outHand, client>>
         /\ \/ /\ Head(events) = Failure
               /\ pump' = "returned" /\ terminal' = "failed" /\ shown' = shown
            \/ /\ Head(events) # Failure /\ lastWord # "none" /\ Head(events) = said
               /\ pump' = "returned" /\ terminal' = "completed" /\ shown' = shown
            \/ /\ Head(events) # Failure /\ (lastWord = "none" \/ Head(events) # said)
               /\ shown' = Append(shown, Head(events)) /\ UNCHANGED <<pump, terminal>>
<1>1. /\ pump = "pumping" /\ events # <<>> /\ events' = Tail(events)
      /\ UNCHANGED <<process, scanning, wrapper, outHand, client>>
  BY DEF PumpEvent
<1>2. Head(events) \in EventNumbers
  BY <1>1 DEF StreamTypes
<1>3. CASE Head(events) = Failure
  BY <1>1, <1>2, <1>3 DEF PumpEvent, End
<1>4. CASE IsResult(Head(events))
  BY <1>1, <1>2, <1>4 DEF PumpEvent, End, IsResult
<1>5. CASE Head(events) # Failure /\ ~ IsResult(Head(events))
  <2>1. shown' = Append(shown, Head(events)) /\ UNCHANGED <<pump, terminal>>
    BY <1>5 DEF PumpEvent
  <2>2. lastWord = "none" \/ Head(events) # said
    BY <1>5 DEF IsResult
  <2> QED
    BY <1>1, <1>2, <1>5, <2>1, <2>2
<1> QED
  BY <1>3, <1>4, <1>5

\* Every step keeps the types, ...
LEMMA TypeStep == StreamTypes /\ [StreamNext]_streamVars => StreamTypes'
<1> USE StreamAssumption DEF StreamTypes, EventNumbers, Failure, process, scanning, joining, answer
<1> SUFFICES ASSUME StreamTypes, [StreamNext]_streamVars PROVE StreamTypes'
  OBVIOUS
<1>1. CASE ClaudeWrites
  BY <1>1 DEF ClaudeWrites
<1>2. CASE ClaudeExits
  BY <1>2 DEF ClaudeExits
<1>3. CASE ClaudeKilled
  BY <1>3 DEF ClaudeKilled, Cancelled
<1>4. CASE ScanLine
  BY <1>4 DEF ScanLine
<1>5. CASE LineTooLong
  BY <1>5 DEF LineTooLong
<1>6. CASE SendScanned
  BY <1>6 DEF SendScanned
<1>7. CASE ScanEof
  BY <1>7 DEF ScanEof
<1>8. CASE Take
  BY <1>8 DEF Take
<1>9. CASE SendOut
  BY <1>9 DEF SendOut
<1>10. CASE RangeEnds
  BY <1>10 DEF RangeEnds
<1>11. CASE Wait
  BY <1>11 DEF Wait, Cancelled
<1>12. CASE SendFailure
  BY <1>12 DEF SendFailure
<1>13. CASE PumpEvent
  <2>1. /\ events' = Tail(events) /\ events # <<>> /\ Head(events) \in EventNumbers
        /\ UNCHANGED <<process, scanning, wrapper, outHand, client>>
    BY <1>13, PumpEventCases
  <2>2. events' \in Seq(EventNumbers) /\ Len(events') <= ChannelCap
    BY <2>1
  <2>3. shown' \in Seq(EventNumbers)
    <3>1. shown' = shown \/ shown' = Append(shown, Head(events))
      BY <1>13, PumpEventCases
    <3>2. Append(shown, Head(events)) \in Seq(EventNumbers)
      BY <2>1
    <3> QED
      BY <3>1, <3>2
  <2>4. pump' \in {"pumping", "returned"} /\ terminal' \in {"none", "completed", "failed"}
    BY <1>13, PumpEventCases
  <2> QED
    BY <2>1, <2>2, <2>3, <2>4
<1>14. CASE PumpClosed
  BY <1>14 DEF PumpClosed, End
<1>15. CASE PumpCancelled
  BY <1>15 DEF PumpCancelled
<1>16. CASE ClientLeaves
  BY <1>16 DEF ClientLeaves
<1>17. CASE UNCHANGED streamVars
  BY <1>17 DEF streamVars
<1> QED
  BY <1>1, <1>2, <1>3, <1>4, <1>5, <1>6, <1>7, <1>8, <1>9, <1>10, <1>11, <1>12, <1>13,
     <1>14, <1>15, <1>16, <1>17 DEF StreamNext, Claude, Scanner, Wrapper, Pump

\* The types of the processes and channels, for channels of any capacity.
THEOREM TypeCorrect == StreamSpec => []StreamTypes
<1>1. StreamInit => StreamTypes
  BY StreamAssumption DEF StreamInit, StreamTypes, EventNumbers
<1> QED
  BY <1>1, TypeStep, PTL DEF StreamSpec

-----------------------------------------------------------------------------
\* ... and the invariant that the theorems follow from.
LEMMA Inductive == IInv /\ [StreamNext]_streamVars => IInv'
<1> SUFFICES ASSUME IInv, [StreamNext]_streamVars PROVE IInv'
  OBVIOUS
<1>0. StreamTypes'
  BY TypeStep DEF IInv
<1>a. /\ StreamTypes /\ InOrder /\ FailureIsLast /\ Numbered
      /\ Written /\ Accounted /\ CompletedIsWhole
  BY DEF IInv
<1>b. Numbers /\ Numbers'
  <2>1. \A n \in EventNumbers : n \in Nat
    BY StreamAssumption DEF EventNumbers
  <2>2. Numbers
    BY <1>a, <2>1, SeqNumbers DEF StreamTypes, Numbers, EventNumbers
  <2>3. Numbers'
    BY <1>0, <2>1, SeqNumbers DEF StreamTypes, Numbers, EventNumbers
  <2> QED
    BY <2>2, <2>3
<1>1. CASE ClaudeWrites
  <2>1. /\ cli = "running" /\ lastWord = "none" /\ said' = said + 1
        /\ Pushed(stdout, stdout', said + 1)
        /\ UNCHANGED <<cli, scanner, inHand, scanned, wrapper, outHand, events>>
        /\ UNCHANGED <<pump, shown, terminal, client>>
    <3>1. stdout \in Seq(EventNumbers) /\ said + 1 \in EventNumbers
      BY StreamAssumption, <1>a, <1>1 DEF StreamTypes, EventNumbers, ClaudeWrites
    <3> QED
      BY <1>1, <3>1, AppendPushes DEF ClaudeWrites, process, scanning, joining, answer
  <2>2. /\ AtOut \in Nat /\ AtScanned \in Nat /\ AtHand \in Nat /\ AtPipe \in Nat
        /\ AtOut' = AtOut /\ AtScanned' = AtScanned /\ AtHand' = AtHand /\ AtPipe' = AtPipe
    BY <1>b, <2>1 DEF Numbers, Pushed, AtOut, AtScanned, AtHand, AtPipe
  <2>3. InOrder'
    BY <1>a, <1>b, <2>1, <2>2 DEF Numbers, Failure, Pushed, InOrder
  <2>4. FailureIsLast'
    BY <1>a, <1>b, <2>1, <2>2 DEF Numbers, Failure, Pushed, FailureIsLast
  <2>5. Numbered'
    <3> SUFFICES ASSUME pump = "pumping", pump' = "pumping"
                 PROVE  OutNumbered' /\ ScannedNumbered' /\ PipeNumbered'
      BY <2>1 DEF Numbered
    <3>1. OutNumbered /\ ScannedNumbered /\ PipeNumbered
      BY <1>a DEF Numbered
    <3>2. OutNumbered'
      BY <1>a, <1>b, <2>1, <2>2, <3>1 DEF Numbers, Failure, Pushed, FailureIsLast, OutNumbered
    <3>3. ScannedNumbered'
      BY <1>a, <1>b, <2>1, <2>2, <3>1 DEF Numbers, Failure, Pushed, FailureIsLast,
         ScannedNumbered
    <3>4. PipeNumbered'
      <4>1. ASSUME NEW i \in 1 .. Len(stdout'), scanner \in {"scan", "send"}
            PROVE  stdout'[i] = AtPipe + i
        <5>1. CASE i \in 1 .. Len(stdout) /\ stdout'[i] = stdout[i]
          BY <3>1, <4>1, <5>1 DEF PipeNumbered
        <5>2. CASE i = Len(stdout) + 1 /\ stdout'[i] = said + 1
          <6>1. said = AtPipe + Len(stdout)
            BY <3>1, <4>1 DEF PipeNumbered
          <6>2. said \in Nat /\ Len(stdout) \in Nat /\ AtPipe \in Nat
            BY <1>b, <2>2 DEF Numbers
          <6> QED
            BY <5>2, <6>1, <6>2
        <5> QED
          BY <2>1, <4>1, <5>1, <5>2 DEF Pushed
      <4>2. scanner \in {"scan", "send"} => said' = AtPipe + Len(stdout')
        BY <1>b, <2>1, <2>2, <3>1 DEF Numbers, Pushed, PipeNumbered
      <4> QED
        BY <2>1, <2>2, <4>1, <4>2 DEF PipeNumbered
    <3> QED
      BY <3>2, <3>3, <3>4
  <2>6. Written'
    <3>1. ASSUME NEW i \in 1 .. Len(stdout') PROVE stdout'[i] <= said'
      <4>1. CASE i \in 1 .. Len(stdout) /\ stdout'[i] = stdout[i]
        BY <1>a, <1>b, <2>1, <4>1 DEF Numbers, Written
      <4>2. CASE i = Len(stdout) + 1 /\ stdout'[i] = said + 1
        BY <1>b, <2>1, <4>2 DEF Numbers
      <4> QED
        BY <2>1, <4>1, <4>2 DEF Pushed
    <3> QED
      BY <1>a, <1>b, <2>1, <3>1 DEF Numbers, Written
  <2>7. Accounted'
    BY <1>a, <1>b, <2>1, <2>2 DEF Numbers, Failure, Pushed, Accounted, Failing, Written,
       FailureIsLast, Numbered, PipeNumbered
  <2>8. CompletedIsWhole'
    BY <1>a, <1>b, <2>1, <2>2 DEF Numbers, Failure, Pushed, CompletedIsWhole, Accounted
  <2> QED
    BY <1>0, <2>3, <2>4, <2>5, <2>6, <2>7, <2>8 DEF IInv
<1>2. CASE ClaudeExits
  BY <1>0, <1>2, <1>a, <1>b DEF ClaudeExits, process, scanning, joining, answer, IInv, InOrder,
     FailureIsLast, Numbered,
     OutNumbered, ScannedNumbered, PipeNumbered, Written, Accounted, Failing, CompletedIsWhole, Numbers, Failure, AtOut, AtScanned, AtHand, AtPipe
<1>3. CASE ClaudeKilled
  BY <1>0, <1>3, <1>a, <1>b DEF ClaudeKilled, Cancelled, process, scanning, joining, answer, IInv,
     InOrder, FailureIsLast, Numbered,
     OutNumbered, ScannedNumbered, PipeNumbered, Written, Accounted, Failing, CompletedIsWhole, Numbers, Failure, AtOut, AtScanned, AtHand, AtPipe
<1>4. CASE ScanLine
  <2>1. /\ scanner = "scan" /\ scanner' = "send"
        /\ Popped(stdout, stdout', inHand')
        /\ UNCHANGED <<cli, lastWord, said, scanned, wrapper, outHand, events>>
        /\ UNCHANGED <<pump, shown, terminal, client>>
    <3>1. stdout \in Seq(EventNumbers)
      BY StreamAssumption, <1>a, <1>4 DEF StreamTypes, EventNumbers, ScanLine
    <3> QED
      BY <1>4, <3>1, TailPops DEF ScanLine, process, scanning, joining, answer
  <2>2. /\ AtOut \in Nat /\ AtScanned \in Nat /\ AtHand \in Nat /\ AtPipe \in Nat
        /\ AtOut' = AtOut /\ AtScanned' = AtScanned /\ AtHand' = AtHand
        /\ AtPipe = AtHand /\ AtPipe' = AtHand + 1
    BY <1>b, <2>1 DEF Numbers, Popped, AtOut, AtScanned, AtHand, AtPipe
  <2>3. InOrder'
    BY <1>a, <1>b, <2>1, <2>2 DEF Numbers, Failure, Popped, InOrder
  <2>4. FailureIsLast'
    BY <1>a, <1>b, <2>1, <2>2 DEF Numbers, Failure, Popped, FailureIsLast
  <2>5. Numbered'
    <3> SUFFICES ASSUME pump = "pumping", pump' = "pumping"
                 PROVE  OutNumbered' /\ ScannedNumbered' /\ PipeNumbered'
      BY <2>1 DEF Numbered
    <3>1. OutNumbered /\ ScannedNumbered /\ PipeNumbered
      BY <1>a DEF Numbered
    <3>2. OutNumbered'
      BY <1>a, <1>b, <2>1, <2>2, <3>1 DEF Numbers, Failure, Popped, FailureIsLast, OutNumbered
    <3>3. ScannedNumbered'
      BY <1>a, <1>b, <2>1, <2>2, <3>1 DEF Numbers, Failure, Popped, FailureIsLast,
         ScannedNumbered, PipeNumbered
    <3>4. PipeNumbered'
      BY <1>a, <1>b, <2>1, <2>2, <3>1 DEF Numbers, Failure, Popped, FailureIsLast, PipeNumbered
    <3> QED
      BY <3>2, <3>3, <3>4
  <2>6. Written'
    <3>1. inHand' <= said
      BY <1>a, <1>b, <2>1 DEF Numbers, Popped, Written
    <3> QED
      BY <1>a, <1>b, <2>1, <3>1 DEF Numbers, Popped, Written
  <2>7. Accounted'
    BY <1>a, <1>b, <2>1, <2>2 DEF Numbers, Failure, Popped, Accounted, Failing, Written,
       FailureIsLast, Numbered, PipeNumbered
  <2>8. CompletedIsWhole'
    BY <1>a, <1>b, <2>1, <2>2 DEF Numbers, Failure, Popped, CompletedIsWhole, Accounted
  <2> QED
    BY <1>0, <2>3, <2>4, <2>5, <2>6, <2>7, <2>8 DEF IInv
<1>5. CASE LineTooLong
  <2>1. InOrder'
    BY <1>5, <1>a, <1>b DEF LineTooLong, process, scanning, joining, answer, Numbers,
       Failure, InOrder
  <2>2. FailureIsLast'
    BY <1>5, <1>a, <1>b DEF LineTooLong, process, scanning, joining, answer, Numbers,
       Failure, FailureIsLast
  <2>3. Numbered'
    BY <1>5, <1>a, <1>b DEF LineTooLong, process, scanning, joining, answer, Numbers,
       Failure, FailureIsLast, Numbered, OutNumbered, ScannedNumbered, PipeNumbered, AtOut,
       AtScanned, AtHand, AtPipe
  <2>4. Written'
    BY <1>5, <1>a, <1>b DEF LineTooLong, process, scanning, joining, answer, Numbers,
       Failure, Written
  <2>5. Accounted'
    BY <1>5, <1>a, <1>b DEF LineTooLong, process, scanning, joining, answer, Numbers,
       Failure, Accounted, Failing, Written, FailureIsLast, AtOut, AtScanned, AtHand,
       AtPipe, Numbered, PipeNumbered
  <2>6. CompletedIsWhole'
    BY <1>5, <1>a, <1>b DEF LineTooLong, process, scanning, joining, answer, Numbers,
       Failure, CompletedIsWhole, Accounted
  <2> QED
    BY <1>0, <2>1, <2>2, <2>3, <2>4, <2>5, <2>6 DEF IInv
<1>6. CASE SendScanned
  <2>1. /\ \/ scanner = "send" /\ scanner' = "scan"
           \/ scanner = "fail" /\ scanner' = "closed"
        /\ Pushed(scanned, scanned', inHand)
        /\ UNCHANGED <<cli, lastWord, said, stdout, inHand, wrapper, outHand, events>>
        /\ UNCHANGED <<pump, shown, terminal, client>>
    <3>1. scanned \in Seq(EventNumbers) /\ inHand \in EventNumbers
      BY StreamAssumption, <1>a, <1>6 DEF StreamTypes, EventNumbers, SendScanned
    <3> QED
      BY <1>6, <3>1, AppendPushes DEF SendScanned, process, scanning, joining, answer
  <2>2. /\ AtOut \in Nat /\ AtScanned \in Nat /\ AtHand \in Nat /\ AtPipe \in Nat
        /\ AtOut' = AtOut /\ AtScanned' = AtScanned
        /\ AtHand = AtScanned + Len(scanned) /\ AtHand' = AtHand + 1
        /\ scanner = "send" => AtPipe = AtHand + 1 /\ AtPipe' = AtPipe
    <3>1. /\ AtOut \in Nat /\ AtScanned \in Nat
          /\ AtOut' = AtOut /\ AtScanned' = AtScanned
      BY <1>b, <2>1 DEF Numbers, AtOut, AtScanned
    <3>2. /\ AtHand \in Nat /\ AtPipe \in Nat
          /\ AtHand = AtScanned + Len(scanned) /\ AtHand' = AtHand + 1
      BY <1>b, <2>1, <3>1 DEF Numbers, Pushed, AtHand, AtPipe
    <3>3. scanner = "send" => AtPipe = AtHand + 1 /\ AtPipe' = AtPipe
      BY <2>1, <3>2 DEF AtPipe
    <3> QED
      BY <3>1, <3>2, <3>3
  <2>3. InOrder'
    BY <1>a, <1>b, <2>1, <2>2 DEF Numbers, Failure, Pushed, InOrder
  <2>4. FailureIsLast'
    BY <1>a, <1>b, <2>1, <2>2 DEF Numbers, Failure, Pushed, FailureIsLast
  <2>5. Numbered'
    <3> SUFFICES ASSUME pump = "pumping", pump' = "pumping"
                 PROVE  OutNumbered' /\ ScannedNumbered' /\ PipeNumbered'
      BY <2>1 DEF Numbered
    <3>1. OutNumbered /\ ScannedNumbered /\ PipeNumbered
      BY <1>a DEF Numbered
    <3>2. OutNumbered'
      BY <1>a, <1>b, <2>1, <2>2, <3>1 DEF Numbers, Failure, Pushed, FailureIsLast, OutNumbered
    <3>3. ScannedNumbered'
      <4>1. ASSUME NEW i \in 1 .. Len(scanned'), scanned'[i] # Failure
            PROVE  scanned'[i] = AtScanned + i
        <5>1. CASE i \in 1 .. Len(scanned) /\ scanned'[i] = scanned[i]
          BY <3>1, <4>1, <5>1 DEF ScannedNumbered
        <5>2. CASE i = Len(scanned) + 1 /\ scanned'[i] = inHand
          BY <1>a, <1>b, <2>1, <2>2, <3>1, <4>1, <5>2 DEF Numbers, FailureIsLast,
             ScannedNumbered
        <5> QED
          BY <2>1, <4>1, <5>1, <5>2 DEF Pushed
      <4> QED
        BY <2>1, <2>2, <4>1 DEF ScannedNumbered
    <3>4. PipeNumbered'
      BY <1>a, <1>b, <2>1, <2>2, <3>1 DEF Numbers, Failure, Pushed, FailureIsLast,
         PipeNumbered, ScannedNumbered
    <3> QED
      BY <3>2, <3>3, <3>4
  <2>6. Written'
    BY <1>a, <1>b, <2>1, <2>2 DEF Numbers, Failure, Pushed, Written
  <2>7. Accounted'
    BY <1>a, <1>b, <2>1, <2>2 DEF Numbers, Failure, Pushed, Accounted, Failing, Written,
       FailureIsLast, Numbered, PipeNumbered
  <2>8. CompletedIsWhole'
    BY <1>a, <1>b, <2>1, <2>2 DEF Numbers, Failure, Pushed, CompletedIsWhole, Accounted
  <2> QED
    BY <1>0, <2>3, <2>4, <2>5, <2>6, <2>7, <2>8 DEF IInv
<1>7. CASE ScanEof
  <2>1. InOrder'
    BY <1>7, <1>a, <1>b DEF ScanEof, process, scanning, joining, answer, Numbers, Failure,
       InOrder
  <2>2. FailureIsLast'
    BY <1>7, <1>a, <1>b DEF ScanEof, process, scanning, joining, answer, Numbers, Failure,
       FailureIsLast
  <2>3. Numbered'
    BY <1>7, <1>a, <1>b DEF ScanEof, process, scanning, joining, answer, Numbers, Failure,
       FailureIsLast, Numbered, OutNumbered, ScannedNumbered, PipeNumbered, AtOut,
       AtScanned, AtHand, AtPipe
  <2>4. Written'
    BY <1>7, <1>a, <1>b DEF ScanEof, process, scanning, joining, answer, Numbers, Failure,
       Written
  <2>5. Accounted'
    BY <1>7, <1>a, <1>b DEF ScanEof, process, scanning, joining, answer, Numbers, Failure,
       Accounted, Failing, Written, FailureIsLast, AtOut, AtScanned, AtHand, AtPipe,
       Numbered, PipeNumbered
  <2>6. CompletedIsWhole'
    BY <1>7, <1>a, <1>b DEF ScanEof, process, scanning, joining, answer, Numbers, Failure,
       CompletedIsWhole, Accounted
  <2> QED
    BY <1>0, <2>1, <2>2, <2>3, <2>4, <2>5, <2>6 DEF IInv
<1>8. CASE Take
  <2>1. /\ wrapper = "range" /\ wrapper' = "send"
        /\ Popped(scanned, scanned', outHand')
        /\ UNCHANGED <<cli, lastWord, said, stdout, scanner, inHand, events>>
        /\ UNCHANGED <<pump, shown, terminal, client>>
    <3>1. scanned \in Seq(EventNumbers)
      BY StreamAssumption, <1>a, <1>8 DEF StreamTypes, EventNumbers, Take
    <3> QED
      BY <1>8, <3>1, TailPops DEF Take, process, scanning, joining, answer
  <2>2. /\ AtOut \in Nat /\ AtScanned \in Nat /\ AtHand \in Nat /\ AtPipe \in Nat
        /\ AtOut' = AtOut /\ AtScanned = AtOut /\ AtScanned' = AtOut + 1
        /\ AtHand' = AtHand /\ AtPipe' = AtPipe
    BY <1>b, <2>1 DEF Numbers, Popped, AtOut, AtScanned, AtHand, AtPipe
  <2>3. InOrder'
    BY <1>a, <1>b, <2>1, <2>2 DEF Numbers, Failure, Popped, InOrder
  <2>4. FailureIsLast'
    BY <1>a, <1>b, <2>1, <2>2 DEF Numbers, Failure, Popped, FailureIsLast
  <2>5. Numbered'
    <3> SUFFICES ASSUME pump = "pumping", pump' = "pumping"
                 PROVE  OutNumbered' /\ ScannedNumbered' /\ PipeNumbered'
      BY <2>1 DEF Numbered
    <3>1. OutNumbered /\ ScannedNumbered /\ PipeNumbered
      BY <1>a DEF Numbered
    <3>2. OutNumbered'
      BY <1>a, <1>b, <2>1, <2>2, <3>1 DEF Numbers, Failure, Popped, FailureIsLast,
         OutNumbered, ScannedNumbered
    <3>3. ScannedNumbered'
      <4>1. ASSUME NEW i \in 1 .. Len(scanned'), scanned'[i] # Failure
            PROVE  scanned'[i] = AtScanned' + i
        <5>1. i + 1 \in 1 .. Len(scanned) /\ scanned'[i] = scanned[i + 1]
          BY <2>1, <4>1 DEF Popped
        <5>2. scanned[i + 1] = AtScanned + (i + 1)
          BY <3>1, <4>1, <5>1 DEF ScannedNumbered
        <5>3. i \in Nat
          BY <1>b, <2>1 DEF Numbers, Popped
        <5> QED
          BY <2>2, <5>1, <5>2, <5>3
      <4>2. scanner' = "send" => inHand' = AtHand' + 1
        BY <2>1, <2>2, <3>1 DEF ScannedNumbered
      <4> QED
        BY <4>1, <4>2 DEF ScannedNumbered
    <3>4. PipeNumbered'
      BY <2>1, <2>2, <3>1 DEF PipeNumbered
    <3> QED
      BY <3>2, <3>3, <3>4
  <2>6. Written'
    BY <1>a, <1>b, <2>1, <2>2 DEF Numbers, Failure, Popped, Written
  <2>7. Accounted'
    <3>1. Failing => Failing'
      <4>1. CASE \E i \in 1 .. Len(scanned) : scanned[i] = Failure
        <5>1. PICK i \in 1 .. Len(scanned) : scanned[i] = Failure
          BY <4>1
        <5>2. CASE i = 1
          BY <2>1, <5>1, <5>2 DEF Popped, Failing
        <5>3. CASE i # 1
          <6>1. i - 1 \in 1 .. Len(scanned') /\ scanned'[i - 1] = scanned[i]
            BY <1>b, <2>1, <5>1, <5>3 DEF Numbers, Popped
          <6> QED
            BY <5>1, <6>1 DEF Failing
        <5> QED
          BY <5>2, <5>3
      <4> QED
        BY <2>1, <4>1 DEF Failing
    <3> QED
      BY <1>a, <2>1, <2>2, <3>1 DEF Accounted, FailureIsLast
  <2>8. CompletedIsWhole'
    BY <1>a, <1>b, <2>1, <2>2 DEF Numbers, Failure, Popped, CompletedIsWhole, Accounted
  <2> QED
    BY <1>0, <2>3, <2>4, <2>5, <2>6, <2>7, <2>8 DEF IInv
<1>9. CASE SendOut
  <2>1. /\ wrapper = "send" /\ wrapper' = "range"
        /\ Pushed(events, events', outHand)
        /\ UNCHANGED <<cli, lastWord, said, stdout, scanner, inHand, scanned, outHand>>
        /\ UNCHANGED <<pump, shown, terminal, client>>
    <3>1. events \in Seq(EventNumbers) /\ outHand \in EventNumbers
      BY StreamAssumption, <1>a, <1>9 DEF StreamTypes, EventNumbers, SendOut
    <3> QED
      BY <1>9, <3>1, AppendPushes DEF SendOut, process, scanning, joining, answer
  <2>2. /\ AtOut \in Nat /\ AtScanned \in Nat /\ AtHand \in Nat /\ AtPipe \in Nat
        /\ AtOut = Len(shown) + Len(events) /\ AtOut' = AtOut + 1
        /\ AtScanned' = AtScanned /\ AtHand' = AtHand /\ AtPipe' = AtPipe
    BY <1>b, <2>1 DEF Numbers, Pushed, AtOut, AtScanned, AtHand, AtPipe
  <2>3. InOrder'
    BY <1>a, <1>b, <2>1, <2>2 DEF Numbers, Failure, Pushed, InOrder
  <2>4. FailureIsLast'
    <3>1. ASSUME NEW i \in 1 .. Len(events'), events'[i] = Failure
          PROVE  /\ scanner = "closed" /\ Len(scanned) = 0
                 /\ \A j \in i .. Len(events') : events'[j] = Failure
      <4>1. CASE i \in 1 .. Len(events) /\ events'[i] = events[i]
        <5>1. /\ scanner = "closed" /\ Len(scanned) = 0 /\ wrapper # "send"
              /\ \A j \in i .. Len(events) : events[j] = Failure
          BY <1>a, <3>1, <4>1 DEF FailureIsLast
        <5>2. ASSUME NEW j \in i .. Len(events') PROVE events'[j] = Failure
          <6>1. j \in 1 .. Len(events') /\ (j \in 1 .. Len(events) => j \in i .. Len(events))
            BY <1>b, <4>1 DEF Numbers
          <6> QED
            BY <2>1, <5>1, <6>1 DEF Pushed
        <5> QED
          BY <5>1, <5>2
      <4>2. CASE i = Len(events) + 1 /\ events'[i] = outHand
        <5>1. \A j \in i .. Len(events') : j = i
          BY <1>b, <2>1, <4>2 DEF Numbers, Pushed
        <5> QED
          BY <1>a, <2>1, <3>1, <4>2, <5>1 DEF FailureIsLast
      <4> QED
        BY <2>1, <3>1, <4>1, <4>2 DEF Pushed
    <3> QED
      BY <1>a, <2>1, <3>1 DEF FailureIsLast
  <2>5. Numbered'
    <3> SUFFICES ASSUME pump = "pumping", pump' = "pumping"
                 PROVE  OutNumbered' /\ ScannedNumbered' /\ PipeNumbered'
      BY <2>1 DEF Numbered
    <3>1. OutNumbered /\ ScannedNumbered /\ PipeNumbered
      BY <1>a DEF Numbered
    <3>2. OutNumbered'
      <4> SUFFICES ASSUME NEW i \in 1 .. Len(events'), events'[i] # Failure
                   PROVE  events'[i] = Len(shown) + i
        BY <2>1 DEF OutNumbered
      <4>1. CASE i \in 1 .. Len(events) /\ events'[i] = events[i]
        BY <3>1, <4>1 DEF OutNumbered
      <4>2. CASE i = Len(events) + 1 /\ events'[i] = outHand
        BY <1>b, <2>1, <2>2, <3>1, <4>2 DEF OutNumbered, Numbers
      <4> QED
        BY <2>1, <4>1, <4>2 DEF Pushed
    <3>3. ScannedNumbered'
      BY <1>a, <1>b, <2>1, <2>2, <3>1 DEF Numbers, Failure, Pushed, FailureIsLast,
         ScannedNumbered
    <3>4. PipeNumbered'
      BY <1>a, <1>b, <2>1, <2>2, <3>1 DEF Numbers, Failure, Pushed, FailureIsLast, PipeNumbered
    <3> QED
      BY <3>2, <3>3, <3>4
  <2>6. Written'
    BY <1>a, <1>b, <2>1, <2>2 DEF Numbers, Failure, Pushed, Written
  <2>7. Accounted'
    BY <1>a, <1>b, <2>1, <2>2 DEF Numbers, Failure, Pushed, Accounted, Failing, Written,
       FailureIsLast, Numbered, PipeNumbered
  <2>8. CompletedIsWhole'
    BY <1>a, <1>b, <2>1, <2>2 DEF Numbers, Failure, Pushed, CompletedIsWhole, Accounted
  <2> QED
    BY <1>0, <2>3, <2>4, <2>5, <2>6, <2>7, <2>8 DEF IInv
<1>10. CASE RangeEnds
  BY <1>0, <1>10, <1>a, <1>b DEF RangeEnds, process, scanning, joining, answer, IInv,
     InOrder, FailureIsLast, Numbered,
     OutNumbered, ScannedNumbered, PipeNumbered, Written, Accounted, Failing, CompletedIsWhole, Numbers, Failure, AtOut, AtScanned, AtHand, AtPipe
<1>11. CASE Wait
  <2>1. InOrder'
    BY <1>11, <1>a, <1>b DEF Wait, Cancelled, process, scanning, joining, answer, Numbers,
       Failure, InOrder
  <2>2. FailureIsLast'
    BY <1>11, <1>a, <1>b DEF Wait, Cancelled, process, scanning, joining, answer, Numbers,
       Failure, FailureIsLast
  <2>3. Numbered'
    BY <1>11, <1>a, <1>b DEF Wait, Cancelled, process, scanning, joining, answer, Numbers,
       Failure, FailureIsLast, Numbered, OutNumbered, ScannedNumbered, PipeNumbered, AtOut,
       AtScanned, AtHand, AtPipe
  <2>4. Written'
    BY <1>11, <1>a, <1>b DEF Wait, Cancelled, process, scanning, joining, answer, Numbers,
       Failure, Written
  <2>5. Accounted'
    BY <1>11, <1>a, <1>b DEF Wait, Cancelled, process, scanning, joining, answer, Numbers,
       Failure, Accounted, Failing, Written, FailureIsLast, AtOut, AtScanned, AtHand,
       AtPipe, Numbered, PipeNumbered
  <2>6. CompletedIsWhole'
    BY <1>11, <1>a, <1>b DEF Wait, Cancelled, process, scanning, joining, answer, Numbers,
       Failure, CompletedIsWhole, Accounted
  <2> QED
    BY <1>0, <2>1, <2>2, <2>3, <2>4, <2>5, <2>6 DEF IInv
<1>12. CASE SendFailure
  <2>1. /\ wrapper = "warn" /\ wrapper' = "done"
        /\ Pushed(events, events', Failure)
        /\ UNCHANGED <<cli, lastWord, said, stdout, scanner, inHand, scanned, outHand>>
        /\ UNCHANGED <<pump, shown, terminal, client>>
    <3>1. events \in Seq(EventNumbers) /\ Failure \in EventNumbers
      BY StreamAssumption, <1>a, <1>12 DEF StreamTypes, EventNumbers, Failure, SendFailure
    <3> QED
      BY <1>12, <3>1, AppendPushes DEF SendFailure, process, scanning, joining, answer
  <2>2. /\ AtOut \in Nat /\ AtScanned \in Nat /\ AtHand \in Nat /\ AtPipe \in Nat
        /\ AtOut' = AtOut + 1
    BY <1>b, <2>1 DEF Numbers, Pushed, AtOut, AtScanned, AtHand, AtPipe
  <2>3. InOrder'
    BY <1>a, <1>b, <2>1, <2>2 DEF Numbers, Failure, Pushed, InOrder
  <2>4. FailureIsLast'
    <3>1. ASSUME NEW i \in 1 .. Len(events'), events'[i] = Failure
          PROVE  /\ scanner = "closed" /\ Len(scanned) = 0
                 /\ \A j \in i .. Len(events') : events'[j] = Failure
      <4>1. CASE i \in 1 .. Len(events) /\ events'[i] = events[i]
        <5>1. /\ scanner = "closed" /\ Len(scanned) = 0 /\ wrapper # "send"
              /\ \A j \in i .. Len(events) : events[j] = Failure
          BY <1>a, <3>1, <4>1 DEF FailureIsLast
        <5>2. ASSUME NEW j \in i .. Len(events') PROVE events'[j] = Failure
          <6>1. j \in 1 .. Len(events') /\ (j \in 1 .. Len(events) => j \in i .. Len(events))
            BY <1>b, <4>1 DEF Numbers
          <6> QED
            BY <2>1, <5>1, <6>1 DEF Pushed
        <5> QED
          BY <5>1, <5>2
      <4>2. CASE i = Len(events) + 1 /\ events'[i] = Failure
        <5>1. \A j \in i .. Len(events') : j = i
          BY <1>b, <2>1, <4>2 DEF Numbers, Pushed
        <5> QED
          BY <1>a, <2>1, <3>1, <4>2, <5>1 DEF FailureIsLast
      <4> QED
        BY <2>1, <3>1, <4>1, <4>2 DEF Pushed
    <3> QED
      BY <1>a, <2>1, <3>1 DEF FailureIsLast
  <2>5. Numbered'
    <3> SUFFICES ASSUME pump = "pumping", pump' = "pumping"
                 PROVE  OutNumbered' /\ ScannedNumbered' /\ PipeNumbered'
      BY <2>1 DEF Numbered
    <3>1. OutNumbered
      BY <1>a DEF Numbered
    <3>2. OutNumbered'
      <4> SUFFICES ASSUME NEW i \in 1 .. Len(events'), events'[i] # Failure
                   PROVE  events'[i] = Len(shown) + i
        BY <2>1 DEF OutNumbered
      <4>1. CASE i \in 1 .. Len(events) /\ events'[i] = events[i]
        BY <3>1, <4>1 DEF OutNumbered
      <4> QED
        BY <2>1, <4>1 DEF Pushed
    <3>3. scanner = "closed" /\ Len(scanned) = 0
      BY <1>a, <2>1 DEF FailureIsLast
    <3>4. ScannedNumbered' /\ PipeNumbered'
      BY <2>1, <3>3 DEF ScannedNumbered, PipeNumbered
    <3> QED
      BY <3>2, <3>4
  <2>6. Written'
    <3>1. ASSUME NEW i \in 1 .. Len(events') PROVE events'[i] <= said
      <4>1. CASE i \in 1 .. Len(events) /\ events'[i] = events[i]
        BY <1>a, <4>1 DEF Written
      <4>2. CASE events'[i] = Failure
        <5>1. said \in Nat
          BY <1>b DEF Numbers
        <5> QED
          BY <4>2, <5>1 DEF Failure
      <4> QED
        BY <2>1, <3>1, <4>1, <4>2 DEF Pushed
    <3> QED
      BY <1>a, <2>1, <3>1 DEF Written
  <2>7. Accounted'
    BY <1>a, <1>b, <2>1, <2>2 DEF Numbers, Failure, Pushed, Accounted, Failing, Written,
       FailureIsLast, Numbered, PipeNumbered
  <2>8. CompletedIsWhole'
    BY <1>a, <1>b, <2>1, <2>2 DEF Numbers, Failure, Pushed, CompletedIsWhole, Accounted
  <2> QED
    BY <1>0, <2>3, <2>4, <2>5, <2>6, <2>7, <2>8 DEF IInv
<1>13. CASE PumpEvent
  <2>1. /\ events \in Seq(EventNumbers) /\ events # <<>> /\ events' = Tail(events)
        /\ shown \in Seq(EventNumbers) /\ Head(events) \in EventNumbers
    BY <1>a, <1>13, PumpEventCases DEF StreamTypes
  <2>2. /\ pump = "pumping" /\ Popped(events, events', Head(events))
        /\ UNCHANGED <<cli, lastWord, said, stdout, scanner, inHand, scanned>>
        /\ UNCHANGED <<wrapper, outHand, client>>
    BY <1>a, <1>13, <2>1, TailPops, PumpEventCases DEF process, scanning, joining, answer
  <2>3. FailureIsLast'
    <3>1. \A i \in 1 .. Len(events') : events'[i] = Failure =>
            /\ scanner = "closed" /\ Len(scanned) = 0 /\ wrapper # "send"
            /\ \A k \in i .. Len(events') : events'[k] = Failure
      <4> SUFFICES ASSUME NEW i \in 1 .. Len(events'), events'[i] = Failure
                   PROVE  /\ scanner = "closed" /\ Len(scanned) = 0 /\ wrapper # "send"
                          /\ \A k \in i .. Len(events') : events'[k] = Failure
        OBVIOUS
      <4>1. i + 1 \in 1 .. Len(events) /\ events[i + 1] = Failure
        BY <2>2 DEF Popped
      <4>2. /\ scanner = "closed" /\ Len(scanned) = 0 /\ wrapper # "send"
            /\ \A k \in i + 1 .. Len(events) : events[k] = Failure
        BY <1>a, <4>1 DEF FailureIsLast
      <4>3. ASSUME NEW k \in i .. Len(events') PROVE events'[k] = Failure
        <5>1. k \in 1 .. Len(events') /\ k + 1 \in i + 1 .. Len(events)
          BY <1>b, <2>2 DEF Numbers, Popped
        <5> QED
          BY <2>2, <4>2, <5>1 DEF Popped
      <4> QED
        BY <4>2, <4>3
    <3> QED
      BY <1>a, <2>2, <3>1 DEF FailureIsLast
  <2>4. events[1] = Head(events) /\ 1 \in 1 .. Len(events)
    BY <1>b, <2>2 DEF Numbers, Popped
  <2>5. CASE /\ pump' = "returned" /\ shown' = shown
             /\ \/ Head(events) = Failure /\ terminal' = "failed"
                \/ /\ Head(events) # Failure /\ lastWord # "none" /\ Head(events) = said
                   /\ terminal' = "completed"
    <3>1. InOrder' /\ Numbered' /\ Accounted'
      BY <1>a, <2>5 DEF InOrder, Numbered, Accounted
    <3>2. Written'
      BY <1>a, <2>2, <2>5 DEF Popped, Written
    <3>3. Head(events) # Failure => Head(events) = Len(shown) + 1
      BY <1>a, <2>2, <2>4 DEF Numbered, OutNumbered
    <3>4. CompletedIsWhole'
      BY <1>b, <2>2, <2>5, <3>3 DEF Numbers, CompletedIsWhole
    <3> QED
      BY <1>0, <2>3, <3>1, <3>2, <3>4 DEF IInv
  <2>6. CASE /\ Head(events) # Failure /\ (lastWord = "none" \/ Head(events) # said)
             /\ shown' = Append(shown, Head(events)) /\ UNCHANGED <<pump, terminal>>
    <3>1. Pushed(shown, shown', Head(events))
      BY <2>1, <2>6, AppendPushes
    <3>2. Head(events) = Len(shown) + 1 /\ Head(events) <= said
      BY <1>a, <2>2, <2>4, <2>6 DEF Numbered, OutNumbered, Written
    <3>3. InOrder'
      BY <1>a, <1>b, <3>1, <3>2 DEF InOrder, Numbers, Pushed
    <3>4. /\ AtOut' = AtOut /\ AtScanned' = AtScanned
          /\ AtHand' = AtHand /\ AtPipe' = AtPipe
      BY <1>b, <2>2, <3>1 DEF Numbers, Popped, Pushed, AtOut, AtScanned, AtHand, AtPipe
    <3>5. OutNumbered'
      <4>1. ASSUME NEW i \in 1 .. Len(events'), events'[i] # Failure
            PROVE  events'[i] = Len(shown') + i
        <5>1. i + 1 \in 1 .. Len(events) /\ events'[i] = events[i + 1]
          BY <2>2 DEF Popped
        <5>2. events[i + 1] = Len(shown) + (i + 1)
          BY <1>a, <2>2, <4>1, <5>1 DEF Numbered, OutNumbered
        <5> QED
          BY <1>b, <3>1, <5>1, <5>2 DEF Numbers, Pushed
      <4> QED
        BY <1>a, <2>2, <3>4, <4>1 DEF Numbered, OutNumbered
    <3>6. ScannedNumbered' /\ PipeNumbered'
      BY <1>a, <2>2, <3>4 DEF Numbered, ScannedNumbered, PipeNumbered
    <3>7. Written'
      BY <1>a, <1>b, <2>2, <3>1, <3>2 DEF Numbers, Popped, Pushed, Written
    <3>8. Failing => Failing'
      <4>1. CASE \E i \in 1 .. Len(events) : events[i] = Failure
        <5>1. PICK i \in 1 .. Len(events) : events[i] = Failure
          BY <4>1
        <5>2. i - 1 \in 1 .. Len(events') /\ events'[i - 1] = events[i]
          BY <1>b, <2>2, <2>6, <5>1 DEF Numbers, Popped
        <5> QED
          BY <5>1, <5>2 DEF Failing
      <4> QED
        BY <2>2, <4>1 DEF Failing
    <3>9. Accounted'
      BY <1>a, <1>b, <2>2, <2>6, <3>1, <3>2, <3>4, <3>8 DEF Numbers, Pushed, Accounted
    <3>10. Numbered' /\ CompletedIsWhole'
      BY <1>a, <2>2, <2>6, <3>5, <3>6 DEF Numbered, CompletedIsWhole, Accounted
    <3> QED
      BY <1>0, <2>3, <3>3, <3>7, <3>9, <3>10 DEF IInv
  <2> QED
    BY <1>a, <1>13, <2>5, <2>6, PumpEventCases
<1>14. CASE PumpClosed
  <2>1. InOrder'
    BY <1>14, <1>a, <1>b DEF PumpClosed, End, process, scanning, joining, answer, Numbers,
       Failure, InOrder
  <2>2. FailureIsLast'
    BY <1>14, <1>a, <1>b DEF PumpClosed, End, process, scanning, joining, answer, Numbers,
       Failure, FailureIsLast
  <2>3. Numbered'
    BY <1>14, <1>a, <1>b DEF PumpClosed, End, process, scanning, joining, answer, Numbers,
       Failure, FailureIsLast, Numbered, OutNumbered, ScannedNumbered, PipeNumbered, AtOut,
       AtScanned, AtHand, AtPipe
  <2>4. Written'
    BY <1>14, <1>a, <1>b DEF PumpClosed, End, process, scanning, joining, answer, Numbers,
       Failure, Written
  <2>5. Accounted'
    BY <1>14, <1>a, <1>b DEF PumpClosed, End, process, scanning, joining, answer, Numbers,
       Failure, Accounted, Failing, Written, FailureIsLast, AtOut, AtScanned, AtHand,
       AtPipe, Numbered, PipeNumbered
  <2>6. CompletedIsWhole'
    BY <1>14, <1>a, <1>b DEF PumpClosed, End, process, scanning, joining, answer, Numbers,
       Failure, CompletedIsWhole, Accounted, Failing, FailureIsLast, AtOut, AtScanned,
       AtHand, AtPipe
  <2> QED
    BY <1>0, <2>1, <2>2, <2>3, <2>4, <2>5, <2>6 DEF IInv
<1>15. CASE PumpCancelled
  <2>1. InOrder'
    BY <1>15, <1>a, <1>b DEF PumpCancelled, process, scanning, joining, answer, Numbers,
       Failure, InOrder
  <2>2. FailureIsLast'
    BY <1>15, <1>a, <1>b DEF PumpCancelled, process, scanning, joining, answer, Numbers,
       Failure, FailureIsLast
  <2>3. Numbered'
    BY <1>15, <1>a, <1>b DEF PumpCancelled, process, scanning, joining, answer, Numbers,
       Failure, FailureIsLast, Numbered, OutNumbered, ScannedNumbered, PipeNumbered, AtOut,
       AtScanned, AtHand, AtPipe
  <2>4. Written'
    BY <1>15, <1>a, <1>b DEF PumpCancelled, process, scanning, joining, answer, Numbers,
       Failure, Written
  <2>5. Accounted'
    BY <1>15, <1>a, <1>b DEF PumpCancelled, process, scanning, joining, answer, Numbers,
       Failure, Accounted, Failing, Written, FailureIsLast, AtOut, AtScanned, AtHand,
       AtPipe, Numbered, PipeNumbered
  <2>6. CompletedIsWhole'
    BY <1>15, <1>a, <1>b DEF PumpCancelled, process, scanning, joining, answer, Numbers,
       Failure, CompletedIsWhole, Accounted
  <2> QED
    BY <1>0, <2>1, <2>2, <2>3, <2>4, <2>5, <2>6 DEF IInv
<1>16. CASE ClientLeaves
  BY <1>0, <1>16, <1>a, <1>b DEF ClientLeaves, process, scanning, joining, answer, IInv, InOrder,
     FailureIsLast, Numbered,
     OutNumbered, ScannedNumbered, PipeNumbered, Written, Accounted, Failing, CompletedIsWhole, Numbers, Failure, AtOut, AtScanned, AtHand, AtPipe
<1>17. CASE UNCHANGED streamVars
  BY <1>0, <1>17, <1>a DEF streamVars, process, scanning, joining, answer, IInv, InOrder,
     FailureIsLast, Numbered,
     OutNumbered, ScannedNumbered, PipeNumbered, Written, Accounted, Failing, CompletedIsWhole, AtOut, AtScanned, AtHand, AtPipe
<1> QED
  BY <1>1, <1>2, <1>3, <1>4, <1>5, <1>6, <1>7, <1>8, <1>9, <1>10, <1>11, <1>12, <1>13,
     <1>14, <1>15,
     <1>16, <1>17 DEF StreamNext, Claude, Scanner, Wrapper, Pump

\* The pipeline numbers its lines consecutively, and loses no failure.
THEOREM Invariant == StreamSpec => []IInv
<1>1. StreamInit => IInv
  BY StreamAssumption DEF StreamInit, IInv, StreamTypes, EventNumbers, InOrder, FailureIsLast, Numbered,
     OutNumbered,
     ScannedNumbered, PipeNumbered, Written, Accounted, CompletedIsWhole, AtOut, AtScanned, AtHand, AtPipe
<1> QED
  BY <1>1, Inductive, PTL DEF StreamSpec

\* The client reads the deltas in order, whatever the channels' capacity.
THEOREM ReadInOrder == StreamSpec => []InOrder
<1>1. IInv => InOrder
  BY DEF IInv
<1> QED
  BY <1>1, Invariant, PTL

\* No part of an answer is passed off as the whole.
THEOREM WholeWhenCompleted == StreamSpec => []CompletedIsWhole
<1>1. IInv => CompletedIsWhole
  BY DEF IInv
<1> QED
  BY <1>1, Invariant, PTL
=============================================================================
