--------------------------- MODULE BootPopupProofs ---------------------------
(***************************************************************************)
(* Proofs about BootPopup, for every bound on the event log.               *)
(***************************************************************************)
EXTENDS BootPopup, SequenceTheorems, TLAPS

Early == {"start", "redirect", "spawn", "prepare"}
NoClient == {"start", "redirect", "spawn", "inlineOnly"}

(***************************************************************************)
(* The strengthening.  The terminal depends on who can still be running:   *)
(* a mode that is decided against the popup, a value in clientDone and     *)
(* every place after a wait for it mean that the client is dead.           *)
(***************************************************************************)
ClientInv ==
  /\ pc \in NoClient <=> client = "none"
  /\ client = "none" => ui = "absent"
  /\ pc \in Early => binder = "none"
  /\ pc = "spawn" => stdio = "log"
  /\ client = "running" => stdio = "log"
  /\ clientDone # "empty" => client = "exited"
  /\ mode \in {"inline", "skipped"} => client \in {"killed", "exited"}
  /\ mode = "inline" => stdio = "tty"

GateInv ==
  /\ pc \in Gate \ {"gate"} => mode = "popup"
  /\ mode = "skipped" => pc \in {"attach", "agent"} \cup Finishing \cup Dead
  /\ pc = "gateClose" => clientDone # "empty"
  /\ pc \in {"attach", "agent"} => stdio = "tty"
  /\ pc \in {"attach", "agent"} \/ (pc = "finish" /\ err = "none")
       => mode # "undecided" /\ (mode = "popup" => client = "exited")
  /\ pc \in {"finishClose", "returned", "exited"} => client # "running"

(* Nothing has ended the log before a boot is decided. *)
VerdictInv ==
  /\ pc \in Early \cup {"phases"} => consumer = "none" /\ Ends(events) = {}
  /\ pc = "waitBoot" =>
       /\ consumer = "running" => Ends(events) = {}
       /\ consumer = "ready" => FirstEnd(events, "finish")
       /\ consumer # "none"
  /\ pc \in Gate \cup {"attach", "agent"} => FirstEnd(events, "finish")

PanelInv ==
  /\ sink # "socket" => sent = 0
  /\ sink = "socket" => mode = "popup"
  /\ sink = "inline" => mode = "inline"
  /\ ui \in {"panel", "dwell", "hold"} => seen >= 1

-----------------------------------------------------------------------------
(* The log only grows: its first end stays where it is. *)
LEMMA FirstEndStable ==
  ASSUME NEW s \in Seq(Kinds), NEW t \in Seq(Kinds), NEW k, FirstEnd(s, k)
  PROVE  FirstEnd(s \o t, k)
<1>1. /\ Len(s \o t) = Len(s) + Len(t)
      /\ \A i \in 1..Len(s) : (s \o t)[i] = s[i]
  BY ConcatProperties
<1>2. PICK i \in Ends(s) : s[i] = k /\ \A j \in Ends(s) : i <= j
  BY DEF FirstEnd
<1>3. i \in Ends(s \o t) /\ (s \o t)[i] = k
  BY <1>1, <1>2, LenProperties DEF Ends
<1>4. ASSUME NEW j \in Ends(s \o t) PROVE i <= j
  BY <1>1, <1>2, LenProperties DEF Ends
<1> QED BY <1>3, <1>4 DEF FirstEnd

(* Steps added to a log without an end do not end it. *)
LEMMA StepsEndNothing ==
  ASSUME NEW s \in Seq(Kinds), NEW t \in Seq(Kinds), Ends(s) = {}, Ends(t) = {}
  PROVE  Ends(s \o t) = {}
<1>1. /\ Len(s \o t) = Len(s) + Len(t)
      /\ \A i \in 1..Len(s) + Len(t) :
           (s \o t)[i] = IF i <= Len(s) THEN s[i] ELSE t[i - Len(s)]
  BY ConcatProperties
<1>2. SUFFICES ASSUME NEW i \in Ends(s \o t) PROVE FALSE
  OBVIOUS
<1>3. CASE i <= Len(s)
  BY <1>1, <1>3, LenProperties DEF Ends
<1>4. CASE ~(i <= Len(s))
  <2>1. i - Len(s) \in 1..Len(t) /\ (s \o t)[i] = t[i - Len(s)]
    BY <1>1, <1>4, LenProperties DEF Ends
  <2>2. i - Len(s) \in Ends(t)
    BY <2>1 DEF Ends
  <2> QED BY <2>2
<1> QED BY <1>3, <1>4

(* The first end of what is appended to a log without an end is its first. *)
LEMMA FirstEndAppended ==
  ASSUME NEW s \in Seq(Kinds), NEW t \in Seq(Kinds), NEW k, Ends(s) = {}, FirstEnd(t, k)
  PROVE  FirstEnd(s \o t, k)
<1>1. /\ Len(s \o t) = Len(s) + Len(t)
      /\ \A i \in 1..Len(s) + Len(t) :
           (s \o t)[i] = IF i <= Len(s) THEN s[i] ELSE t[i - Len(s)]
  BY ConcatProperties
<1>2. PICK i \in Ends(t) : t[i] = k /\ \A j \in Ends(t) : i <= j
  BY DEF FirstEnd
<1>3. i + Len(s) \in Ends(s \o t) /\ (s \o t)[i + Len(s)] = k
  <2>1. i \in 1..Len(t) /\ t[i] \in {"finish", "finish_error"}
    BY DEF Ends
  <2>2. i + Len(s) \in 1..Len(s \o t) /\ (s \o t)[i + Len(s)] = t[i]
    BY <1>1, <2>1, LenProperties
  <2> QED BY <1>2, <2>1, <2>2 DEF Ends
<1>4. ASSUME NEW j \in Ends(s \o t) PROVE i + Len(s) <= j
  <2>1. j \in 1..Len(s) + Len(t) /\ (s \o t)[j] \in {"finish", "finish_error"}
    BY <1>1 DEF Ends
  <2>2. j > Len(s)
    BY <1>1, <2>1, LenProperties DEF Ends
  <2>3. j - Len(s) \in Ends(t)
    BY <1>1, <2>1, <2>2, LenProperties DEF Ends
  <2> QED BY <1>2, <2>1, <2>3, LenProperties DEF Ends
<1> QED BY <1>3, <1>4 DEF FirstEnd

(* The logs the engine appends, and which of them end a boot. *)
LEMMA Appended ==
  /\ <<"groups">> \in Seq(Kinds) /\ Ends(<<"groups">>) = {}
  /\ <<"step">> \in Seq(Kinds) /\ Ends(<<"step">>) = {}
  /\ <<"finish_error">> \in Seq(Kinds)
  /\ <<"step", "finish">> \in Seq(Kinds) /\ FirstEnd(<<"step", "finish">>, "finish")
  /\ <<"step", "finish", "step">> \in Seq(Kinds)
  /\ FirstEnd(<<"step", "finish", "step">>, "finish")
<1>1. Ends(<<"groups">>) = {} /\ Ends(<<"step">>) = {}
  BY DEF Ends
<1>2. FirstEnd(<<"step", "finish">>, "finish")
  BY DEF FirstEnd, Ends
<1>3. FirstEnd(<<"step", "finish", "step">>, "finish")
  BY DEF FirstEnd, Ends
<1> QED BY <1>1, <1>2, <1>3 DEF Kinds

(* Emitting well-typed events keeps the counters within the log. *)
LEMMA EmitTyped ==
  ASSUME TypeOK, NEW t \in Seq(Kinds), Emit(t)
  PROVE  /\ events' \in Seq(Kinds) /\ sink' = sink
         /\ sent' \in 0..Len(events') /\ sent <= sent'
         /\ Len(events) <= Len(events')
         /\ sink # "socket" => sent' = sent
<1>1. events' \in Seq(Kinds) /\ Len(events') = Len(events) + Len(t)
  BY ConcatProperties DEF TypeOK, Emit
<1> QED BY <1>1, LenProperties DEF TypeOK, Emit

(* What each log the engine appends does to the verdict. *)
LEMMA EmitVerdict ==
  ASSUME TypeOK, NEW t \in Seq(Kinds), Emit(t)
  PROVE  /\ FirstEnd(events, "finish") => FirstEnd(events', "finish")
         /\ Ends(events) = {} /\ Ends(t) = {} => Ends(events') = {}
         /\ Ends(events) = {} /\ FirstEnd(t, "finish") => FirstEnd(events', "finish")
  BY FirstEndStable, StepsEndNothing, FirstEndAppended DEF TypeOK, Emit

-----------------------------------------------------------------------------
(* Every value the variables take has its type, and boot-ui never reads    *)
(* past what was written nor the writer past the log.                      *)
THEOREM TypeCorrect == Spec => []TypeOK
<1>1. Init => TypeOK
  BY DEF Init, TypeOK, PCs, UIGone, Dead
<1>2. TypeOK /\ [Next]_vars => TypeOK'
  <2> SUFFICES ASSUME TypeOK, [Next]_vars PROVE TypeOK'
    OBVIOUS
  <2> USE DEF PCs, Gate, Finishing, Dead, UIGone, vars, engine, session, stream, peer
  <2>1. CASE StartPopup
    <3>1. CASE Listen
      BY <3>1 DEF TypeOK, Listen
    <3>2. CASE RedirectStdio
      BY <3>2 DEF TypeOK, RedirectStdio, CloseListener
    <3>3. CASE StartClient
      BY <3>3 DEF TypeOK, StartClient, CloseListener
    <3> QED BY <2>1, <3>1, <3>2, <3>3 DEF StartPopup
  <2>2. CASE Goroutines
    <3>1. CASE AcceptConn
      BY <3>1 DEF TypeOK, AcceptConn
    <3>2. CASE ReadAck
      BY <3>2 DEF TypeOK, ReadAck
    <3>3. CASE ReapClient
      BY <3>3 DEF TypeOK, ReapClient
    <3>4. CASE BinderConnected
      BY <3>4, LenProperties DEF TypeOK, BinderConnected, BindSocket, Connected
    <3>5. CASE BinderTimeout
      BY <3>5 DEF TypeOK, BinderTimeout, AbandonClient, CloseListener, KillClient
    <3> QED BY <2>2, <3>1, <3>2, <3>3, <3>4, <3>5 DEF Goroutines
  <2>3. CASE Boot
    <3>1. CASE NewBootView
      <4>1. /\ events' \in Seq(Kinds) /\ sink' = sink
            /\ sent' \in 0..Len(events') /\ sent <= sent'
        BY <3>1, EmitTyped, Appended DEF NewBootView
      <4> QED BY <3>1, <4>1 DEF TypeOK, NewBootView
    <3>2. CASE PhaseFails
      BY <3>2 DEF TypeOK, PhaseFails, ReturnFrom
    <3>3. CASE PhaseStep
      <4>1. /\ events' \in Seq(Kinds) /\ sink' = sink
            /\ sent' \in 0..Len(events') /\ sent <= sent'
        BY <3>3, EmitTyped, Appended DEF PhaseStep
      <4> QED BY <3>3, <4>1 DEF TypeOK, PhaseStep
    <3>4. CASE AttachRunning
      <4>1. /\ events' \in Seq(Kinds) /\ sink' = sink
            /\ sent' \in 0..Len(events') /\ sent <= sent'
        BY <3>4, EmitTyped, Appended DEF AttachRunning
      <4> QED BY <3>4, <4>1 DEF TypeOK, AttachRunning
    <3>5. CASE StartFails
      <4>1. /\ events' \in Seq(Kinds) /\ sink' = sink
            /\ sent' \in 0..Len(events') /\ sent <= sent'
        BY <3>5, EmitTyped, Appended DEF StartFails
      <4> QED BY <3>5, <4>1 DEF TypeOK, StartFails, ReturnFrom
    <3>6. CASE StartContainer
      BY <3>6 DEF TypeOK, StartContainer
    <3>7. CASE BootReady
      <4>1. /\ events' \in Seq(Kinds) /\ sink' = sink
            /\ sent' \in 0..Len(events') /\ sent <= sent'
        BY <3>7, EmitTyped, Appended DEF BootReady
      <4> QED BY <3>7, <4>1 DEF TypeOK, BootReady
    <3>8. CASE BootInterrupted
      <4>1. /\ events' \in Seq(Kinds) /\ sink' = sink
            /\ sent' \in 0..Len(events') /\ sent <= sent'
        BY <3>8, EmitTyped, Appended DEF BootInterrupted
      <4> QED BY <3>8, <4>1 DEF TypeOK, BootInterrupted, ReturnFrom
    <3>9. CASE BootTimeout
      <4>1. /\ events' \in Seq(Kinds) /\ sink' = sink
            /\ sent' \in 0..Len(events') /\ sent <= sent'
        BY <3>9, EmitTyped, Appended DEF BootTimeout
      <4> QED BY <3>9, <4>1 DEF TypeOK, BootTimeout, ReturnFrom
    <3> QED BY <2>3, <3>1, <3>2, <3>3, <3>4, <3>5, <3>6, <3>7, <3>8, <3>9 DEF Boot
  <2>4. CASE Consumer
    <3>1. CASE ConsumeStep
      <4>1. /\ events' \in Seq(Kinds) /\ sink' = sink
            /\ sent' \in 0..Len(events') /\ sent <= sent'
        BY <3>1, EmitTyped, Appended DEF ConsumeStep
      <4> QED BY <3>1, <4>1 DEF TypeOK, ConsumeStep
    <3>2. CASE ConsumeReady
      <4>1. /\ events' \in Seq(Kinds) /\ sink' = sink
            /\ sent' \in 0..Len(events') /\ sent <= sent'
        BY <3>2, EmitTyped, Appended DEF ConsumeReady
      <4> QED BY <3>2, <4>1 DEF TypeOK, ConsumeReady
    <3>3. CASE ConsumeClosed
      <4>1. /\ events' \in Seq(Kinds) /\ sink' = sink
            /\ sent' \in 0..Len(events') /\ sent <= sent'
        BY <3>3, EmitTyped, Appended DEF ConsumeClosed
      <4> QED BY <3>3, <4>1 DEF TypeOK, ConsumeClosed
    <3> QED BY <2>4, <3>1, <3>2, <3>3 DEF Consumer
  <2>5. CASE BeforeAttach
    <3>1. CASE GateUndecided
      BY <3>1 DEF TypeOK, GateUndecided, AbandonClient, CloseListener, KillClient
    <3>2. CASE GateInline
      BY <3>2 DEF TypeOK, GateInline
    <3>3. CASE GatePopup
      BY <3>3 DEF TypeOK, GatePopup
    <3>4. CASE AwaitAck
      BY <3>4 DEF TypeOK, AwaitAck
    <3>5. CASE AwaitClient
      BY <3>5 DEF TypeOK, AwaitClient, TakeClientDone
    <3>6. CASE ClientTimeout
      BY <3>6 DEF TypeOK, ClientTimeout, KillClient
    <3>7. CASE AwaitKilledClient
      BY <3>7 DEF TypeOK, AwaitKilledClient, TakeClientDone
    <3>8. CASE GateClose
      BY <3>8 DEF TypeOK, GateClose, CloseListener
    <3> QED BY <2>5, <3>1, <3>2, <3>3, <3>4, <3>5, <3>6, <3>7, <3>8 DEF BeforeAttach
  <2>6. CASE Agent
    <3>1. CASE AgentStarts
      BY <3>1 DEF TypeOK, AgentStarts
    <3>2. CASE AgentStartFails
      BY <3>2 DEF TypeOK, AgentStartFails, ReturnFrom
    <3>3. CASE AgentExits
      BY <3>3 DEF TypeOK, AgentExits, ReturnFrom
    <3> QED BY <2>6, <3>1, <3>2, <3>3 DEF Agent
  <2>7. CASE Finish
    <3>1. CASE FinishUndecided
      BY <3>1 DEF TypeOK, FinishUndecided, AbandonClient, CloseListener, KillClient
    <3>2. CASE FinishFailed
      BY <3>2, EmitTyped, Appended, SMTT(20) DEF TypeOK, FinishFailed
    <3>3. CASE FinishQuiet
      BY <3>3 DEF TypeOK, FinishQuiet
    <3>4. CASE FinishAwaitClient
      BY <3>4 DEF TypeOK, FinishAwaitClient, TakeClientDone
    <3>5. CASE FinishClose
      BY <3>5 DEF TypeOK, FinishClose, CloseListener
    <3>6. CASE ProcessExit
      BY <3>6 DEF TypeOK, ProcessExit, ProcessGone
    <3> QED BY <2>7, <3>1, <3>2, <3>3, <3>4, <3>5, <3>6 DEF Finish
  <2>8. CASE Tmux
    <3>1. CASE UISpawn
      BY <3>1 DEF TypeOK, UISpawn
    <3>2. CASE PopupRefused
      BY <3>2 DEF TypeOK, PopupRefused
    <3>3. CASE ClientExits
      BY <3>3 DEF TypeOK, ClientExits
    <3>4. CASE UILost
      BY <3>4 DEF TypeOK, UILost, UIExits
    <3> QED BY <2>8, <3>1, <3>2, <3>3, <3>4 DEF Tmux
  <2>9. CASE BootUI
    <3>1. CASE UIDials
      BY <3>1 DEF TypeOK, UIDials
    <3>2. CASE UIUnreachable
      BY <3>2 DEF TypeOK, UIUnreachable, UIExits
    <3>3. CASE UIReads
      BY <3>3 DEF TypeOK, UIReads, UIExits, After
    <3>4. CASE UIEof
      BY <3>4 DEF TypeOK, UIEof
    <3>5. CASE UIDwellOver
      BY <3>5 DEF TypeOK, UIDwellOver, UIExits
    <3> QED BY <2>9, <3>1, <3>2, <3>3, <3>4, <3>5 DEF BootUI
  <2>10. CASE User
    <3>1. CASE PressKey
      BY <3>1 DEF TypeOK, PressKey, UIExits
    <3>2. CASE CtrlC
      BY <3>2 DEF TypeOK, CtrlC, ProcessGone
    <3>3. CASE ForceQuit
      BY <3>3 DEF TypeOK, ForceQuit, UIExits
    <3> QED BY <2>10, <3>1, <3>2, <3>3 DEF User
  <2>11. CASE UNCHANGED vars
    BY <2>11 DEF TypeOK
  <2> QED BY <2>1, <2>2, <2>3, <2>4, <2>5, <2>6, <2>7, <2>8, <2>9, <2>10, <2>11 DEF Next
<1> QED BY <1>1, <1>2, PTL DEF Spec

-----------------------------------------------------------------------------
IInv == TypeOK /\ ClientInv /\ GateInv /\ VerdictInv /\ PanelInv

LEMMA IInvInit == Init => IInv
<1> SUFFICES ASSUME Init PROVE IInv
  OBVIOUS
<1>1. TypeOK
  BY DEF Init, TypeOK, PCs, UIGone, Dead
<1>2. ClientInv /\ GateInv /\ PanelInv
  BY DEF Init, ClientInv, GateInv, PanelInv, Early, NoClient, Gate
<1>3. VerdictInv
  BY DEF Init, VerdictInv, Early, Gate, Ends
<1> QED BY <1>1, <1>2, <1>3 DEF IInv

LEMMA IInvStep == IInv /\ TypeOK' /\ [Next]_vars => IInv'
<1> SUFFICES ASSUME IInv, TypeOK', [Next]_vars PROVE IInv'
  OBVIOUS
<1> USE DEF IInv, Early, NoClient, Gate, Finishing, Dead, vars, engine, session, stream, peer
<1>1. CASE StartPopup
  <2>1. CASE Listen
    <3>1. ClientInv'
      BY <2>1 DEF TypeOK, ClientInv, GateInv, Listen, PCs, UIGone, Alive
    <3>2. GateInv'
      BY <2>1 DEF TypeOK, ClientInv, GateInv, Listen, PCs, Alive
    <3>3. VerdictInv'
      BY <2>1 DEF TypeOK, VerdictInv, Listen, PCs, Alive
    <3>4. PanelInv'
      BY <2>1 DEF TypeOK, ClientInv, PanelInv, Listen, UIGone, Alive
    <3> QED BY <3>1, <3>2, <3>3, <3>4
  <2>2. CASE RedirectStdio
    <3>1. ClientInv'
      BY <2>2 DEF TypeOK, ClientInv, GateInv, RedirectStdio, CloseListener, PCs, UIGone, Alive
    <3>2. GateInv'
      BY <2>2 DEF TypeOK, ClientInv, GateInv, RedirectStdio, CloseListener, PCs, Alive
    <3>3. VerdictInv'
      BY <2>2 DEF TypeOK, VerdictInv, RedirectStdio, CloseListener, PCs, Alive
    <3>4. PanelInv'
      BY <2>2 DEF TypeOK, ClientInv, PanelInv, RedirectStdio, CloseListener, UIGone, Alive
    <3> QED BY <3>1, <3>2, <3>3, <3>4
  <2>3. CASE StartClient
    <3>1. ClientInv'
      BY <2>3 DEF TypeOK, ClientInv, GateInv, StartClient, CloseListener, PCs, UIGone, Alive
    <3>2. GateInv'
      BY <2>3 DEF TypeOK, ClientInv, GateInv, StartClient, CloseListener, PCs, Alive
    <3>3. VerdictInv'
      BY <2>3 DEF TypeOK, VerdictInv, StartClient, CloseListener, PCs, Alive
    <3>4. PanelInv'
      BY <2>3 DEF TypeOK, ClientInv, PanelInv, StartClient, CloseListener, UIGone, Alive
    <3> QED BY <3>1, <3>2, <3>3, <3>4
  <2> QED BY <1>1, <2>1, <2>2, <2>3 DEF StartPopup
<1>2. CASE Goroutines
  <2>1. CASE AcceptConn
    <3>1. ClientInv'
      BY <2>1 DEF TypeOK, ClientInv, GateInv, AcceptConn, PCs, UIGone, Alive
    <3>2. GateInv'
      BY <2>1 DEF TypeOK, ClientInv, GateInv, AcceptConn, PCs, Alive
    <3>3. VerdictInv'
      BY <2>1 DEF TypeOK, VerdictInv, AcceptConn, PCs, Alive
    <3>4. PanelInv'
      BY <2>1 DEF TypeOK, ClientInv, PanelInv, AcceptConn, UIGone, Alive
    <3> QED BY <3>1, <3>2, <3>3, <3>4
  <2>2. CASE ReadAck
    <3>1. ClientInv'
      BY <2>2 DEF TypeOK, ClientInv, GateInv, ReadAck, PCs, UIGone, Alive
    <3>2. GateInv'
      BY <2>2 DEF TypeOK, ClientInv, GateInv, ReadAck, PCs, Alive
    <3>3. VerdictInv'
      BY <2>2 DEF TypeOK, VerdictInv, ReadAck, PCs, Alive
    <3>4. PanelInv'
      BY <2>2 DEF TypeOK, ClientInv, PanelInv, ReadAck, UIGone, Alive
    <3> QED BY <3>1, <3>2, <3>3, <3>4
  <2>3. CASE ReapClient
    <3>1. ClientInv'
      BY <2>3 DEF TypeOK, ClientInv, GateInv, ReapClient, PCs, UIGone, Alive
    <3>2. GateInv'
      BY <2>3 DEF TypeOK, ClientInv, GateInv, ReapClient, PCs, Alive
    <3>3. VerdictInv'
      BY <2>3 DEF TypeOK, VerdictInv, ReapClient, PCs, Alive
    <3>4. PanelInv'
      BY <2>3 DEF TypeOK, ClientInv, PanelInv, ReapClient, UIGone, Alive
    <3> QED BY <3>1, <3>2, <3>3, <3>4
  <2>4. CASE BinderConnected
    <3>1. ClientInv'
      BY <2>4 DEF TypeOK, ClientInv, GateInv, BinderConnected, BindSocket, Connected, PCs, UIGone, Alive
    <3>2. GateInv'
      BY <2>4 DEF TypeOK, ClientInv, GateInv, BinderConnected, BindSocket, Connected, PCs, Alive
    <3>3. VerdictInv'
      BY <2>4 DEF TypeOK, VerdictInv, BinderConnected, BindSocket, Connected, PCs, Alive
    <3>4. PanelInv'
      BY <2>4 DEF TypeOK, ClientInv, PanelInv, BinderConnected, BindSocket, Connected, UIGone, Alive
    <3> QED BY <3>1, <3>2, <3>3, <3>4
  <2>5. CASE BinderTimeout
    <3>1. ClientInv'
      BY <2>5 DEF TypeOK, ClientInv, GateInv, BinderTimeout, AbandonClient, CloseListener, KillClient, PCs, UIGone, Alive
    <3>2. GateInv'
      BY <2>5 DEF TypeOK, ClientInv, GateInv, BinderTimeout, AbandonClient, CloseListener, KillClient, PCs, Alive
    <3>3. VerdictInv'
      BY <2>5 DEF TypeOK, VerdictInv, BinderTimeout, AbandonClient, CloseListener, KillClient, PCs, Alive
    <3>4. PanelInv'
      BY <2>5 DEF TypeOK, ClientInv, PanelInv, BinderTimeout, AbandonClient, CloseListener, KillClient, UIGone, Alive
    <3> QED BY <3>1, <3>2, <3>3, <3>4
  <2> QED BY <1>2, <2>1, <2>2, <2>3, <2>4, <2>5 DEF Goroutines
<1>3. CASE Boot
  <2>1. CASE NewBootView
    <3>1. ClientInv'
      BY <2>1, EmitTyped, Appended DEF TypeOK, ClientInv, GateInv, NewBootView, PCs, UIGone, Alive
    <3>2. GateInv'
      BY <2>1, EmitTyped, Appended DEF TypeOK, ClientInv, GateInv, NewBootView, PCs, Alive
    <3>3. VerdictInv'
      BY <2>1, EmitVerdict, Appended DEF TypeOK, VerdictInv, NewBootView, PCs, Alive
    <3>4. PanelInv'
      BY <2>1, EmitTyped, Appended DEF TypeOK, ClientInv, PanelInv, NewBootView, UIGone, Alive
    <3> QED BY <3>1, <3>2, <3>3, <3>4
  <2>2. CASE PhaseFails
    <3>1. ClientInv'
      BY <2>2 DEF TypeOK, ClientInv, GateInv, PhaseFails, ReturnFrom, PCs, UIGone, Alive
    <3>2. GateInv'
      BY <2>2 DEF TypeOK, ClientInv, GateInv, PhaseFails, ReturnFrom, PCs, Alive
    <3>3. VerdictInv'
      BY <2>2 DEF TypeOK, VerdictInv, PhaseFails, ReturnFrom, PCs, Alive
    <3>4. PanelInv'
      BY <2>2 DEF TypeOK, ClientInv, PanelInv, PhaseFails, ReturnFrom, UIGone, Alive
    <3> QED BY <3>1, <3>2, <3>3, <3>4
  <2>3. CASE PhaseStep
    <3>1. ClientInv'
      BY <2>3, EmitTyped, Appended DEF TypeOK, ClientInv, GateInv, PhaseStep, PCs, UIGone, Alive
    <3>2. GateInv'
      BY <2>3, EmitTyped, Appended DEF TypeOK, ClientInv, GateInv, PhaseStep, PCs, Alive
    <3>3. VerdictInv'
      BY <2>3, EmitVerdict, Appended DEF TypeOK, VerdictInv, PhaseStep, PCs, Alive
    <3>4. PanelInv'
      BY <2>3, EmitTyped, Appended DEF TypeOK, ClientInv, PanelInv, PhaseStep, UIGone, Alive
    <3> QED BY <3>1, <3>2, <3>3, <3>4
  <2>4. CASE AttachRunning
    <3>1. ClientInv'
      BY <2>4, EmitTyped, Appended DEF TypeOK, ClientInv, GateInv, AttachRunning, PCs, UIGone, Alive
    <3>2. GateInv'
      BY <2>4, EmitTyped, Appended DEF TypeOK, ClientInv, GateInv, AttachRunning, PCs, Alive
    <3>3. VerdictInv'
      BY <2>4, EmitVerdict, Appended DEF TypeOK, VerdictInv, AttachRunning, PCs, Alive
    <3>4. PanelInv'
      BY <2>4, EmitTyped, Appended DEF TypeOK, ClientInv, PanelInv, AttachRunning, UIGone, Alive
    <3> QED BY <3>1, <3>2, <3>3, <3>4
  <2>5. CASE StartFails
    <3>1. ClientInv'
      BY <2>5, EmitTyped, Appended DEF TypeOK, ClientInv, GateInv, StartFails, ReturnFrom, PCs, UIGone, Alive
    <3>2. GateInv'
      BY <2>5, EmitTyped, Appended DEF TypeOK, ClientInv, GateInv, StartFails, ReturnFrom, PCs, Alive
    <3>3. VerdictInv'
      BY <2>5, EmitVerdict, Appended DEF TypeOK, VerdictInv, StartFails, ReturnFrom, PCs, Alive
    <3>4. PanelInv'
      BY <2>5, EmitTyped, Appended DEF TypeOK, ClientInv, PanelInv, StartFails, ReturnFrom, UIGone, Alive
    <3> QED BY <3>1, <3>2, <3>3, <3>4
  <2>6. CASE StartContainer
    <3>1. ClientInv'
      BY <2>6 DEF TypeOK, ClientInv, GateInv, StartContainer, PCs, UIGone, Alive
    <3>2. GateInv'
      BY <2>6 DEF TypeOK, ClientInv, GateInv, StartContainer, PCs, Alive
    <3>3. VerdictInv'
      BY <2>6 DEF TypeOK, VerdictInv, StartContainer, PCs, Alive
    <3>4. PanelInv'
      BY <2>6 DEF TypeOK, ClientInv, PanelInv, StartContainer, UIGone, Alive
    <3> QED BY <3>1, <3>2, <3>3, <3>4
  <2>7. CASE BootReady
    <3>1. ClientInv'
      BY <2>7, EmitTyped, Appended DEF TypeOK, ClientInv, GateInv, BootReady, PCs, UIGone, Alive
    <3>2. GateInv'
      BY <2>7, EmitTyped, Appended DEF TypeOK, ClientInv, GateInv, BootReady, PCs, Alive
    <3>3. VerdictInv'
      BY <2>7, EmitVerdict, Appended DEF TypeOK, VerdictInv, BootReady, PCs, Alive
    <3>4. PanelInv'
      BY <2>7, EmitTyped, Appended DEF TypeOK, ClientInv, PanelInv, BootReady, UIGone, Alive
    <3> QED BY <3>1, <3>2, <3>3, <3>4
  <2>8. CASE BootInterrupted
    <3>1. ClientInv'
      BY <2>8, EmitTyped, Appended DEF TypeOK, ClientInv, GateInv, BootInterrupted, ReturnFrom, PCs, UIGone, Alive
    <3>2. GateInv'
      BY <2>8, EmitTyped, Appended DEF TypeOK, ClientInv, GateInv, BootInterrupted, ReturnFrom, PCs, Alive
    <3>3. VerdictInv'
      BY <2>8, EmitVerdict, Appended DEF TypeOK, VerdictInv, BootInterrupted, ReturnFrom, PCs, Alive
    <3>4. PanelInv'
      BY <2>8, EmitTyped, Appended DEF TypeOK, ClientInv, PanelInv, BootInterrupted, ReturnFrom, UIGone, Alive
    <3> QED BY <3>1, <3>2, <3>3, <3>4
  <2>9. CASE BootTimeout
    <3>1. ClientInv'
      BY <2>9, EmitTyped, Appended DEF TypeOK, ClientInv, GateInv, BootTimeout, ReturnFrom, PCs, UIGone, Alive
    <3>2. GateInv'
      BY <2>9, EmitTyped, Appended DEF TypeOK, ClientInv, GateInv, BootTimeout, ReturnFrom, PCs, Alive
    <3>3. VerdictInv'
      BY <2>9, EmitVerdict, Appended DEF TypeOK, VerdictInv, BootTimeout, ReturnFrom, PCs, Alive
    <3>4. PanelInv'
      BY <2>9, EmitTyped, Appended DEF TypeOK, ClientInv, PanelInv, BootTimeout, ReturnFrom, UIGone, Alive
    <3> QED BY <3>1, <3>2, <3>3, <3>4
  <2> QED BY <1>3, <2>1, <2>2, <2>3, <2>4, <2>5, <2>6, <2>7, <2>8, <2>9 DEF Boot
<1>4. CASE Consumer
  <2>1. CASE ConsumeStep
    <3>1. ClientInv'
      BY <2>1, EmitTyped, Appended DEF TypeOK, ClientInv, GateInv, ConsumeStep, PCs, UIGone, Alive
    <3>2. GateInv'
      BY <2>1, EmitTyped, Appended DEF TypeOK, ClientInv, GateInv, ConsumeStep, PCs, Alive
    <3>3. VerdictInv'
      BY <2>1, EmitVerdict, Appended DEF TypeOK, VerdictInv, ConsumeStep, PCs, Alive
    <3>4. PanelInv'
      BY <2>1, EmitTyped, Appended DEF TypeOK, ClientInv, PanelInv, ConsumeStep, UIGone, Alive
    <3> QED BY <3>1, <3>2, <3>3, <3>4
  <2>2. CASE ConsumeReady
    <3>1. ClientInv'
      BY <2>2, EmitTyped, Appended DEF TypeOK, ClientInv, GateInv, ConsumeReady, PCs, UIGone, Alive
    <3>2. GateInv'
      BY <2>2, EmitTyped, Appended DEF TypeOK, ClientInv, GateInv, ConsumeReady, PCs, Alive
    <3>3. VerdictInv'
      BY <2>2, EmitVerdict, Appended DEF TypeOK, VerdictInv, ConsumeReady, PCs, Alive
    <3>4. PanelInv'
      BY <2>2, EmitTyped, Appended DEF TypeOK, ClientInv, PanelInv, ConsumeReady, UIGone, Alive
    <3> QED BY <3>1, <3>2, <3>3, <3>4
  <2>3. CASE ConsumeClosed
    <3>1. ClientInv'
      BY <2>3, EmitTyped, Appended DEF TypeOK, ClientInv, GateInv, ConsumeClosed, PCs, UIGone, Alive
    <3>2. GateInv'
      BY <2>3, EmitTyped, Appended DEF TypeOK, ClientInv, GateInv, ConsumeClosed, PCs, Alive
    <3>3. VerdictInv'
      BY <2>3, EmitVerdict, Appended DEF TypeOK, VerdictInv, ConsumeClosed, PCs, Alive
    <3>4. PanelInv'
      BY <2>3, EmitTyped, Appended DEF TypeOK, ClientInv, PanelInv, ConsumeClosed, UIGone, Alive
    <3> QED BY <3>1, <3>2, <3>3, <3>4
  <2> QED BY <1>4, <2>1, <2>2, <2>3 DEF Consumer
<1>5. CASE BeforeAttach
  <2>1. CASE GateUndecided
    <3>1. ClientInv'
      BY <2>1 DEF TypeOK, ClientInv, GateInv, GateUndecided, AbandonClient, CloseListener, KillClient, PCs, UIGone, Alive
    <3>2. GateInv'
      BY <2>1 DEF TypeOK, ClientInv, GateInv, GateUndecided, AbandonClient, CloseListener, KillClient, PCs, Alive
    <3>3. VerdictInv'
      BY <2>1 DEF TypeOK, VerdictInv, GateUndecided, AbandonClient, CloseListener, KillClient, PCs, Alive
    <3>4. PanelInv'
      BY <2>1 DEF TypeOK, ClientInv, PanelInv, GateUndecided, AbandonClient, CloseListener, KillClient, UIGone, Alive
    <3> QED BY <3>1, <3>2, <3>3, <3>4
  <2>2. CASE GateInline
    <3>1. ClientInv'
      BY <2>2 DEF TypeOK, ClientInv, GateInv, GateInline, PCs, UIGone, Alive
    <3>2. GateInv'
      BY <2>2 DEF TypeOK, ClientInv, GateInv, GateInline, PCs, Alive
    <3>3. VerdictInv'
      BY <2>2 DEF TypeOK, VerdictInv, GateInline, PCs, Alive
    <3>4. PanelInv'
      BY <2>2 DEF TypeOK, ClientInv, PanelInv, GateInline, UIGone, Alive
    <3> QED BY <3>1, <3>2, <3>3, <3>4
  <2>3. CASE GatePopup
    <3>1. ClientInv'
      BY <2>3 DEF TypeOK, ClientInv, GateInv, GatePopup, PCs, UIGone, Alive
    <3>2. GateInv'
      BY <2>3 DEF TypeOK, ClientInv, GateInv, GatePopup, PCs, Alive
    <3>3. VerdictInv'
      BY <2>3 DEF TypeOK, VerdictInv, GatePopup, PCs, Alive
    <3>4. PanelInv'
      BY <2>3 DEF TypeOK, ClientInv, PanelInv, GatePopup, UIGone, Alive
    <3> QED BY <3>1, <3>2, <3>3, <3>4
  <2>4. CASE AwaitAck
    <3>1. ClientInv'
      BY <2>4 DEF TypeOK, ClientInv, GateInv, AwaitAck, PCs, UIGone, Alive
    <3>2. GateInv'
      BY <2>4 DEF TypeOK, ClientInv, GateInv, AwaitAck, PCs, Alive
    <3>3. VerdictInv'
      BY <2>4 DEF TypeOK, VerdictInv, AwaitAck, PCs, Alive
    <3>4. PanelInv'
      BY <2>4 DEF TypeOK, ClientInv, PanelInv, AwaitAck, UIGone, Alive
    <3> QED BY <3>1, <3>2, <3>3, <3>4
  <2>5. CASE AwaitClient
    <3>1. ClientInv'
      BY <2>5 DEF TypeOK, ClientInv, GateInv, AwaitClient, TakeClientDone, PCs, UIGone, Alive
    <3>2. GateInv'
      BY <2>5 DEF TypeOK, ClientInv, GateInv, AwaitClient, TakeClientDone, PCs, Alive
    <3>3. VerdictInv'
      BY <2>5 DEF TypeOK, VerdictInv, AwaitClient, TakeClientDone, PCs, Alive
    <3>4. PanelInv'
      BY <2>5 DEF TypeOK, ClientInv, PanelInv, AwaitClient, TakeClientDone, UIGone, Alive
    <3> QED BY <3>1, <3>2, <3>3, <3>4
  <2>6. CASE ClientTimeout
    <3>1. ClientInv'
      BY <2>6 DEF TypeOK, ClientInv, GateInv, ClientTimeout, KillClient, PCs, UIGone, Alive
    <3>2. GateInv'
      BY <2>6 DEF TypeOK, ClientInv, GateInv, ClientTimeout, KillClient, PCs, Alive
    <3>3. VerdictInv'
      BY <2>6 DEF TypeOK, VerdictInv, ClientTimeout, KillClient, PCs, Alive
    <3>4. PanelInv'
      BY <2>6 DEF TypeOK, ClientInv, PanelInv, ClientTimeout, KillClient, UIGone, Alive
    <3> QED BY <3>1, <3>2, <3>3, <3>4
  <2>7. CASE AwaitKilledClient
    <3>1. ClientInv'
      BY <2>7 DEF TypeOK, ClientInv, GateInv, AwaitKilledClient, TakeClientDone, PCs, UIGone, Alive
    <3>2. GateInv'
      BY <2>7 DEF TypeOK, ClientInv, GateInv, AwaitKilledClient, TakeClientDone, PCs, Alive
    <3>3. VerdictInv'
      BY <2>7 DEF TypeOK, VerdictInv, AwaitKilledClient, TakeClientDone, PCs, Alive
    <3>4. PanelInv'
      BY <2>7 DEF TypeOK, ClientInv, PanelInv, AwaitKilledClient, TakeClientDone, UIGone, Alive
    <3> QED BY <3>1, <3>2, <3>3, <3>4
  <2>8. CASE GateClose
    <3>1. ClientInv'
      BY <2>8 DEF TypeOK, ClientInv, GateInv, GateClose, CloseListener, PCs, UIGone, Alive
    <3>2. GateInv'
      BY <2>8 DEF TypeOK, ClientInv, GateInv, GateClose, CloseListener, PCs, Alive
    <3>3. VerdictInv'
      BY <2>8 DEF TypeOK, VerdictInv, GateClose, CloseListener, PCs, Alive
    <3>4. PanelInv'
      BY <2>8 DEF TypeOK, ClientInv, PanelInv, GateClose, CloseListener, UIGone, Alive
    <3> QED BY <3>1, <3>2, <3>3, <3>4
  <2> QED BY <1>5, <2>1, <2>2, <2>3, <2>4, <2>5, <2>6, <2>7, <2>8 DEF BeforeAttach
<1>6. CASE Agent
  <2>1. CASE AgentStarts
    <3>1. ClientInv'
      BY <2>1 DEF TypeOK, ClientInv, GateInv, AgentStarts, PCs, UIGone, Alive
    <3>2. GateInv'
      BY <2>1 DEF TypeOK, ClientInv, GateInv, AgentStarts, PCs, Alive
    <3>3. VerdictInv'
      BY <2>1 DEF TypeOK, VerdictInv, AgentStarts, PCs, Alive
    <3>4. PanelInv'
      BY <2>1 DEF TypeOK, ClientInv, PanelInv, AgentStarts, UIGone, Alive
    <3> QED BY <3>1, <3>2, <3>3, <3>4
  <2>2. CASE AgentStartFails
    <3>1. ClientInv'
      BY <2>2 DEF TypeOK, ClientInv, GateInv, AgentStartFails, ReturnFrom, PCs, UIGone, Alive
    <3>2. GateInv'
      BY <2>2 DEF TypeOK, ClientInv, GateInv, AgentStartFails, ReturnFrom, PCs, Alive
    <3>3. VerdictInv'
      BY <2>2 DEF TypeOK, VerdictInv, AgentStartFails, ReturnFrom, PCs, Alive
    <3>4. PanelInv'
      BY <2>2 DEF TypeOK, ClientInv, PanelInv, AgentStartFails, ReturnFrom, UIGone, Alive
    <3> QED BY <3>1, <3>2, <3>3, <3>4
  <2>3. CASE AgentExits
    <3>1. ClientInv'
      BY <2>3 DEF TypeOK, ClientInv, GateInv, AgentExits, ReturnFrom, PCs, UIGone, Alive
    <3>2. GateInv'
      BY <2>3 DEF TypeOK, ClientInv, GateInv, AgentExits, ReturnFrom, PCs, Alive
    <3>3. VerdictInv'
      BY <2>3 DEF TypeOK, VerdictInv, AgentExits, ReturnFrom, PCs, Alive
    <3>4. PanelInv'
      BY <2>3 DEF TypeOK, ClientInv, PanelInv, AgentExits, ReturnFrom, UIGone, Alive
    <3> QED BY <3>1, <3>2, <3>3, <3>4
  <2> QED BY <1>6, <2>1, <2>2, <2>3 DEF Agent
<1>7. CASE Finish
  <2>1. CASE FinishUndecided
    <3>1. ClientInv'
      BY <2>1 DEF TypeOK, ClientInv, GateInv, FinishUndecided, AbandonClient, CloseListener, KillClient, PCs, UIGone, Alive
    <3>2. GateInv'
      BY <2>1 DEF TypeOK, ClientInv, GateInv, FinishUndecided, AbandonClient, CloseListener, KillClient, PCs, Alive
    <3>3. VerdictInv'
      BY <2>1 DEF TypeOK, VerdictInv, FinishUndecided, AbandonClient, CloseListener, KillClient, PCs, Alive
    <3>4. PanelInv'
      BY <2>1 DEF TypeOK, ClientInv, PanelInv, FinishUndecided, AbandonClient, CloseListener, KillClient, UIGone, Alive
    <3> QED BY <3>1, <3>2, <3>3, <3>4
  <2>2. CASE FinishFailed
    <3>1. ClientInv'
      BY <2>2, EmitTyped, Appended DEF TypeOK, ClientInv, GateInv, FinishFailed, PCs, UIGone, Alive
    <3>2. GateInv'
      BY <2>2, EmitTyped, Appended DEF TypeOK, ClientInv, GateInv, FinishFailed, PCs, Alive
    <3>3. VerdictInv'
      BY <2>2, EmitVerdict, Appended DEF TypeOK, VerdictInv, FinishFailed, PCs, Alive
    <3>4. PanelInv'
      BY <2>2, EmitTyped, Appended DEF TypeOK, ClientInv, PanelInv, FinishFailed, UIGone, Alive
    <3> QED BY <3>1, <3>2, <3>3, <3>4
  <2>3. CASE FinishQuiet
    <3>1. ClientInv'
      BY <2>3 DEF TypeOK, ClientInv, GateInv, FinishQuiet, PCs, UIGone, Alive
    <3>2. GateInv'
      BY <2>3 DEF TypeOK, ClientInv, GateInv, FinishQuiet, PCs, Alive
    <3>3. VerdictInv'
      BY <2>3 DEF TypeOK, VerdictInv, FinishQuiet, PCs, Alive
    <3>4. PanelInv'
      BY <2>3 DEF TypeOK, ClientInv, PanelInv, FinishQuiet, UIGone, Alive
    <3> QED BY <3>1, <3>2, <3>3, <3>4
  <2>4. CASE FinishAwaitClient
    <3>1. ClientInv'
      BY <2>4 DEF TypeOK, ClientInv, GateInv, FinishAwaitClient, TakeClientDone, PCs, UIGone, Alive
    <3>2. GateInv'
      BY <2>4 DEF TypeOK, ClientInv, GateInv, FinishAwaitClient, TakeClientDone, PCs, Alive
    <3>3. VerdictInv'
      BY <2>4 DEF TypeOK, VerdictInv, FinishAwaitClient, TakeClientDone, PCs, Alive
    <3>4. PanelInv'
      BY <2>4 DEF TypeOK, ClientInv, PanelInv, FinishAwaitClient, TakeClientDone, UIGone, Alive
    <3> QED BY <3>1, <3>2, <3>3, <3>4
  <2>5. CASE FinishClose
    <3>1. ClientInv'
      BY <2>5 DEF TypeOK, ClientInv, GateInv, FinishClose, CloseListener, PCs, UIGone, Alive
    <3>2. GateInv'
      BY <2>5 DEF TypeOK, ClientInv, GateInv, FinishClose, CloseListener, PCs, Alive
    <3>3. VerdictInv'
      BY <2>5 DEF TypeOK, VerdictInv, FinishClose, CloseListener, PCs, Alive
    <3>4. PanelInv'
      BY <2>5 DEF TypeOK, ClientInv, PanelInv, FinishClose, CloseListener, UIGone, Alive
    <3> QED BY <3>1, <3>2, <3>3, <3>4
  <2>6. CASE ProcessExit
    <3>1. ClientInv'
      BY <2>6 DEF TypeOK, ClientInv, GateInv, ProcessExit, ProcessGone, PCs, UIGone, Alive
    <3>2. GateInv'
      BY <2>6 DEF TypeOK, ClientInv, GateInv, ProcessExit, ProcessGone, PCs, Alive
    <3>3. VerdictInv'
      BY <2>6 DEF TypeOK, VerdictInv, ProcessExit, ProcessGone, PCs, Alive
    <3>4. PanelInv'
      BY <2>6 DEF TypeOK, ClientInv, PanelInv, ProcessExit, ProcessGone, UIGone, Alive
    <3> QED BY <3>1, <3>2, <3>3, <3>4
  <2> QED BY <1>7, <2>1, <2>2, <2>3, <2>4, <2>5, <2>6 DEF Finish
<1>8. CASE Tmux
  <2>1. CASE UISpawn
    <3>1. ClientInv'
      BY <2>1 DEF TypeOK, ClientInv, GateInv, UISpawn, PCs, UIGone, Alive
    <3>2. GateInv'
      BY <2>1 DEF TypeOK, ClientInv, GateInv, UISpawn, PCs, Alive
    <3>3. VerdictInv'
      BY <2>1 DEF TypeOK, VerdictInv, UISpawn, PCs, Alive
    <3>4. PanelInv'
      BY <2>1 DEF TypeOK, ClientInv, PanelInv, UISpawn, UIGone, Alive
    <3> QED BY <3>1, <3>2, <3>3, <3>4
  <2>2. CASE PopupRefused
    <3>1. ClientInv'
      BY <2>2 DEF TypeOK, ClientInv, GateInv, PopupRefused, PCs, UIGone, Alive
    <3>2. GateInv'
      BY <2>2 DEF TypeOK, ClientInv, GateInv, PopupRefused, PCs, Alive
    <3>3. VerdictInv'
      BY <2>2 DEF TypeOK, VerdictInv, PopupRefused, PCs, Alive
    <3>4. PanelInv'
      BY <2>2 DEF TypeOK, ClientInv, PanelInv, PopupRefused, UIGone, Alive
    <3> QED BY <3>1, <3>2, <3>3, <3>4
  <2>3. CASE ClientExits
    <3>1. ClientInv'
      BY <2>3 DEF TypeOK, ClientInv, GateInv, ClientExits, PCs, UIGone, Alive
    <3>2. GateInv'
      BY <2>3 DEF TypeOK, ClientInv, GateInv, ClientExits, PCs, Alive
    <3>3. VerdictInv'
      BY <2>3 DEF TypeOK, VerdictInv, ClientExits, PCs, Alive
    <3>4. PanelInv'
      BY <2>3 DEF TypeOK, ClientInv, PanelInv, ClientExits, UIGone, Alive
    <3> QED BY <3>1, <3>2, <3>3, <3>4
  <2>4. CASE UILost
    <3>1. ClientInv'
      BY <2>4 DEF TypeOK, ClientInv, GateInv, UILost, UIExits, PCs, UIGone, Alive
    <3>2. GateInv'
      BY <2>4 DEF TypeOK, ClientInv, GateInv, UILost, UIExits, PCs, Alive
    <3>3. VerdictInv'
      BY <2>4 DEF TypeOK, VerdictInv, UILost, UIExits, PCs, Alive
    <3>4. PanelInv'
      BY <2>4 DEF TypeOK, ClientInv, PanelInv, UILost, UIExits, UIGone, Alive
    <3> QED BY <3>1, <3>2, <3>3, <3>4
  <2> QED BY <1>8, <2>1, <2>2, <2>3, <2>4 DEF Tmux
<1>9. CASE BootUI
  <2>1. CASE UIDials
    <3>1. ClientInv'
      BY <2>1 DEF TypeOK, ClientInv, GateInv, UIDials, PCs, UIGone, Alive
    <3>2. GateInv'
      BY <2>1 DEF TypeOK, ClientInv, GateInv, UIDials, PCs, Alive
    <3>3. VerdictInv'
      BY <2>1 DEF TypeOK, VerdictInv, UIDials, PCs, Alive
    <3>4. PanelInv'
      BY <2>1 DEF TypeOK, ClientInv, PanelInv, UIDials, UIGone, Alive
    <3> QED BY <3>1, <3>2, <3>3, <3>4
  <2>2. CASE UIUnreachable
    <3>1. ClientInv'
      BY <2>2 DEF TypeOK, ClientInv, GateInv, UIUnreachable, UIExits, PCs, UIGone, Alive
    <3>2. GateInv'
      BY <2>2 DEF TypeOK, ClientInv, GateInv, UIUnreachable, UIExits, PCs, Alive
    <3>3. VerdictInv'
      BY <2>2 DEF TypeOK, VerdictInv, UIUnreachable, UIExits, PCs, Alive
    <3>4. PanelInv'
      BY <2>2 DEF TypeOK, ClientInv, PanelInv, UIUnreachable, UIExits, UIGone, Alive
    <3> QED BY <3>1, <3>2, <3>3, <3>4
  <2>3. CASE UIReads
    <3>1. ClientInv'
      BY <2>3 DEF TypeOK, ClientInv, GateInv, UIReads, UIExits, After, PCs, UIGone, Alive
    <3>2. GateInv'
      BY <2>3 DEF TypeOK, ClientInv, GateInv, UIReads, UIExits, After, PCs, Alive
    <3>3. VerdictInv'
      BY <2>3 DEF TypeOK, VerdictInv, UIReads, UIExits, After, PCs, Alive
    <3>4. PanelInv'
      BY <2>3 DEF TypeOK, ClientInv, PanelInv, UIReads, UIExits, After, UIGone, Alive
    <3> QED BY <3>1, <3>2, <3>3, <3>4
  <2>4. CASE UIEof
    <3>1. ClientInv'
      BY <2>4 DEF TypeOK, ClientInv, GateInv, UIEof, PCs, UIGone, Alive
    <3>2. GateInv'
      BY <2>4 DEF TypeOK, ClientInv, GateInv, UIEof, PCs, Alive
    <3>3. VerdictInv'
      BY <2>4 DEF TypeOK, VerdictInv, UIEof, PCs, Alive
    <3>4. PanelInv'
      BY <2>4 DEF TypeOK, ClientInv, PanelInv, UIEof, UIGone, Alive
    <3> QED BY <3>1, <3>2, <3>3, <3>4
  <2>5. CASE UIDwellOver
    <3>1. ClientInv'
      BY <2>5 DEF TypeOK, ClientInv, GateInv, UIDwellOver, UIExits, PCs, UIGone, Alive
    <3>2. GateInv'
      BY <2>5 DEF TypeOK, ClientInv, GateInv, UIDwellOver, UIExits, PCs, Alive
    <3>3. VerdictInv'
      BY <2>5 DEF TypeOK, VerdictInv, UIDwellOver, UIExits, PCs, Alive
    <3>4. PanelInv'
      BY <2>5 DEF TypeOK, ClientInv, PanelInv, UIDwellOver, UIExits, UIGone, Alive
    <3> QED BY <3>1, <3>2, <3>3, <3>4
  <2> QED BY <1>9, <2>1, <2>2, <2>3, <2>4, <2>5 DEF BootUI
<1>10. CASE User
  <2>1. CASE PressKey
    <3>1. ClientInv'
      BY <2>1 DEF TypeOK, ClientInv, GateInv, PressKey, UIExits, PCs, UIGone, Alive
    <3>2. GateInv'
      BY <2>1 DEF TypeOK, ClientInv, GateInv, PressKey, UIExits, PCs, Alive
    <3>3. VerdictInv'
      BY <2>1 DEF TypeOK, VerdictInv, PressKey, UIExits, PCs, Alive
    <3>4. PanelInv'
      BY <2>1 DEF TypeOK, ClientInv, PanelInv, PressKey, UIExits, UIGone, Alive
    <3> QED BY <3>1, <3>2, <3>3, <3>4
  <2>2. CASE CtrlC
    <3>1. ClientInv'
      BY <2>2 DEF TypeOK, ClientInv, GateInv, CtrlC, ProcessGone, PCs, UIGone, Alive
    <3>2. GateInv'
      BY <2>2 DEF TypeOK, ClientInv, GateInv, CtrlC, ProcessGone, PCs, Alive
    <3>3. VerdictInv'
      BY <2>2 DEF TypeOK, VerdictInv, CtrlC, ProcessGone, PCs, Alive
    <3>4. PanelInv'
      BY <2>2 DEF TypeOK, ClientInv, PanelInv, CtrlC, ProcessGone, UIGone, Alive
    <3> QED BY <3>1, <3>2, <3>3, <3>4
  <2>3. CASE ForceQuit
    <3>1. ClientInv'
      BY <2>3 DEF TypeOK, ClientInv, GateInv, ForceQuit, UIExits, PCs, UIGone, Alive
    <3>2. GateInv'
      BY <2>3 DEF TypeOK, ClientInv, GateInv, ForceQuit, UIExits, PCs, Alive
    <3>3. VerdictInv'
      BY <2>3 DEF TypeOK, VerdictInv, ForceQuit, UIExits, PCs, Alive
    <3>4. PanelInv'
      BY <2>3 DEF TypeOK, ClientInv, PanelInv, ForceQuit, UIExits, UIGone, Alive
    <3> QED BY <3>1, <3>2, <3>3, <3>4
  <2> QED BY <1>10, <2>1, <2>2, <2>3 DEF User
<1>11. CASE UNCHANGED vars
  BY <1>11 DEF TypeOK, ClientInv, GateInv, VerdictInv, PanelInv
<1> QED BY <1>1, <1>2, <1>3, <1>4, <1>5, <1>6, <1>7, <1>8, <1>9, <1>10, <1>11 DEF Next

LEMMA Inductive == Spec => []IInv
<1>1. IInv /\ [Next]_vars /\ TypeOK' => IInv'
  BY IInvStep
<1> QED BY <1>1, IInvInit, TypeCorrect, PTL DEF Spec

(* As long as the popup client runs, the window process's stdio points at  *)
(* the log (popup.go: redirectStdio, restoreStdio and their callers).      *)
THEOREM TerminalHasOneWriter == Spec => []OneTerminalWriter
<1>1. IInv => OneTerminalWriter
  BY DEF IInv, ClientInv, OneTerminalWriter
<1> QED BY <1>1, Inductive, PTL

(* The agent runs only on the tty, with the client dead and after a boot   *)
(* that succeeded (popup.go: BeforeAttach; run.go: the gate).              *)
THEOREM AgentGated == Spec => []AgentOwnsTerminal
<1>1. IInv => AgentOwnsTerminal
  BY DEF IInv, TypeOK, ClientInv, GateInv, VerdictInv, AgentOwnsTerminal, NoClient
<1> QED BY <1>1, Inductive, PTL

(* The inline panel and the one in the popup never both draw (popup.go:    *)
(* the two branches of NewBootView's goroutine).                           *)
THEOREM PanelDrawnOnce == Spec => []OnePanel
<1>1. IInv => OnePanel
  BY DEF IInv, TypeOK, PanelInv, OnePanel
<1> QED BY <1>1, Inductive, PTL

(* The mode is decided once (popup.go: every decision is taken under mu    *)
(* and looks at the mode first).                                           *)
THEOREM ModeIsDecidedOnce == Spec => ModeDecidedOnce
<1>1. [Next]_vars => (mode # "undecided" => mode' = mode)
  <2> SUFFICES ASSUME [Next]_vars, mode # "undecided" PROVE mode' = mode
    OBVIOUS
  <2> USE DEF vars, engine, session, stream, peer
  <2>1. CASE StartPopup
    BY <2>1 DEF StartPopup, Listen, RedirectStdio, StartClient
  <2>2. CASE Goroutines
    BY <2>2 DEF Goroutines, AcceptConn, ReadAck, ReapClient, BinderConnected, BinderTimeout
  <2>3. CASE Boot
    BY <2>3 DEF Boot, NewBootView, PhaseFails, PhaseStep, AttachRunning, StartFails, StartContainer, BootReady, BootInterrupted, BootTimeout
  <2>4. CASE Consumer
    BY <2>4 DEF Consumer, ConsumeStep, ConsumeReady, ConsumeClosed
  <2>5. CASE BeforeAttach
    BY <2>5 DEF BeforeAttach, GateUndecided, GateInline, GatePopup, AwaitAck, AwaitClient, ClientTimeout, AwaitKilledClient, GateClose, TakeClientDone
  <2>6. CASE Agent
    BY <2>6 DEF Agent, AgentStarts, AgentStartFails, AgentExits
  <2>7. CASE Finish
    BY <2>7 DEF Finish, FinishUndecided, FinishFailed, FinishQuiet, FinishAwaitClient, FinishClose, ProcessExit, TakeClientDone
  <2>8. CASE Tmux
    BY <2>8 DEF Tmux, UISpawn, PopupRefused, ClientExits, UILost
  <2>9. CASE BootUI
    BY <2>9 DEF BootUI, UIDials, UIUnreachable, UIReads, UIEof, UIDwellOver
  <2>10. CASE User
    BY <2>10 DEF User, PressKey, CtrlC, ForceQuit
  <2> QED BY <2>1, <2>2, <2>3, <2>4, <2>5, <2>6, <2>7, <2>8, <2>9, <2>10 DEF Next
<1> QED BY <1>1, PTL DEF Spec, ModeDecidedOnce

-----------------------------------------------------------------------------
(* A log whose first end is not a finish keeps that verdict. *)
LEMMA FailureStable ==
  ASSUME NEW s \in Seq(Kinds), NEW t \in Seq(Kinds), Ends(s) # {}, ~FirstEnd(s, "finish")
  PROVE  Ends(s \o t) # {} /\ ~FirstEnd(s \o t, "finish")
<1>1. /\ Len(s \o t) = Len(s) + Len(t)
      /\ \A i \in 1..Len(s) : (s \o t)[i] = s[i]
  BY ConcatProperties
<1>2. PICK e \in Ends(s) : TRUE
  OBVIOUS
<1>3. Ends(s) \subseteq Ends(s \o t)
  BY <1>1, LenProperties DEF Ends
<1>4. ASSUME NEW i \in Ends(s \o t), (s \o t)[i] = "finish", \A j \in Ends(s \o t) : i <= j
      PROVE  FALSE
  <2>1. i <= e
    BY <1>2, <1>3, <1>4
  <2>2. i \in Ends(s) /\ s[i] = "finish"
    BY <1>1, <1>2, <1>4, <2>1, LenProperties DEF Ends
  <2>3. FirstEnd(s, "finish")
    BY <1>3, <1>4, <2>2 DEF FirstEnd
  <2> QED BY <2>3
<1> QED BY <1>2, <1>3, <1>4 DEF FirstEnd

(* Failing a log without an end gives the verdict "failed". *)
LEMMA FailureAppended ==
  ASSUME NEW s \in Seq(Kinds), Ends(s) = {}
  PROVE  ~FirstEnd(s \o <<"finish_error">>, "finish")
<1>1. SUFFICES ASSUME NEW i \in Ends(s \o <<"finish_error">>),
                      (s \o <<"finish_error">>)[i] = "finish"
               PROVE  FALSE
  BY DEF FirstEnd
<1>2. <<"finish_error">> \in Seq(Kinds)
  BY DEF Kinds
<1>3. /\ Len(s \o <<"finish_error">>) = Len(s) + 1
      /\ \A j \in 1..Len(s) : (s \o <<"finish_error">>)[j] = s[j]
      /\ (s \o <<"finish_error">>)[Len(s) + 1] = "finish_error"
  BY <1>2, ConcatProperties, LenProperties
<1> QED BY <1>1, <1>3, LenProperties DEF Ends

LEMMA VerdictIs == FirstEnd(events, "finish") => Verdict = "ready"
  BY DEF Verdict, Finished, FirstEnd

(* A verdict, once given, stays; what ends the log with an error fails it. *)
LEMMA EmitDecides ==
  ASSUME TypeOK, NEW t \in Seq(Kinds), Emit(t)
  PROVE  /\ Verdict' = Verdict \/ (Verdict = "none" /\ Verdict' \in {"ready", "failed"})
         /\ t = <<"finish_error">> => Verdict' = Verdict \/ Verdict' = "failed"
<1>1. events \in Seq(Kinds) /\ events' = events \o t
  BY DEF TypeOK, Emit
<1>2. CASE FirstEnd(events, "finish")
  <2>1. FirstEnd(events', "finish")
    BY <1>1, <1>2, FirstEndStable
  <2> QED BY <1>2, <2>1 DEF Verdict, Finished, FirstEnd
<1>3. CASE Finished /\ ~FirstEnd(events, "finish")
  <2>1. Ends(events') # {} /\ ~FirstEnd(events', "finish")
    BY <1>1, <1>3, FailureStable DEF Finished
  <2> QED BY <1>3, <2>1 DEF Verdict, Finished
<1>4. CASE ~Finished
  <2>1. t = <<"finish_error">> => ~FirstEnd(events', "finish")
    BY <1>1, <1>4, FailureAppended DEF Finished
  <2> QED BY <1>4, <2>1 DEF Verdict, Finished
<1> QED BY <1>2, <1>3, <1>4 DEF FirstEnd, Finished

LEMMA PromiseStep == IInv /\ IInv' /\ [Next]_vars => [Promise!Next]_(Promise!gateVars)
<1> SUFFICES ASSUME IInv, IInv', [Next]_vars PROVE [Promise!Next]_(Promise!gateVars)
  OBVIOUS
<1> DEFINE Same == UNCHANGED <<Stage, Verdict, Cover>>
<1> DEFINE AStep ==
                   \/ Same
                   \/ Stage = "booting" /\ Cover = "unused" /\ Cover' = "up" /\ UNCHANGED <<Stage, Verdict>>
                   \/ Cover = "up" /\ Cover' = "down" /\ UNCHANGED <<Stage, Verdict>>
                   \/ /\ Stage # "agent" /\ Verdict = "none" /\ Verdict' \in {"ready", "failed"}
                      /\ Stage' = Stage \/ (Verdict' = "failed" /\ Stage' = "over")
                      /\ UNCHANGED Cover
                   \/ /\ Stage = "booting" /\ Verdict = "ready" /\ Cover = "down"
                      /\ Stage' = "agent" /\ UNCHANGED <<Verdict, Cover>>
                   \/ Stage # "over" /\ Stage' = "over" /\ UNCHANGED <<Verdict, Cover>>
<1>A. SUFFICES AStep
  BY DEF Promise!Next, Promise!gateVars, Promise!Open, Promise!Close, Promise!Decide, Promise!Attach, Promise!End
<1>1. CASE StartPopup
  <2> USE DEF vars, engine, session, stream, peer, Gate, Finishing, Dead
  <2>1. CASE Listen
    <3>1. Verdict' = Verdict
      BY <2>1 DEF Listen, Verdict, Finished
    <3>2. \/ Cover' = Cover /\ (Stage' = Stage \/ (Stage # "over" /\ Stage' = "over"))
          \/ Cover = "unused" /\ Cover' = "up" /\ Stage = "booting" /\ Stage' = Stage
          \/ Cover = "up" /\ Cover' = "down" /\ Stage' = Stage
      BY <2>1 DEF Listen, Cover, Stage, IInv, TypeOK, ClientInv, GateInv, NoClient, Early, Alive, PCs
    <3> QED BY <3>1, <3>2
  <2>2. CASE RedirectStdio
    <3>1. Verdict' = Verdict
      BY <2>2 DEF RedirectStdio, CloseListener, Verdict, Finished
    <3>2. \/ Cover' = Cover /\ (Stage' = Stage \/ (Stage # "over" /\ Stage' = "over"))
          \/ Cover = "unused" /\ Cover' = "up" /\ Stage = "booting" /\ Stage' = Stage
          \/ Cover = "up" /\ Cover' = "down" /\ Stage' = Stage
      BY <2>2 DEF RedirectStdio, CloseListener, Cover, Stage, IInv, TypeOK, ClientInv, GateInv, NoClient, Early, Alive, PCs
    <3> QED BY <3>1, <3>2
  <2>3. CASE StartClient
    <3>1. Verdict' = Verdict
      BY <2>3 DEF StartClient, CloseListener, Verdict, Finished
    <3>2. \/ Cover' = Cover /\ (Stage' = Stage \/ (Stage # "over" /\ Stage' = "over"))
          \/ Cover = "unused" /\ Cover' = "up" /\ Stage = "booting" /\ Stage' = Stage
          \/ Cover = "up" /\ Cover' = "down" /\ Stage' = Stage
      BY <2>3 DEF StartClient, CloseListener, Cover, Stage, IInv, TypeOK, ClientInv, GateInv, NoClient, Early, Alive, PCs
    <3> QED BY <3>1, <3>2
  <2> QED BY <1>1, <2>1, <2>2, <2>3 DEF StartPopup
<1>2. CASE Goroutines
  <2> USE DEF vars, engine, session, stream, peer, Gate, Finishing, Dead
  <2>1. CASE AcceptConn
    <3>1. Verdict' = Verdict
      BY <2>1 DEF AcceptConn, Verdict, Finished
    <3>2. \/ Cover' = Cover /\ (Stage' = Stage \/ (Stage # "over" /\ Stage' = "over"))
          \/ Cover = "unused" /\ Cover' = "up" /\ Stage = "booting" /\ Stage' = Stage
          \/ Cover = "up" /\ Cover' = "down" /\ Stage' = Stage
      BY <2>1 DEF AcceptConn, Cover, Stage, IInv, TypeOK, ClientInv, GateInv, NoClient, Early, Alive, PCs
    <3> QED BY <3>1, <3>2
  <2>2. CASE ReadAck
    <3>1. Verdict' = Verdict
      BY <2>2 DEF ReadAck, Verdict, Finished
    <3>2. \/ Cover' = Cover /\ (Stage' = Stage \/ (Stage # "over" /\ Stage' = "over"))
          \/ Cover = "unused" /\ Cover' = "up" /\ Stage = "booting" /\ Stage' = Stage
          \/ Cover = "up" /\ Cover' = "down" /\ Stage' = Stage
      BY <2>2 DEF ReadAck, Cover, Stage, IInv, TypeOK, ClientInv, GateInv, NoClient, Early, Alive, PCs
    <3> QED BY <3>1, <3>2
  <2>3. CASE ReapClient
    <3>1. Verdict' = Verdict
      BY <2>3 DEF ReapClient, Verdict, Finished
    <3>2. \/ Cover' = Cover /\ (Stage' = Stage \/ (Stage # "over" /\ Stage' = "over"))
          \/ Cover = "unused" /\ Cover' = "up" /\ Stage = "booting" /\ Stage' = Stage
          \/ Cover = "up" /\ Cover' = "down" /\ Stage' = Stage
      BY <2>3 DEF ReapClient, Cover, Stage, IInv, TypeOK, ClientInv, GateInv, NoClient, Early, Alive, PCs
    <3> QED BY <3>1, <3>2
  <2>4. CASE BinderConnected
    <3>1. Verdict' = Verdict
      BY <2>4 DEF BinderConnected, BindSocket, Connected, Verdict, Finished
    <3>2. \/ Cover' = Cover /\ (Stage' = Stage \/ (Stage # "over" /\ Stage' = "over"))
          \/ Cover = "unused" /\ Cover' = "up" /\ Stage = "booting" /\ Stage' = Stage
          \/ Cover = "up" /\ Cover' = "down" /\ Stage' = Stage
      BY <2>4 DEF BinderConnected, BindSocket, Connected, Cover, Stage, IInv, TypeOK, ClientInv, GateInv, NoClient, Early, Alive, PCs
    <3> QED BY <3>1, <3>2
  <2>5. CASE BinderTimeout
    <3>1. Verdict' = Verdict
      BY <2>5 DEF BinderTimeout, AbandonClient, CloseListener, KillClient, Verdict, Finished
    <3>2. \/ Cover' = Cover /\ (Stage' = Stage \/ (Stage # "over" /\ Stage' = "over"))
          \/ Cover = "unused" /\ Cover' = "up" /\ Stage = "booting" /\ Stage' = Stage
          \/ Cover = "up" /\ Cover' = "down" /\ Stage' = Stage
      BY <2>5 DEF BinderTimeout, AbandonClient, CloseListener, KillClient, Cover, Stage, IInv, TypeOK, ClientInv, GateInv, NoClient, Early, Alive, PCs
    <3> QED BY <3>1, <3>2
  <2> QED BY <1>2, <2>1, <2>2, <2>3, <2>4, <2>5 DEF Goroutines
<1>3. CASE Boot
  <2> USE DEF vars, engine, session, stream, peer, Gate, Finishing, Dead
  <2>1. CASE NewBootView
    <3>1. Cover' = Cover
      BY <2>1 DEF NewBootView, Cover
    <3>2. \/ Verdict' = Verdict
          \/ Verdict = "none" /\ Verdict' \in {"ready", "failed"}
      BY <2>1, EmitDecides, Appended DEF IInv, NewBootView
    <3>3. Stage # "agent" \/ Verdict = "ready"
      BY VerdictIs DEF IInv, VerdictInv, Stage
    <3>4. Stage' = Stage
      BY <2>1 DEF NewBootView, Stage
    <3> QED BY <3>1, <3>2, <3>3, <3>4
  <2>2. CASE PhaseFails
    <3>1. Verdict' = Verdict
      BY <2>2 DEF PhaseFails, ReturnFrom, Verdict, Finished
    <3>2. \/ Cover' = Cover /\ (Stage' = Stage \/ (Stage # "over" /\ Stage' = "over"))
          \/ Cover = "unused" /\ Cover' = "up" /\ Stage = "booting" /\ Stage' = Stage
          \/ Cover = "up" /\ Cover' = "down" /\ Stage' = Stage
      BY <2>2 DEF PhaseFails, ReturnFrom, Cover, Stage, IInv, TypeOK, ClientInv, GateInv, NoClient, Early, Alive, PCs
    <3> QED BY <3>1, <3>2
  <2>3. CASE PhaseStep
    <3>1. Cover' = Cover
      BY <2>3 DEF PhaseStep, Cover
    <3>2. \/ Verdict' = Verdict
          \/ Verdict = "none" /\ Verdict' \in {"ready", "failed"}
      BY <2>3, EmitDecides, Appended DEF IInv, PhaseStep
    <3>3. Stage # "agent" \/ Verdict = "ready"
      BY VerdictIs DEF IInv, VerdictInv, Stage
    <3>4. Stage' = Stage
      BY <2>3 DEF PhaseStep, Stage
    <3> QED BY <3>1, <3>2, <3>3, <3>4
  <2>4. CASE AttachRunning
    <3>1. Cover' = Cover
      BY <2>4 DEF AttachRunning, Cover
    <3>2. \/ Verdict' = Verdict
          \/ Verdict = "none" /\ Verdict' \in {"ready", "failed"}
      BY <2>4, EmitDecides, Appended DEF IInv, AttachRunning
    <3>3. Stage # "agent" \/ Verdict = "ready"
      BY VerdictIs DEF IInv, VerdictInv, Stage
    <3>4. Stage' = Stage
      BY <2>4 DEF AttachRunning, Stage
    <3> QED BY <3>1, <3>2, <3>3, <3>4
  <2>5. CASE StartFails
    <3>1. Cover' = Cover
      BY <2>5 DEF StartFails, ReturnFrom, Cover
    <3>2. \/ Verdict' = Verdict
          \/ Verdict = "none" /\ Verdict' \in {"failed"}
      BY <2>5, EmitDecides, Appended DEF IInv, StartFails
    <3>3. Stage # "agent" \/ Verdict = "ready"
      BY VerdictIs DEF IInv, VerdictInv, Stage
    <3>4. Stage = "booting" /\ Stage' = "over"
      BY <2>5 DEF StartFails, ReturnFrom, Stage
    <3> QED BY <3>1, <3>2, <3>3, <3>4
  <2>6. CASE StartContainer
    <3>1. Verdict' = Verdict
      BY <2>6 DEF StartContainer, Verdict, Finished
    <3>2. \/ Cover' = Cover /\ (Stage' = Stage \/ (Stage # "over" /\ Stage' = "over"))
          \/ Cover = "unused" /\ Cover' = "up" /\ Stage = "booting" /\ Stage' = Stage
          \/ Cover = "up" /\ Cover' = "down" /\ Stage' = Stage
      BY <2>6 DEF StartContainer, Cover, Stage, IInv, TypeOK, ClientInv, GateInv, NoClient, Early, Alive, PCs
    <3> QED BY <3>1, <3>2
  <2>7. CASE BootReady
    <3>1. Cover' = Cover
      BY <2>7 DEF BootReady, Cover
    <3>2. \/ Verdict' = Verdict
          \/ Verdict = "none" /\ Verdict' \in {"ready", "failed"}
      BY <2>7, EmitDecides, Appended DEF IInv, BootReady
    <3>3. Stage # "agent" \/ Verdict = "ready"
      BY VerdictIs DEF IInv, VerdictInv, Stage
    <3>4. Stage' = Stage
      BY <2>7 DEF BootReady, Stage
    <3> QED BY <3>1, <3>2, <3>3, <3>4
  <2>8. CASE BootInterrupted
    <3>1. Cover' = Cover
      BY <2>8 DEF BootInterrupted, ReturnFrom, Cover
    <3>2. \/ Verdict' = Verdict
          \/ Verdict = "none" /\ Verdict' \in {"failed"}
      BY <2>8, EmitDecides, Appended DEF IInv, BootInterrupted
    <3>3. Stage # "agent" \/ Verdict = "ready"
      BY VerdictIs DEF IInv, VerdictInv, Stage
    <3>4. Stage = "booting" /\ Stage' = "over"
      BY <2>8 DEF BootInterrupted, ReturnFrom, Stage
    <3> QED BY <3>1, <3>2, <3>3, <3>4
  <2>9. CASE BootTimeout
    <3>1. Cover' = Cover
      BY <2>9 DEF BootTimeout, ReturnFrom, Cover
    <3>2. \/ Verdict' = Verdict
          \/ Verdict = "none" /\ Verdict' \in {"failed"}
      BY <2>9, EmitDecides, Appended DEF IInv, BootTimeout
    <3>3. Stage # "agent" \/ Verdict = "ready"
      BY VerdictIs DEF IInv, VerdictInv, Stage
    <3>4. Stage = "booting" /\ Stage' = "over"
      BY <2>9 DEF BootTimeout, ReturnFrom, Stage
    <3> QED BY <3>1, <3>2, <3>3, <3>4
  <2> QED BY <1>3, <2>1, <2>2, <2>3, <2>4, <2>5, <2>6, <2>7, <2>8, <2>9 DEF Boot
<1>4. CASE Consumer
  <2> USE DEF vars, engine, session, stream, peer, Gate, Finishing, Dead
  <2>1. CASE ConsumeStep
    <3>1. Cover' = Cover
      BY <2>1 DEF ConsumeStep, Cover
    <3>2. \/ Verdict' = Verdict
          \/ Verdict = "none" /\ Verdict' \in {"ready", "failed"}
      BY <2>1, EmitDecides, Appended DEF IInv, ConsumeStep
    <3>3. Stage # "agent" \/ Verdict = "ready"
      BY VerdictIs DEF IInv, VerdictInv, Stage
    <3>4. Stage' = Stage
      BY <2>1 DEF ConsumeStep, Stage
    <3> QED BY <3>1, <3>2, <3>3, <3>4
  <2>2. CASE ConsumeReady
    <3>1. Cover' = Cover
      BY <2>2 DEF ConsumeReady, Cover
    <3>2. \/ Verdict' = Verdict
          \/ Verdict = "none" /\ Verdict' \in {"ready", "failed"}
      BY <2>2, EmitDecides, Appended DEF IInv, ConsumeReady
    <3>3. Stage # "agent" \/ Verdict = "ready"
      BY VerdictIs DEF IInv, VerdictInv, Stage
    <3>4. Stage' = Stage
      BY <2>2 DEF ConsumeReady, Stage
    <3> QED BY <3>1, <3>2, <3>3, <3>4
  <2>3. CASE ConsumeClosed
    <3>1. Cover' = Cover
      BY <2>3 DEF ConsumeClosed, Cover
    <3>2. \/ Verdict' = Verdict
          \/ Verdict = "none" /\ Verdict' \in {"failed"}
      BY <2>3, EmitDecides, Appended DEF IInv, ConsumeClosed
    <3>3. Stage # "agent" \/ Verdict = "ready"
      BY VerdictIs DEF IInv, VerdictInv, Stage
    <3>4. Stage' = Stage
      BY <2>3 DEF ConsumeClosed, Stage
    <3> QED BY <3>1, <3>2, <3>3, <3>4
  <2> QED BY <1>4, <2>1, <2>2, <2>3 DEF Consumer
<1>5. CASE BeforeAttach
  <2> USE DEF vars, engine, session, stream, peer, Gate, Finishing, Dead
  <2>1. CASE GateUndecided
    <3>1. Verdict' = Verdict
      BY <2>1 DEF GateUndecided, AbandonClient, CloseListener, KillClient, Verdict, Finished
    <3>2. \/ Cover' = Cover /\ (Stage' = Stage \/ (Stage # "over" /\ Stage' = "over"))
          \/ Cover = "unused" /\ Cover' = "up" /\ Stage = "booting" /\ Stage' = Stage
          \/ Cover = "up" /\ Cover' = "down" /\ Stage' = Stage
      BY <2>1 DEF GateUndecided, AbandonClient, CloseListener, KillClient, Cover, Stage, IInv, TypeOK, ClientInv, GateInv, NoClient, Early, Alive, PCs
    <3> QED BY <3>1, <3>2
  <2>2. CASE GateInline
    <3>1. Verdict' = Verdict
      BY <2>2 DEF GateInline, Verdict, Finished
    <3>2. \/ Cover' = Cover /\ (Stage' = Stage \/ (Stage # "over" /\ Stage' = "over"))
          \/ Cover = "unused" /\ Cover' = "up" /\ Stage = "booting" /\ Stage' = Stage
          \/ Cover = "up" /\ Cover' = "down" /\ Stage' = Stage
      BY <2>2 DEF GateInline, Cover, Stage, IInv, TypeOK, ClientInv, GateInv, NoClient, Early, Alive, PCs
    <3> QED BY <3>1, <3>2
  <2>3. CASE GatePopup
    <3>1. Verdict' = Verdict
      BY <2>3 DEF GatePopup, Verdict, Finished
    <3>2. \/ Cover' = Cover /\ (Stage' = Stage \/ (Stage # "over" /\ Stage' = "over"))
          \/ Cover = "unused" /\ Cover' = "up" /\ Stage = "booting" /\ Stage' = Stage
          \/ Cover = "up" /\ Cover' = "down" /\ Stage' = Stage
      BY <2>3 DEF GatePopup, Cover, Stage, IInv, TypeOK, ClientInv, GateInv, NoClient, Early, Alive, PCs
    <3> QED BY <3>1, <3>2
  <2>4. CASE AwaitAck
    <3>1. Verdict' = Verdict
      BY <2>4 DEF AwaitAck, Verdict, Finished
    <3>2. \/ Cover' = Cover /\ (Stage' = Stage \/ (Stage # "over" /\ Stage' = "over"))
          \/ Cover = "unused" /\ Cover' = "up" /\ Stage = "booting" /\ Stage' = Stage
          \/ Cover = "up" /\ Cover' = "down" /\ Stage' = Stage
      BY <2>4 DEF AwaitAck, Cover, Stage, IInv, TypeOK, ClientInv, GateInv, NoClient, Early, Alive, PCs
    <3> QED BY <3>1, <3>2
  <2>5. CASE AwaitClient
    <3>1. Verdict' = Verdict
      BY <2>5 DEF AwaitClient, TakeClientDone, Verdict, Finished
    <3>2. \/ Cover' = Cover /\ (Stage' = Stage \/ (Stage # "over" /\ Stage' = "over"))
          \/ Cover = "unused" /\ Cover' = "up" /\ Stage = "booting" /\ Stage' = Stage
          \/ Cover = "up" /\ Cover' = "down" /\ Stage' = Stage
      BY <2>5 DEF AwaitClient, TakeClientDone, Cover, Stage, IInv, TypeOK, ClientInv, GateInv, NoClient, Early, Alive, PCs
    <3> QED BY <3>1, <3>2
  <2>6. CASE ClientTimeout
    <3>1. Verdict' = Verdict
      BY <2>6 DEF ClientTimeout, KillClient, Verdict, Finished
    <3>2. \/ Cover' = Cover /\ (Stage' = Stage \/ (Stage # "over" /\ Stage' = "over"))
          \/ Cover = "unused" /\ Cover' = "up" /\ Stage = "booting" /\ Stage' = Stage
          \/ Cover = "up" /\ Cover' = "down" /\ Stage' = Stage
      BY <2>6 DEF ClientTimeout, KillClient, Cover, Stage, IInv, TypeOK, ClientInv, GateInv, NoClient, Early, Alive, PCs
    <3> QED BY <3>1, <3>2
  <2>7. CASE AwaitKilledClient
    <3>1. Verdict' = Verdict
      BY <2>7 DEF AwaitKilledClient, TakeClientDone, Verdict, Finished
    <3>2. \/ Cover' = Cover /\ (Stage' = Stage \/ (Stage # "over" /\ Stage' = "over"))
          \/ Cover = "unused" /\ Cover' = "up" /\ Stage = "booting" /\ Stage' = Stage
          \/ Cover = "up" /\ Cover' = "down" /\ Stage' = Stage
      BY <2>7 DEF AwaitKilledClient, TakeClientDone, Cover, Stage, IInv, TypeOK, ClientInv, GateInv, NoClient, Early, Alive, PCs
    <3> QED BY <3>1, <3>2
  <2>8. CASE GateClose
    <3>1. Verdict' = Verdict
      BY <2>8 DEF GateClose, CloseListener, Verdict, Finished
    <3>2. \/ Cover' = Cover /\ (Stage' = Stage \/ (Stage # "over" /\ Stage' = "over"))
          \/ Cover = "unused" /\ Cover' = "up" /\ Stage = "booting" /\ Stage' = Stage
          \/ Cover = "up" /\ Cover' = "down" /\ Stage' = Stage
      BY <2>8 DEF GateClose, CloseListener, Cover, Stage, IInv, TypeOK, ClientInv, GateInv, NoClient, Early, Alive, PCs
    <3> QED BY <3>1, <3>2
  <2> QED BY <1>5, <2>1, <2>2, <2>3, <2>4, <2>5, <2>6, <2>7, <2>8 DEF BeforeAttach
<1>6. CASE Agent
  <2> USE DEF vars, engine, session, stream, peer, Gate, Finishing, Dead
  <2>1. CASE AgentStarts
    <3>1. Verdict' = Verdict
      BY <2>1 DEF AgentStarts, Verdict, Finished
    <3>2. Stage = "booting" /\ Stage' = "agent"
      BY <2>1 DEF AgentStarts, Stage
    <3>3. Cover = "down" /\ Cover' = "down"
      BY <2>1 DEF AgentStarts, Cover, IInv, TypeOK, ClientInv, GateInv, NoClient
    <3>4. Verdict = "ready"
      BY <2>1, VerdictIs DEF AgentStarts, IInv, VerdictInv
    <3> QED BY <3>1, <3>2, <3>3, <3>4
  <2>2. CASE AgentStartFails
    <3>1. Verdict' = Verdict
      BY <2>2 DEF AgentStartFails, ReturnFrom, Verdict, Finished
    <3>2. \/ Cover' = Cover /\ (Stage' = Stage \/ (Stage # "over" /\ Stage' = "over"))
          \/ Cover = "unused" /\ Cover' = "up" /\ Stage = "booting" /\ Stage' = Stage
          \/ Cover = "up" /\ Cover' = "down" /\ Stage' = Stage
      BY <2>2 DEF AgentStartFails, ReturnFrom, Cover, Stage, IInv, TypeOK, ClientInv, GateInv, NoClient, Early, Alive, PCs
    <3> QED BY <3>1, <3>2
  <2>3. CASE AgentExits
    <3>1. Verdict' = Verdict
      BY <2>3 DEF AgentExits, ReturnFrom, Verdict, Finished
    <3>2. \/ Cover' = Cover /\ (Stage' = Stage \/ (Stage # "over" /\ Stage' = "over"))
          \/ Cover = "unused" /\ Cover' = "up" /\ Stage = "booting" /\ Stage' = Stage
          \/ Cover = "up" /\ Cover' = "down" /\ Stage' = Stage
      BY <2>3 DEF AgentExits, ReturnFrom, Cover, Stage, IInv, TypeOK, ClientInv, GateInv, NoClient, Early, Alive, PCs
    <3> QED BY <3>1, <3>2
  <2> QED BY <1>6, <2>1, <2>2, <2>3 DEF Agent
<1>7. CASE Finish
  <2> USE DEF vars, engine, session, stream, peer, Gate, Finishing, Dead
  <2>1. CASE FinishUndecided
    <3>1. Verdict' = Verdict
      BY <2>1 DEF FinishUndecided, AbandonClient, CloseListener, KillClient, Verdict, Finished
    <3>2. \/ Cover' = Cover /\ (Stage' = Stage \/ (Stage # "over" /\ Stage' = "over"))
          \/ Cover = "unused" /\ Cover' = "up" /\ Stage = "booting" /\ Stage' = Stage
          \/ Cover = "up" /\ Cover' = "down" /\ Stage' = Stage
      BY <2>1 DEF FinishUndecided, AbandonClient, CloseListener, KillClient, Cover, Stage, IInv, TypeOK, ClientInv, GateInv, NoClient, Early, Alive, PCs
    <3> QED BY <3>1, <3>2
  <2>2. CASE FinishFailed
    <3>1. Cover' = Cover
      BY <2>2 DEF FinishFailed, Cover
    <3>2. \/ Verdict' = Verdict
          \/ Verdict = "none" /\ Verdict' \in {"failed"}
      <4>1. CASE Finished
        BY <2>2, <4>1 DEF FinishFailed, Verdict, Finished
      <4>2. CASE ~Finished
        BY <2>2, <4>2, EmitDecides, Appended DEF IInv, FinishFailed
      <4> QED BY <4>1, <4>2
    <3>3. Stage # "agent" \/ Verdict = "ready"
      BY VerdictIs DEF IInv, VerdictInv, Stage
    <3>4. Stage' = Stage
      BY <2>2 DEF FinishFailed, Stage
    <3> QED BY <3>1, <3>2, <3>3, <3>4
  <2>3. CASE FinishQuiet
    <3>1. Verdict' = Verdict
      BY <2>3 DEF FinishQuiet, Verdict, Finished
    <3>2. \/ Cover' = Cover /\ (Stage' = Stage \/ (Stage # "over" /\ Stage' = "over"))
          \/ Cover = "unused" /\ Cover' = "up" /\ Stage = "booting" /\ Stage' = Stage
          \/ Cover = "up" /\ Cover' = "down" /\ Stage' = Stage
      BY <2>3 DEF FinishQuiet, Cover, Stage, IInv, TypeOK, ClientInv, GateInv, NoClient, Early, Alive, PCs
    <3> QED BY <3>1, <3>2
  <2>4. CASE FinishAwaitClient
    <3>1. Verdict' = Verdict
      BY <2>4 DEF FinishAwaitClient, TakeClientDone, Verdict, Finished
    <3>2. \/ Cover' = Cover /\ (Stage' = Stage \/ (Stage # "over" /\ Stage' = "over"))
          \/ Cover = "unused" /\ Cover' = "up" /\ Stage = "booting" /\ Stage' = Stage
          \/ Cover = "up" /\ Cover' = "down" /\ Stage' = Stage
      BY <2>4 DEF FinishAwaitClient, TakeClientDone, Cover, Stage, IInv, TypeOK, ClientInv, GateInv, NoClient, Early, Alive, PCs
    <3> QED BY <3>1, <3>2
  <2>5. CASE FinishClose
    <3>1. Verdict' = Verdict
      BY <2>5 DEF FinishClose, CloseListener, Verdict, Finished
    <3>2. \/ Cover' = Cover /\ (Stage' = Stage \/ (Stage # "over" /\ Stage' = "over"))
          \/ Cover = "unused" /\ Cover' = "up" /\ Stage = "booting" /\ Stage' = Stage
          \/ Cover = "up" /\ Cover' = "down" /\ Stage' = Stage
      BY <2>5 DEF FinishClose, CloseListener, Cover, Stage, IInv, TypeOK, ClientInv, GateInv, NoClient, Early, Alive, PCs
    <3> QED BY <3>1, <3>2
  <2>6. CASE ProcessExit
    <3>1. Verdict' = Verdict
      BY <2>6 DEF ProcessExit, ProcessGone, Verdict, Finished
    <3>2. \/ Cover' = Cover /\ (Stage' = Stage \/ (Stage # "over" /\ Stage' = "over"))
          \/ Cover = "unused" /\ Cover' = "up" /\ Stage = "booting" /\ Stage' = Stage
          \/ Cover = "up" /\ Cover' = "down" /\ Stage' = Stage
      BY <2>6 DEF ProcessExit, ProcessGone, Cover, Stage, IInv, TypeOK, ClientInv, GateInv, NoClient, Early, Alive, PCs
    <3> QED BY <3>1, <3>2
  <2> QED BY <1>7, <2>1, <2>2, <2>3, <2>4, <2>5, <2>6 DEF Finish
<1>8. CASE Tmux
  <2> USE DEF vars, engine, session, stream, peer, Gate, Finishing, Dead
  <2>1. CASE UISpawn
    <3>1. Verdict' = Verdict
      BY <2>1 DEF UISpawn, Verdict, Finished
    <3>2. \/ Cover' = Cover /\ (Stage' = Stage \/ (Stage # "over" /\ Stage' = "over"))
          \/ Cover = "unused" /\ Cover' = "up" /\ Stage = "booting" /\ Stage' = Stage
          \/ Cover = "up" /\ Cover' = "down" /\ Stage' = Stage
      BY <2>1 DEF UISpawn, Cover, Stage, IInv, TypeOK, ClientInv, GateInv, NoClient, Early, Alive, PCs
    <3> QED BY <3>1, <3>2
  <2>2. CASE PopupRefused
    <3>1. Verdict' = Verdict
      BY <2>2 DEF PopupRefused, Verdict, Finished
    <3>2. \/ Cover' = Cover /\ (Stage' = Stage \/ (Stage # "over" /\ Stage' = "over"))
          \/ Cover = "unused" /\ Cover' = "up" /\ Stage = "booting" /\ Stage' = Stage
          \/ Cover = "up" /\ Cover' = "down" /\ Stage' = Stage
      BY <2>2 DEF PopupRefused, Cover, Stage, IInv, TypeOK, ClientInv, GateInv, NoClient, Early, Alive, PCs
    <3> QED BY <3>1, <3>2
  <2>3. CASE ClientExits
    <3>1. Verdict' = Verdict
      BY <2>3 DEF ClientExits, Verdict, Finished
    <3>2. \/ Cover' = Cover /\ (Stage' = Stage \/ (Stage # "over" /\ Stage' = "over"))
          \/ Cover = "unused" /\ Cover' = "up" /\ Stage = "booting" /\ Stage' = Stage
          \/ Cover = "up" /\ Cover' = "down" /\ Stage' = Stage
      BY <2>3 DEF ClientExits, Cover, Stage, IInv, TypeOK, ClientInv, GateInv, NoClient, Early, Alive, PCs
    <3> QED BY <3>1, <3>2
  <2>4. CASE UILost
    <3>1. Verdict' = Verdict
      BY <2>4 DEF UILost, UIExits, Verdict, Finished
    <3>2. \/ Cover' = Cover /\ (Stage' = Stage \/ (Stage # "over" /\ Stage' = "over"))
          \/ Cover = "unused" /\ Cover' = "up" /\ Stage = "booting" /\ Stage' = Stage
          \/ Cover = "up" /\ Cover' = "down" /\ Stage' = Stage
      BY <2>4 DEF UILost, UIExits, Cover, Stage, IInv, TypeOK, ClientInv, GateInv, NoClient, Early, Alive, PCs
    <3> QED BY <3>1, <3>2
  <2> QED BY <1>8, <2>1, <2>2, <2>3, <2>4 DEF Tmux
<1>9. CASE BootUI
  <2> USE DEF vars, engine, session, stream, peer, Gate, Finishing, Dead
  <2>1. CASE UIDials
    <3>1. Verdict' = Verdict
      BY <2>1 DEF UIDials, Verdict, Finished
    <3>2. \/ Cover' = Cover /\ (Stage' = Stage \/ (Stage # "over" /\ Stage' = "over"))
          \/ Cover = "unused" /\ Cover' = "up" /\ Stage = "booting" /\ Stage' = Stage
          \/ Cover = "up" /\ Cover' = "down" /\ Stage' = Stage
      BY <2>1 DEF UIDials, Cover, Stage, IInv, TypeOK, ClientInv, GateInv, NoClient, Early, Alive, PCs
    <3> QED BY <3>1, <3>2
  <2>2. CASE UIUnreachable
    <3>1. Verdict' = Verdict
      BY <2>2 DEF UIUnreachable, UIExits, Verdict, Finished
    <3>2. \/ Cover' = Cover /\ (Stage' = Stage \/ (Stage # "over" /\ Stage' = "over"))
          \/ Cover = "unused" /\ Cover' = "up" /\ Stage = "booting" /\ Stage' = Stage
          \/ Cover = "up" /\ Cover' = "down" /\ Stage' = Stage
      BY <2>2 DEF UIUnreachable, UIExits, Cover, Stage, IInv, TypeOK, ClientInv, GateInv, NoClient, Early, Alive, PCs
    <3> QED BY <3>1, <3>2
  <2>3. CASE UIReads
    <3>1. Verdict' = Verdict
      BY <2>3 DEF UIReads, UIExits, After, Verdict, Finished
    <3>2. \/ Cover' = Cover /\ (Stage' = Stage \/ (Stage # "over" /\ Stage' = "over"))
          \/ Cover = "unused" /\ Cover' = "up" /\ Stage = "booting" /\ Stage' = Stage
          \/ Cover = "up" /\ Cover' = "down" /\ Stage' = Stage
      BY <2>3 DEF UIReads, UIExits, After, Cover, Stage, IInv, TypeOK, ClientInv, GateInv, NoClient, Early, Alive, PCs
    <3> QED BY <3>1, <3>2
  <2>4. CASE UIEof
    <3>1. Verdict' = Verdict
      BY <2>4 DEF UIEof, Verdict, Finished
    <3>2. \/ Cover' = Cover /\ (Stage' = Stage \/ (Stage # "over" /\ Stage' = "over"))
          \/ Cover = "unused" /\ Cover' = "up" /\ Stage = "booting" /\ Stage' = Stage
          \/ Cover = "up" /\ Cover' = "down" /\ Stage' = Stage
      BY <2>4 DEF UIEof, Cover, Stage, IInv, TypeOK, ClientInv, GateInv, NoClient, Early, Alive, PCs
    <3> QED BY <3>1, <3>2
  <2>5. CASE UIDwellOver
    <3>1. Verdict' = Verdict
      BY <2>5 DEF UIDwellOver, UIExits, Verdict, Finished
    <3>2. \/ Cover' = Cover /\ (Stage' = Stage \/ (Stage # "over" /\ Stage' = "over"))
          \/ Cover = "unused" /\ Cover' = "up" /\ Stage = "booting" /\ Stage' = Stage
          \/ Cover = "up" /\ Cover' = "down" /\ Stage' = Stage
      BY <2>5 DEF UIDwellOver, UIExits, Cover, Stage, IInv, TypeOK, ClientInv, GateInv, NoClient, Early, Alive, PCs
    <3> QED BY <3>1, <3>2
  <2> QED BY <1>9, <2>1, <2>2, <2>3, <2>4, <2>5 DEF BootUI
<1>10. CASE User
  <2> USE DEF vars, engine, session, stream, peer, Gate, Finishing, Dead
  <2>1. CASE PressKey
    <3>1. Verdict' = Verdict
      BY <2>1 DEF PressKey, UIExits, Verdict, Finished
    <3>2. \/ Cover' = Cover /\ (Stage' = Stage \/ (Stage # "over" /\ Stage' = "over"))
          \/ Cover = "unused" /\ Cover' = "up" /\ Stage = "booting" /\ Stage' = Stage
          \/ Cover = "up" /\ Cover' = "down" /\ Stage' = Stage
      BY <2>1 DEF PressKey, UIExits, Cover, Stage, IInv, TypeOK, ClientInv, GateInv, NoClient, Early, Alive, PCs
    <3> QED BY <3>1, <3>2
  <2>2. CASE CtrlC
    <3>1. Verdict' = Verdict
      BY <2>2 DEF CtrlC, ProcessGone, Verdict, Finished
    <3>2. \/ Cover' = Cover /\ (Stage' = Stage \/ (Stage # "over" /\ Stage' = "over"))
          \/ Cover = "unused" /\ Cover' = "up" /\ Stage = "booting" /\ Stage' = Stage
          \/ Cover = "up" /\ Cover' = "down" /\ Stage' = Stage
      BY <2>2 DEF CtrlC, ProcessGone, Cover, Stage, IInv, TypeOK, ClientInv, GateInv, NoClient, Early, Alive, PCs
    <3> QED BY <3>1, <3>2
  <2>3. CASE ForceQuit
    <3>1. Verdict' = Verdict
      BY <2>3 DEF ForceQuit, UIExits, Verdict, Finished
    <3>2. \/ Cover' = Cover /\ (Stage' = Stage \/ (Stage # "over" /\ Stage' = "over"))
          \/ Cover = "unused" /\ Cover' = "up" /\ Stage = "booting" /\ Stage' = Stage
          \/ Cover = "up" /\ Cover' = "down" /\ Stage' = Stage
      BY <2>3 DEF ForceQuit, UIExits, Cover, Stage, IInv, TypeOK, ClientInv, GateInv, NoClient, Early, Alive, PCs
    <3> QED BY <3>1, <3>2
  <2> QED BY <1>10, <2>1, <2>2, <2>3 DEF User
<1>11. CASE UNCHANGED vars
  BY <1>11 DEF vars, engine, session, stream, peer, Stage, Verdict, Cover, Finished
<1> QED BY <1>1, <1>2, <1>3, <1>4, <1>5, <1>6, <1>7, <1>8, <1>9, <1>10, <1>11 DEF Next

(* The protocol implements its promise: BootGate, with the client and the  *)
(* redirection of stdio as the cover and the log's first end as verdict.   *)
THEOREM ImplementsPromise == Spec => KeepsPromise
<1>1. Init => Promise!Init
  BY DEF Init, Promise!Init, Stage, Verdict, Cover, Finished, Ends, Finishing, Dead
<1> QED BY <1>1, PromiseStep, Inductive, PTL DEF Spec, KeepsPromise, Promise!Spec
-----------------------------------------------------------------------------
(***************************************************************************)
(* Why a failure is acknowledged.  A client that was not killed ends when  *)
(* boot-ui does, unless tmux refuses it; a client is killed in popup mode  *)
(* only behind the gate, after a finish; and boot-ui leaves a panel alone  *)
(* only when it has read the log's first end.                              *)
(***************************************************************************)
DialInv ==
  /\ conn # "none" => ui \notin {"absent", "dialing", "unreachable"}
  /\ mode = "popup" => conn # "none"

EndInv ==
  /\ client = "running" => ui # "lost"
  /\ mode \in {"undecided", "popup"} /\ client \in {"killed", "exited"} =>
       \/ FirstEnd(events, "finish")
       \/ ui \in UIGone \ {"lost"}
       \/ ui = "absent" /\ client = "exited"

ReadInv ==
  /\ ui \in {"absent", "dialing", "reading"} => seen = 0
  /\ ui = "panel" => \A i \in 1..seen : events[i] \notin {"finish", "finish_error"}
  /\ ui \in {"dwell", "ok"} => FirstEnd(events, "finish")

AckInv == DialInv /\ EndInv /\ ReadInv

(* A log has one first end. *)
LEMMA OneFirstEnd ==
  ASSUME events \in Seq(Kinds), FirstEnd(events, "finish"), FirstEnd(events, "finish_error")
  PROVE  FALSE
<1>1. PICK i \in Ends(events) : events[i] = "finish" /\ \A j \in Ends(events) : i <= j
  BY DEF FirstEnd
<1>2. PICK k \in Ends(events) : events[k] = "finish_error" /\ \A j \in Ends(events) : k <= j
  BY DEF FirstEnd
<1>3. i = k
  BY <1>1, <1>2 DEF Ends
<1> QED BY <1>1, <1>2, <1>3

(* Steps that neither emit nor move boot-ui, and kill the client only when *)
(* they decide against the popup or the boot has ended well.               *)
LEMMA AckQuiet ==
  ASSUME AckInv, UNCHANGED <<events, seen, ui>>,
         conn = "none" <=> conn' = "none",
         mode' = "popup" => mode = "popup" \/ conn # "none",
         mode' \in {"undecided", "popup"} => mode \in {"undecided", "popup"},
         \/ client' = client
         \/ client = "none" /\ ui = "absent" /\ client' = "running"
         \/ client' \in {"none", "killed", "exited"}
            /\ (mode' \notin {"undecided", "popup"} \/ FirstEnd(events, "finish"))
  PROVE  AckInv'
<1>1. DialInv'
  BY DEF AckInv, DialInv
<1>2. EndInv'
  BY DEF AckInv, EndInv
<1>3. ReadInv'
  BY DEF AckInv, ReadInv
<1> QED BY <1>1, <1>2, <1>3 DEF AckInv

(* Emitting leaves what boot-ui has read as it was. *)
LEMMA AckEmit ==
  ASSUME TypeOK, AckInv, NEW t \in Seq(Kinds), Emit(t),
         UNCHANGED <<mode, peer>>
  PROVE  AckInv'
<1> USE DEF peer
<1>1. /\ events' = events \o t /\ Len(events') = Len(events) + Len(t)
      /\ \A i \in 1..Len(events) : events'[i] = events[i]
  BY ConcatProperties DEF TypeOK, Emit
<1>2. FirstEnd(events, "finish") => FirstEnd(events', "finish")
  BY EmitVerdict
<1>3. 1..seen \subseteq 1..Len(events)
  BY LenProperties DEF TypeOK
<1>4. DialInv'
  BY DEF AckInv, DialInv
<1>5. EndInv'
  BY <1>2 DEF AckInv, EndInv
<1>6. ReadInv'
  BY <1>1, <1>2, <1>3 DEF AckInv, ReadInv
<1> QED BY <1>4, <1>5, <1>6 DEF AckInv

(* boot-ui's end, with a code that fits what it has read. *)
LEMMA AckUIExits ==
  ASSUME AckInv, NEW code \in UIGone, UIExits(code),
         UNCHANGED <<events, mode, client, seen>>,
         code = "unreachable" => conn = "none",
         code = "lost" => client # "running" /\ ui \notin UIGone \cup {"absent"},
         code = "ok" => FirstEnd(events, "finish")
  PROVE  AckInv'
<1>1. conn = "none" <=> conn' = "none"
  BY DEF UIExits
<1>2. DialInv'
  BY <1>1 DEF AckInv, DialInv, UIExits, UIGone
<1>3. EndInv'
  BY DEF AckInv, EndInv, UIExits, UIGone
<1>4. ReadInv'
  BY DEF AckInv, ReadInv, UIExits, UIGone
<1> QED BY <1>2, <1>3, <1>4 DEF AckInv

(* The next event that boot-ui reads. *)
LEMMA AckReads ==
  ASSUME TypeOK, AckInv, UIReads
  PROVE  AckInv'
<1> DEFINE k == events[seen + 1]
<1> DEFINE next == After(k)
<1>1. /\ seen \in Nat /\ seen + 1 \in 1..Len(events) /\ k \in Kinds
      /\ seen' = seen + 1
  BY LenProperties, ElementOfSeq DEF TypeOK, UIReads
<1>2. UNCHANGED <<events, mode, client>> /\ ui \in {"reading", "panel"}
  BY DEF UIReads, engine, session, stream
<1>3. \A i \in 1..seen : events[i] \notin {"finish", "finish_error"}
  BY <1>1, <1>2 DEF AckInv, ReadInv
<1>4. k = "finish" => FirstEnd(events, "finish")
  <2> SUFFICES ASSUME k = "finish" PROVE FirstEnd(events, "finish")
    OBVIOUS
  <2>1. seen + 1 \in Ends(events)
    BY <1>1 DEF Ends
  <2>2. ASSUME NEW j \in Ends(events) PROVE seen + 1 <= j
    <3>1. j \in 1..Len(events) /\ events[j] \in {"finish", "finish_error"}
      BY DEF Ends
    <3>2. ~(j \in 1..seen)
      BY <1>3, <3>1
    <3> QED BY <1>1, <3>1, <3>2, LenProperties DEF TypeOK
  <2> QED BY <2>1, <2>2 DEF FirstEnd
<1>5. \/ next = "failed" /\ ui' = "failed"
      \/ next = "dwell" /\ ui' = "dwell" /\ k = "finish"
      \/ next = "hold" /\ ui' = "hold"
      \/ next = "panel" /\ ui' = "panel" /\ k \notin {"finish", "finish_error"}
  BY <1>2 DEF UIReads, After, UIExits
<1>6. conn = "none" <=> conn' = "none"
  BY DEF UIReads, UIExits
<1>7. DialInv'
  BY <1>2, <1>5, <1>6 DEF AckInv, DialInv
<1>8. EndInv'
  BY <1>2, <1>5 DEF AckInv, EndInv, UIGone
<1>9. ReadInv'
  <2>1. ui' = "panel" => \A i \in 1..seen' : events'[i] \notin {"finish", "finish_error"}
    <3> SUFFICES ASSUME ui' = "panel", NEW i \in 1..seen'
                 PROVE  events[i] \notin {"finish", "finish_error"}
      BY <1>2
    <3>1. i \in 1..seen \/ i = seen + 1
      BY <1>1
    <3> QED BY <1>3, <1>5, <3>1
  <2> QED BY <1>2, <1>4, <1>5, <2>1 DEF ReadInv
<1> QED BY <1>7, <1>8, <1>9 DEF AckInv

LEMMA AckStep == IInv /\ AckInv /\ [Next]_vars => AckInv'
<1> SUFFICES ASSUME IInv, AckInv, [Next]_vars PROVE AckInv'
  OBVIOUS
<1>0. TypeOK
  BY DEF IInv
<1> USE DEF vars, engine, session, stream, peer
<1>1. CASE StartPopup
  <2>1. client = "none" => ui = "absent"
    BY DEF IInv, ClientInv
  <2>2. pc \in NoClient => client = "none"
    BY DEF IInv, ClientInv
  <2>3. CASE Listen
    BY <2>3, AckQuiet DEF Listen
  <2>4. CASE RedirectStdio
    BY <2>4, AckQuiet DEF RedirectStdio, CloseListener
  <2>5. CASE StartClient
    BY <2>1, <2>2, <2>5, AckQuiet DEF StartClient, CloseListener, NoClient
  <2> QED BY <1>1, <2>3, <2>4, <2>5 DEF StartPopup
<1>2. CASE Goroutines
  <2>1. CASE AcceptConn \/ ReadAck \/ ReapClient
    BY <2>1, AckQuiet DEF AcceptConn, ReadAck, ReapClient
  <2>2. CASE BinderConnected
    BY <2>2, AckQuiet DEF BinderConnected, BindSocket, Connected
  <2>3. CASE BinderTimeout
    BY <2>3, AckQuiet DEF BinderTimeout, AbandonClient, CloseListener, KillClient
  <2> QED BY <1>2, <2>1, <2>2, <2>3 DEF Goroutines
<1>3. CASE Boot
  <2>1. CASE PhaseFails \/ StartContainer
    BY <2>1, AckQuiet DEF PhaseFails, StartContainer
  <2>2. CASE NewBootView
    BY <1>0, <2>2, AckEmit, Appended DEF NewBootView
  <2>3. CASE PhaseStep
    BY <1>0, <2>3, AckEmit, Appended DEF PhaseStep
  <2>4. CASE AttachRunning
    BY <1>0, <2>4, AckEmit, Appended DEF AttachRunning
  <2>5. CASE StartFails
    BY <1>0, <2>5, AckEmit, Appended DEF StartFails
  <2>6. CASE BootReady
    BY <1>0, <2>6, AckEmit, Appended DEF BootReady
  <2>7. CASE BootInterrupted \/ BootTimeout
    BY <1>0, <2>7, AckEmit, Appended DEF BootInterrupted, BootTimeout
  <2> QED BY <1>3, <2>1, <2>2, <2>3, <2>4, <2>5, <2>6, <2>7 DEF Boot
<1>4. CASE Consumer
  <2>1. CASE ConsumeStep
    BY <1>0, <2>1, AckEmit, Appended DEF ConsumeStep
  <2>2. CASE ConsumeReady
    BY <1>0, <2>2, AckEmit, Appended DEF ConsumeReady
  <2>3. CASE ConsumeClosed
    BY <1>0, <2>3, AckEmit, Appended DEF ConsumeClosed
  <2> QED BY <1>4, <2>1, <2>2, <2>3 DEF Consumer
<1>5. CASE BeforeAttach
  <2>1. CASE GateUndecided
    BY <2>1, AckQuiet DEF GateUndecided, AbandonClient, CloseListener, KillClient
  <2>2. CASE GateInline \/ GatePopup \/ AwaitAck
    BY <2>2, AckQuiet DEF GateInline, GatePopup, AwaitAck
  <2>3. CASE AwaitClient \/ AwaitKilledClient
    BY <2>3, AckQuiet DEF AwaitClient, AwaitKilledClient, TakeClientDone
  <2>4. CASE ClientTimeout
    <3>1. FirstEnd(events, "finish")
      BY <2>4 DEF ClientTimeout, IInv, VerdictInv, Gate
    <3> QED BY <2>4, <3>1, AckQuiet DEF ClientTimeout, KillClient
  <2>5. CASE GateClose
    BY <2>5, AckQuiet DEF GateClose, CloseListener
  <2> QED BY <1>5, <2>1, <2>2, <2>3, <2>4, <2>5 DEF BeforeAttach
<1>6. CASE Agent
  BY <1>6, AckQuiet DEF Agent, AgentStarts, AgentStartFails, AgentExits
<1>7. CASE Finish
  <2>1. CASE FinishUndecided
    BY <2>1, AckQuiet DEF FinishUndecided, AbandonClient, CloseListener, KillClient
  <2>2. CASE FinishFailed
    <3>1. CASE Finished
      BY <2>2, <3>1, AckQuiet DEF FinishFailed
    <3>2. CASE ~Finished
      BY <1>0, <2>2, <3>2, AckEmit, Appended DEF FinishFailed
    <3> QED BY <3>1, <3>2
  <2>3. CASE FinishQuiet
    BY <2>3, AckQuiet DEF FinishQuiet
  <2>4. CASE FinishAwaitClient
    BY <2>4, AckQuiet DEF FinishAwaitClient, TakeClientDone
  <2>5. CASE FinishClose
    BY <2>5, AckQuiet DEF FinishClose, CloseListener
  <2>6. CASE ProcessExit
    BY <2>6, AckQuiet DEF ProcessExit, ProcessGone
  <2> QED BY <1>7, <2>1, <2>2, <2>3, <2>4, <2>5, <2>6 DEF Finish
<1>8. CASE Tmux
  <2>1. CASE UISpawn
    <3>1. DialInv' /\ EndInv'
      BY <2>1 DEF UISpawn, AckInv, DialInv, EndInv, UIGone
    <3>2. ReadInv'
      BY <2>1 DEF UISpawn, AckInv, ReadInv
    <3> QED BY <3>1, <3>2 DEF AckInv
  <2>2. CASE PopupRefused \/ ClientExits
    <3>1. DialInv' /\ ReadInv'
      BY <2>2 DEF PopupRefused, ClientExits, AckInv, DialInv, ReadInv
    <3>2. EndInv'
      BY <2>2 DEF PopupRefused, ClientExits, AckInv, EndInv
    <3> QED BY <3>1, <3>2 DEF AckInv
  <2>3. CASE UILost
    <3>1. "lost" \in UIGone
      BY DEF UIGone
    <3> QED BY <2>3, <3>1, AckUIExits DEF UILost
  <2> QED BY <1>8, <2>1, <2>2, <2>3 DEF Tmux
<1>9. CASE BootUI
  <2>1. CASE UIDials
    <3>1. DialInv'
      BY <2>1 DEF UIDials, AckInv, DialInv
    <3>2. EndInv' /\ ReadInv'
      BY <2>1 DEF UIDials, AckInv, EndInv, ReadInv, UIGone
    <3> QED BY <3>1, <3>2 DEF AckInv
  <2>2. CASE UIUnreachable
    <3>1. "unreachable" \in UIGone /\ conn = "none"
      BY <2>2 DEF UIGone, UIUnreachable, AckInv, DialInv
    <3> QED BY <2>2, <3>1, AckUIExits DEF UIUnreachable
  <2>3. CASE UIReads
    BY <1>0, <2>3, AckReads
  <2>4. CASE UIEof
    <3>1. DialInv'
      BY <2>4 DEF UIEof, AckInv, DialInv
    <3>2. EndInv' /\ ReadInv'
      BY <2>4 DEF UIEof, AckInv, EndInv, ReadInv, UIGone
    <3> QED BY <3>1, <3>2 DEF AckInv
  <2>5. CASE UIDwellOver
    <3>1. "ok" \in UIGone /\ FirstEnd(events, "finish")
      BY <2>5 DEF UIGone, UIDwellOver, AckInv, ReadInv
    <3> QED BY <2>5, <3>1, AckUIExits DEF UIDwellOver
  <2> QED BY <1>9, <2>1, <2>2, <2>3, <2>4, <2>5 DEF BootUI
<1>10. CASE User
  <2>1. CASE PressKey
    <3>1. "failed" \in UIGone
      BY DEF UIGone
    <3> QED BY <2>1, <3>1, AckUIExits DEF PressKey
  <2>2. CASE CtrlC
    BY <2>2, AckQuiet DEF CtrlC, ProcessGone
  <2>3. CASE ForceQuit
    <3>1. {"interrupted", "ok"} \subseteq UIGone
      BY DEF UIGone
    <3>2. ui = "dwell" => FirstEnd(events, "finish")
      BY DEF AckInv, ReadInv
    <3> QED BY <2>3, <3>1, <3>2, AckUIExits DEF ForceQuit
  <2> QED BY <1>10, <2>1, <2>2, <2>3 DEF User
<1>11. CASE UNCHANGED vars
  BY <1>11, AckQuiet
<1> QED BY <1>1, <1>2, <1>3, <1>4, <1>5, <1>6, <1>7, <1>8, <1>9, <1>10, <1>11 DEF Next

(* A boot that failed while boot-ui showed the panel does not return       *)
(* before the user has closed it (popup.go: Finish waits for the client;   *)
(* boot-ui holds a failed panel until a key).                              *)
THEOREM FailuresAcknowledged == Spec => []FailureAcknowledged
<1>1. Init => AckInv
  BY DEF Init, AckInv, DialInv, EndInv, ReadInv
<1>2. IInv /\ AckInv => FailureAcknowledged
  <2> SUFFICES ASSUME IInv, AckInv, pc \in {"returned", "exited"}, mode = "popup",
                      FirstEnd(events, "finish_error")
               PROVE  ui \in {"failed", "interrupted"}
    BY DEF FailureAcknowledged
  <2>1. ~FirstEnd(events, "finish")
    BY OneFirstEnd DEF IInv, TypeOK
  <2>2. client \in {"killed", "exited"}
    BY DEF IInv, TypeOK, ClientInv, GateInv, NoClient
  <2>3. ui \in UIGone \ {"lost", "unreachable", "ok"}
    BY <2>1, <2>2 DEF AckInv, DialInv, EndInv, ReadInv
  <2> QED BY <2>3 DEF UIGone
<1>3. IInv /\ AckInv /\ [Next]_vars => AckInv'
  BY AckStep
<1> QED BY <1>1, <1>2, <1>3, Inductive, PTL DEF Spec
=============================================================================
