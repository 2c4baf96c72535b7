------------------------- MODULE SocketServerProofs -------------------------
(* Proofs about SocketServer, for any clients, deadline, lag and backlog, and *)
(* any faults. What needs it assumes that the listener sets a session up      *)
(* within the deadline after which purge removes it.                          *)
EXTENDS SocketServer, SequenceTheorems, TLAPS

\* Who works on the map holds the lock, and the destructor has it for itself.
MapOwned ==
  /\ pc[Listener] \in RemovalLabels \cup {"emplace", "unlock"} => lock = Listener
  /\ pc[Purge] \in RemovalLabels \cup {"visit"} => lock = Purge
  /\ pc[Main] \in RemovalLabels \cup {"visit", "done"} =>
       pc[Listener] = "done" /\ pc[Purge] = "done"

\* Who works on a session knows which.
ClientKnown ==
  /\ \A t \in Threads : pc[t] \in RemovalLabels => client[t] \in Clients
  /\ pc[Listener] \notin {"select", "done"} => client[Listener] \in Clients

\* How far the listener is with the session it sets up.
SetUpPhase ==
  /\ pc[Listener] = "emplace" => ~Live(client[Listener])
  /\ pc[Listener] \in {"unlock", "init"} => session[client[Listener]] = "created"
  /\ pc[Listener] = "start" => session[client[Listener]] = "initialized"
  /\ pc[Listener] \in {"attachaudio", "attachvideo", "attachrequests"} =>
       session[client[Listener]] \in StartedStates

\* How far a thread is with the session it removes.
RemovalPhase ==
  \A t \in Threads :
    /\ pc[t] = "stop" => session[client[t]] \in StartedStates
    /\ pc[t] \in RemovalLabels \ {"stop"} => session[client[t]] = "stopped"
    /\ pc[t] \in {"detachvideo", "erase"} => client[t] \notin audio_sinks
    /\ pc[t] = "erase" => client[t] \notin video_sinks

\* A session that has not got its thread yet, or has lost it, has an owner.
Owned ==
  \A c \in Clients :
    /\ session[c] \in {"created", "initialized"} =>
         client[Listener] = c /\ pc[Listener] \in {"unlock", "init", "start"}
    /\ session[c] = "stopped" =>
         \E t \in Threads : client[t] = c /\ pc[t] \in RemovalLabels \ {"stop"}

\* Purge is never at the session that the listener sets up.
Apart ==
  pc[Purge] \in RemovalLabels /\ SettingUp => client[Purge] # client[Listener]

\* The ages of sessions: none for those that are not live, at most InitBound for the
\* one that is set up, and past the deadline by more than purge is late only for those
\* that were silent when purge read the time.
Ages ==
  /\ \A c \in Clients : ~Live(c) => age[c] = 0
  /\ Purging => \A c \in Clients : age[c] > Deadline + lag => c \in silent
  /\ SettingUp => age[client[Listener]] <= InitBound
  /\ pc[Purge] \in RemovalLabels => client[Purge] \in silent

\* Sinks and requesters are live.
NoneDangling ==
  /\ SinksAlive
  /\ \A c \in requesters : Live(c)
  /\ pc[Main] = "done" => \A c \in Clients : ~Live(c)

IInv ==
  /\ TypeOK /\ NoMisuse
  /\ MapOwned /\ ClientKnown /\ SetUpPhase /\ RemovalPhase /\ Owned /\ Apart
  /\ Ages /\ NoneDangling

-----------------------------------------------------------------------------
(* Every step keeps the invariant. *)

\* What clients and session threads do changes no more than one session's thread.
LEMMA ClientsPreserves ==
  ASSUME NEW c \in Clients, IInv, ClientStep(c)
  PROVE  IInv'
<1> USE SocketServerAssumption DEF IInv, Threads, Live, SettingUp, Purging, StartedStates,
   MaxAge, sinkVars, timeVars, RemovalLabels, ListenerLabels, PurgeLabels,
   MainLabels, SessionStates
<1>1. CASE Connect(c)
  BY <1>1
  DEF TypeOK, NoMisuse, MapOwned, ClientKnown, SetUpPhase, RemovalPhase,
      Owned, Apart, Ages, NoneDangling, SinksAlive, Connect
<1>2. CASE Receive(c)
  BY <1>2
  DEF TypeOK, NoMisuse, MapOwned, ClientKnown, SetUpPhase, RemovalPhase,
      Owned, Apart, Ages, NoneDangling, SinksAlive, Receive
<1>3. CASE HangUp(c)
  BY <1>3
  DEF TypeOK, NoMisuse, MapOwned, ClientKnown, SetUpPhase, RemovalPhase,
      Owned, Apart, Ages, NoneDangling, SinksAlive, HangUp
<1>4. CASE SessionFails(c)
  BY <1>4
  DEF TypeOK, NoMisuse, MapOwned, ClientKnown, SetUpPhase, RemovalPhase,
      Owned, Apart, Ages, NoneDangling, SinksAlive, SessionFails
<1>5. CASE Block(c)
  BY <1>5
  DEF TypeOK, NoMisuse, MapOwned, ClientKnown, SetUpPhase, RemovalPhase,
      Owned, Apart, Ages, NoneDangling, SinksAlive, Block
<1>6. CASE Unblock(c)
  BY <1>6
  DEF TypeOK, NoMisuse, MapOwned, ClientKnown, SetUpPhase, RemovalPhase,
      Owned, Apart, Ages, NoneDangling, SinksAlive, Unblock
<1>7. CASE SessionEnds(c)
  BY <1>7
  DEF TypeOK, NoMisuse, MapOwned, ClientKnown, SetUpPhase, RemovalPhase,
      Owned, Apart, Ages, NoneDangling, SinksAlive, SessionEnds
<1>8. CASE SessionKills(c)
  BY <1>8
  DEF TypeOK, NoMisuse, MapOwned, ClientKnown, SetUpPhase, RemovalPhase,
      Owned, Apart, Ages, NoneDangling, SinksAlive, SessionKills, Die
<1> QED
  BY <1>1, <1>2, <1>3, <1>4, <1>5, <1>6, <1>7, <1>8 DEF ClientStep

\* A tick makes sessions older, the one set up never older than InitBound.
LEMMA TickPreserves ==
  ASSUME IInv, Tick
  PROVE  IInv'
<1> USE SocketServerAssumption DEF IInv, Threads, Live, SettingUp, Purging,
   StartedStates, MaxAge, sinkVars, RemovalLabels, ListenerLabels, PurgeLabels,
   MainLabels, SessionStates
<1>1. CASE Tick
  <2>1. Ages'
    BY <1>1 DEF Ages, TypeOK, ClientKnown, Tick
  <2>2. (TypeOK /\ NoMisuse /\ MapOwned /\ ClientKnown /\ SetUpPhase /\
        RemovalPhase /\ Owned /\ Apart /\ NoneDangling)'
    BY <1>1
    DEF TypeOK, NoMisuse, MapOwned, ClientKnown, SetUpPhase, RemovalPhase,
        Owned, Apart, NoneDangling, SinksAlive, Tick
  <2> QED BY <2>1, <2>2
<1> QED BY <1>1

\* The removal of a session, whoever the thread.
LEMMA RemovalPreserves ==
  ASSUME NEW t \in Threads, IInv, Removal(t)
  PROVE  IInv'
<1> USE SocketServerAssumption DEF IInv, Threads, Goto, Live, SettingUp, Purging,
   StartedStates, MaxAge, sinkVars, timeVars, RemovalLabels, ListenerLabels,
   PurgeLabels, MainLabels, SessionStates
<1>1. CASE StopSession(t)
  <2>1. session[client[t]] \in StartedStates
    BY <1>1 DEF RemovalPhase, StopSession
  <2>2. TypeOK'
    <3>1. /\ session' = [session EXCEPT ![client[t]] = "stopped"]
          /\ pc' = [pc EXCEPT ![t] = "detachaudio"]
          /\ UNCHANGED <<backlog, timeVars, sinkVars, lock, stop_condition, client,
                         unseen, failure>>
      BY <1>1, <2>1 DEF StopSession
    <3> QED BY <3>1 DEF TypeOK
  <2>3. SetUpPhase'
    BY <1>1, <2>1
    DEF SetUpPhase, TypeOK, MapOwned, ClientKnown, Apart, StopSession, Die
  <2>4. RemovalPhase'
    BY <1>1, <2>1
    DEF RemovalPhase, TypeOK, MapOwned, ClientKnown, StopSession, Die
  <2>5. (NoMisuse /\ MapOwned /\ ClientKnown /\ Owned /\ Apart /\ Ages /\
        NoneDangling)'
    BY <1>1, <2>1
    DEF NoMisuse, MapOwned, ClientKnown, Owned, Apart, Ages, NoneDangling,
        TypeOK, SinksAlive, StopSession, Die
  <2> QED BY <2>2, <2>3, <2>4, <2>5
<1>2. CASE DetachAudio(t)
  BY <1>2
  DEF TypeOK, NoMisuse, MapOwned, ClientKnown, SetUpPhase, RemovalPhase,
      Owned, Apart, Ages, NoneDangling, SinksAlive, DetachAudio
<1>3. CASE DetachVideo(t)
  BY <1>3
  DEF TypeOK, NoMisuse, MapOwned, ClientKnown, SetUpPhase, RemovalPhase,
      Owned, Apart, Ages, NoneDangling, SinksAlive, DetachVideo
<1>4. CASE Erase(t)
  <2>1. TypeOK'
    BY <1>4 DEF TypeOK, ClientKnown, Erase
  <2>2. SetUpPhase'
    BY <1>4 DEF SetUpPhase, TypeOK, ClientKnown, RemovalPhase, Erase
  <2>3. RemovalPhase'
    BY <1>4 DEF RemovalPhase, TypeOK, MapOwned, Erase
  <2>4. Ages'
    BY <1>4 DEF Ages, TypeOK, MapOwned, Erase
  <2>5. NoneDangling'
    BY <1>4 DEF NoneDangling, TypeOK, RemovalPhase, SinksAlive, Erase
  <2>6. (NoMisuse /\ MapOwned /\ ClientKnown /\ Owned /\ Apart)'
    BY <1>4 DEF NoMisuse, MapOwned, ClientKnown, Owned, Apart, TypeOK, Erase
  <2> QED BY <2>1, <2>2, <2>3, <2>4, <2>5, <2>6
<1> QED
  BY <1>1, <1>2, <1>3, <1>4 DEF Removal

\* The listener.
LEMMA ListenerPreserves ==
  ASSUME IInv, ListenerStep \/ AcceptFails
  PROVE  IInv'
<1> USE SocketServerAssumption DEF IInv, Threads, Goto, Live, SettingUp, Purging,
   StartedStates, MaxAge, sinkVars, timeVars, ListenerUnchanged, RemovalLabels,
   ListenerLabels, PurgeLabels, MainLabels, SessionStates
<1>1. CASE ListenerStops
  BY <1>1
  DEF TypeOK, NoMisuse, MapOwned, ClientKnown, SetUpPhase, RemovalPhase,
      Owned, Apart, Ages, NoneDangling, SinksAlive, ListenerStops
<1>2. CASE Accept
  BY <1>2
  DEF TypeOK, NoMisuse, MapOwned, ClientKnown, SetUpPhase, RemovalPhase,
      Owned, Apart, Ages, NoneDangling, SinksAlive, Accept
<1>3. CASE LockListener
  <2>1. RemovalPhase'
    BY <1>3
    DEF RemovalPhase, TypeOK, MapOwned, ClientKnown, Owned, LockListener
  <2>2. (TypeOK /\ NoMisuse /\ MapOwned /\ ClientKnown /\ SetUpPhase /\ Owned
        /\ Apart /\ Ages /\ NoneDangling)'
    BY <1>3
    DEF TypeOK, NoMisuse, MapOwned, ClientKnown, SetUpPhase, Owned, Apart,
        Ages, NoneDangling, SinksAlive, LockListener
  <2> QED BY <2>1, <2>2
<1>4. CASE Emplace
  <2>1. TypeOK'
    BY <1>4 DEF TypeOK, ClientKnown, Emplace
  <2>2. SetUpPhase'
    BY <1>4 DEF SetUpPhase, TypeOK, ClientKnown, Emplace
  <2>3. RemovalPhase'
    BY <1>4 DEF RemovalPhase, MapOwned, Emplace
  <2>4. Apart'
    BY <1>4 DEF Apart, MapOwned, Emplace
  <2>5. Ages'
    BY <1>4 DEF Ages, TypeOK, ClientKnown, Emplace
  <2>6. NoneDangling'
    BY <1>4 DEF NoneDangling, MapOwned, SinksAlive, Emplace
  <2>7. (NoMisuse /\ MapOwned /\ ClientKnown /\ Owned)'
    BY <1>4 DEF NoMisuse, MapOwned, ClientKnown, Owned, TypeOK, Emplace
  <2> QED BY <2>1, <2>2, <2>3, <2>4, <2>5, <2>6, <2>7
<1>5. CASE UnlockListener
  BY <1>5
  DEF TypeOK, NoMisuse, MapOwned, ClientKnown, SetUpPhase, RemovalPhase,
      Owned, Apart, Ages, NoneDangling, SinksAlive, UnlockListener
<1>6. CASE InitSession
  <2>1. session[client[Listener]] = "created"
    BY <1>6 DEF SetUpPhase, InitSession
  <2>2. TypeOK'
    <3>1. CASE /\ session' = [session EXCEPT ![client[Listener]] = "initialized"]
               /\ pc' = [pc EXCEPT ![Listener] = "start"]
               /\ UNCHANGED <<backlog, timeVars, sinkVars, lock, stop_condition, client,
                              unseen, failure>>
      BY <3>1 DEF TypeOK
    <3>2. CASE Die("exception")
      BY <3>2 DEF TypeOK, Die
    <3> QED BY <1>6, <2>1, <3>1, <3>2 DEF InitSession
  <2>3. SetUpPhase'
    BY <1>6, <2>1 DEF SetUpPhase, TypeOK, ClientKnown, InitSession, Die
  <2>4. RemovalPhase'
    BY <1>6, <2>1 DEF RemovalPhase, TypeOK, ClientKnown, InitSession, Die
  <2>5. (NoMisuse /\ MapOwned /\ ClientKnown /\ Owned /\ Apart /\ Ages /\
        NoneDangling)'
    BY <1>6, <2>1
    DEF NoMisuse, MapOwned, ClientKnown, Owned, Apart, Ages, NoneDangling,
        TypeOK, SinksAlive, InitSession, Die
  <2> QED BY <2>2, <2>3, <2>4, <2>5
<1>7. CASE StartSession
  <2>1. session[client[Listener]] = "initialized"
    BY <1>7 DEF SetUpPhase, StartSession
  <2>2. TypeOK'
    <3>1. /\ session' = [session EXCEPT ![client[Listener]] = "running"]
          /\ pc' = [pc EXCEPT ![Listener] = "attachaudio"]
          /\ UNCHANGED <<backlog, timeVars, sinkVars, lock, stop_condition, client,
                         unseen, failure>>
      BY <1>7, <2>1 DEF StartSession
    <3> QED BY <3>1 DEF TypeOK
  <2>3. SetUpPhase'
    BY <1>7, <2>1 DEF SetUpPhase, TypeOK, ClientKnown, StartSession, Die
  <2>4. RemovalPhase'
    BY <1>7, <2>1 DEF RemovalPhase, TypeOK, ClientKnown, StartSession, Die
  <2>5. (NoMisuse /\ MapOwned /\ ClientKnown /\ Owned /\ Apart /\ Ages /\
        NoneDangling)'
    BY <1>7, <2>1
    DEF NoMisuse, MapOwned, ClientKnown, Owned, Apart, Ages, NoneDangling,
        TypeOK, SinksAlive, StartSession, Die
  <2> QED BY <2>2, <2>3, <2>4, <2>5
<1>8. CASE AttachAudio
  <2>1. TypeOK'
    BY <1>8 DEF TypeOK, ClientKnown, AttachAudio
  <2>2. RemovalPhase'
    BY <1>8 DEF RemovalPhase, SetUpPhase, AttachAudio
  <2>3. NoneDangling'
    BY <1>8 DEF NoneDangling, SetUpPhase, SinksAlive, AttachAudio
  <2>4. (NoMisuse /\ MapOwned /\ ClientKnown /\ SetUpPhase /\ Owned /\ Apart
        /\ Ages)'
    BY <1>8
    DEF NoMisuse, MapOwned, ClientKnown, SetUpPhase, Owned, Apart, Ages,
        TypeOK, AttachAudio
  <2> QED BY <2>1, <2>2, <2>3, <2>4
<1>9. CASE AttachVideo
  <2>1. TypeOK'
    BY <1>9 DEF TypeOK, ClientKnown, AttachVideo
  <2>2. RemovalPhase'
    BY <1>9 DEF RemovalPhase, SetUpPhase, AttachVideo
  <2>3. NoneDangling'
    BY <1>9 DEF NoneDangling, SetUpPhase, SinksAlive, AttachVideo
  <2>4. (NoMisuse /\ MapOwned /\ ClientKnown /\ SetUpPhase /\ Owned /\ Apart
        /\ Ages)'
    BY <1>9
    DEF NoMisuse, MapOwned, ClientKnown, SetUpPhase, Owned, Apart, Ages,
        TypeOK, AttachVideo
  <2> QED BY <2>1, <2>2, <2>3, <2>4
<1>10. CASE AttachRequests
  <2>1. Live(client[Listener])
    BY <1>10 DEF SetUpPhase, AttachRequests
  <2>2. TypeOK'
    BY <1>10, <2>1 DEF TypeOK, ClientKnown, AttachRequests, Die
  <2>3. (NoMisuse /\ MapOwned /\ ClientKnown /\ SetUpPhase /\ RemovalPhase /\
        Owned /\ Apart /\ Ages /\ NoneDangling)'
    BY <1>10, <2>1, SMTT(30)
    DEF NoMisuse, MapOwned, ClientKnown, SetUpPhase, RemovalPhase, Owned,
        Apart, Ages, NoneDangling, TypeOK, SinksAlive, AttachRequests, Die
  <2> QED BY <2>2, <2>3
<1>11. CASE AcceptFails
  BY <1>11
  DEF TypeOK, NoMisuse, MapOwned, ClientKnown, SetUpPhase, RemovalPhase,
      Owned, Apart, Ages, NoneDangling, SinksAlive, AcceptFails, Die
<1>12. CASE Removal(Listener)
  BY <1>12, RemovalPreserves
<1> QED
  BY <1>1, <1>2, <1>3, <1>4, <1>5, <1>6, <1>7, <1>8, <1>9, <1>10, <1>11, <1>12
  DEF ListenerStep

\* The purge thread, which leaves alone a session younger than the deadline, and with
\* it the one that the listener sets up.
LEMMA PurgePreserves ==
  ASSUME InitBound <= Deadline, IInv, PurgeStep
  PROVE  IInv'
<1> USE SocketServerAssumption DEF IInv, Threads, Goto, Live, SettingUp, Purging,
   StartedStates, MaxAge, sinkVars, purgeVars, PurgeUnchanged, RemovalLabels,
   ListenerLabels, PurgeLabels, MainLabels, SessionStates
<1>1. CASE PurgeLoop
  BY <1>1
  DEF TypeOK, NoMisuse, MapOwned, ClientKnown, SetUpPhase, RemovalPhase,
      Owned, Apart, Ages, NoneDangling, SinksAlive, PurgeLoop
<1>2. CASE ReadTime
  BY <1>2
  DEF TypeOK, NoMisuse, MapOwned, ClientKnown, SetUpPhase, RemovalPhase,
      Owned, Apart, Ages, NoneDangling, SinksAlive, ReadTime
<1>3. CASE LockPurge
  BY <1>3
  DEF TypeOK, NoMisuse, MapOwned, ClientKnown, SetUpPhase, RemovalPhase,
      Owned, Apart, Ages, NoneDangling, SinksAlive, LockPurge
<1>4. ASSUME NEW c \in Clients, Visit(c) PROVE IInv'
  <2>1. TypeOK'
    BY <1>4 DEF TypeOK, Visit
  <2>2. RemovalPhase'
    BY <1>4, InitBound <= Deadline
    DEF RemovalPhase, TypeOK, MapOwned, Owned, Ages, Visit, Expired
  <2>3. Apart'
    BY <1>4, InitBound <= Deadline DEF Apart, TypeOK, Ages, Visit, Expired
  <2>4. (MapOwned /\ ClientKnown)'
    BY <1>4 DEF MapOwned, ClientKnown, TypeOK, Visit
  <2>5. (NoMisuse /\ SetUpPhase /\ Owned /\ NoneDangling)'
    BY <1>4
    DEF NoMisuse, SetUpPhase, Owned, NoneDangling, TypeOK, SinksAlive, Visit
  <2>6. Ages'
    BY <1>4 DEF Ages, TypeOK, Visit, Expired
  <2> QED BY <2>1, <2>2, <2>3, <2>4, <2>5, <2>6
<1>5. CASE UnlockPurge
  BY <1>5
  DEF TypeOK, NoMisuse, MapOwned, ClientKnown, SetUpPhase, RemovalPhase,
      Owned, Apart, Ages, NoneDangling, SinksAlive, UnlockPurge
<1>6. CASE Removal(Purge)
  BY <1>6, RemovalPreserves
<1> QED
  BY <1>1, <1>2, <1>3, <1>4, <1>5, <1>6 DEF PurgeStep

\* main.
LEMMA MainPreserves ==
  ASSUME IInv, Stop \/ ShutdownStep
  PROVE  IInv'
<1> USE SocketServerAssumption DEF IInv, Threads, Goto, Live, SettingUp, Purging,
   StartedStates, MaxAge, sinkVars, timeVars, MainUnchanged, RemovalLabels,
   ListenerLabels, PurgeLabels, MainLabels, SessionStates
<1>1. CASE Stop
  BY <1>1
  DEF TypeOK, NoMisuse, MapOwned, ClientKnown, SetUpPhase, RemovalPhase,
      Owned, Apart, Ages, NoneDangling, SinksAlive, Stop
<1>2. CASE JoinThreads
  BY <1>2
  DEF TypeOK, NoMisuse, MapOwned, ClientKnown, SetUpPhase, RemovalPhase,
      Owned, Apart, Ages, NoneDangling, SinksAlive, JoinThreads
<1>3. ASSUME NEW c \in Clients, DestroySession(c) PROVE IInv'
  <2>1. RemovalPhase'
    BY <1>3 DEF RemovalPhase, TypeOK, MapOwned, Owned, DestroySession
  <2>2. (TypeOK /\ NoMisuse /\ MapOwned /\ ClientKnown /\ SetUpPhase /\ Owned
        /\ Apart /\ Ages /\ NoneDangling)'
    BY <1>3
    DEF TypeOK, NoMisuse, MapOwned, ClientKnown, SetUpPhase, Owned, Apart,
        Ages, NoneDangling, SinksAlive, DestroySession
  <2> QED BY <2>1, <2>2
<1>4. CASE EndDestructor
  BY <1>4
  DEF TypeOK, NoMisuse, MapOwned, ClientKnown, SetUpPhase, RemovalPhase,
      Owned, Apart, Ages, NoneDangling, SinksAlive, EndDestructor
<1>5. CASE Removal(Main)
  BY <1>5, RemovalPreserves
<1> QED
  BY <1>1, <1>2, <1>3, <1>4, <1>5 DEF ShutdownStep

-----------------------------------------------------------------------------
(* The theorems. *)

\* The invariant holds at the start.
LEMMA InitIInv == Init => IInv
<1> SUFFICES ASSUME Init PROVE IInv
  OBVIOUS
<1> USE SocketServerAssumption DEF Init, Threads, Live
<1>1. TypeOK
  <2>1. /\ pc \in [Threads -> ListenerLabels \cup PurgeLabels \cup MainLabels]
        /\ pc[Listener] \in ListenerLabels
        /\ pc[Purge] \in PurgeLabels
        /\ pc[Main] \in MainLabels
    BY DEF ListenerLabels, PurgeLabels, MainLabels, RemovalLabels
  <2>2. /\ session \in [Clients -> SessionStates]
        /\ age \in [Clients -> 0 .. MaxAge]
        /\ lag \in 0 .. MaxLag
    BY DEF SessionStates, MaxAge
  <2>3. backlog \in Seq(Clients) /\ Len(backlog) <= MaxBacklog
    OBVIOUS
  <2> QED BY <2>1, <2>2, <2>3 DEF TypeOK
<1>2. MapOwned /\ ClientKnown /\ SetUpPhase /\ RemovalPhase /\ Owned /\ Apart
  BY DEF MapOwned, ClientKnown, SetUpPhase, RemovalPhase, Owned, Apart,
         RemovalLabels, SettingUp, Purging
<1>3. NoMisuse /\ Ages /\ NoneDangling
  BY DEF NoMisuse, Ages, NoneDangling, SinksAlive, RemovalLabels, SettingUp, Purging
<1> QED BY <1>1, <1>2, <1>3 DEF IInv

\* Every step preserves it.
LEMMA NextIInv ==
  ASSUME InitBound <= Deadline, IInv, [Next]_vars
  PROVE  IInv'
<1>1. CASE \E c \in Clients : ClientStep(c)
  BY <1>1, ClientsPreserves
<1>2. CASE Tick
  BY <1>2, TickPreserves
<1>3. CASE ListenerStep \/ AcceptFails
  BY <1>3, ListenerPreserves
<1>4. CASE PurgeStep
  BY <1>4, PurgePreserves
<1>5. CASE Stop \/ ShutdownStep
  BY <1>5, MainPreserves
<1>6. CASE UNCHANGED vars
  BY <1>6
  DEF IInv, vars, TypeOK, NoMisuse, MapOwned, ClientKnown, SetUpPhase, RemovalPhase,
      Owned, Apart, Ages, NoneDangling, SinksAlive, Live, SettingUp, Purging
<1> QED BY <1>1, <1>2, <1>3, <1>4, <1>5, <1>6 DEF Next, Ended

\* The inductive invariant of the registry: who owns which session, and how far
\* each thread is with the one it deals with, in SocketServer's threads.
THEOREM RegistryCorrect == ASSUME InitBound <= Deadline PROVE Spec => []IInv
<1>1. IInv /\ [Next]_vars => IInv'
  BY NextIInv
<1> QED BY <1>1, InitIInv, PTL DEF Spec

\* The registry keeps its types (SocketServer).
THEOREM TypeCorrect == ASSUME InitBound <= Deadline PROVE Spec => []TypeOK
<1>1. IInv => TypeOK
  BY DEF IInv
<1> QED BY <1>1, RegistryCorrect, PTL

\* The encoders never hold a sender of a session that is not there (attachSink,
\* detachSink in listenSocket, purge and ~SocketServer).
THEOREM SinksCorrect == ASSUME InitBound <= Deadline PROVE Spec => []SinksAlive
<1>1. IInv => SinksAlive
  BY DEF IInv, NoneDangling
<1> QED BY <1>1, RegistryCorrect, PTL

\* No session is used after its end or joined out of turn, if the set-up of a session
\* takes no longer than NOTIFY_DEADLINE_DELAY (listenSocket after its unlock).
THEOREM UseCorrect == ASSUME InitBound <= Deadline PROVE Spec => []NoMisuse
<1>1. IInv => NoMisuse
  BY DEF IInv
<1> QED BY <1>1, RegistryCorrect, PTL

\* The destructor leaves no session and no pointer to one (~SocketServer).
THEOREM DestructorCorrect == ASSUME InitBound <= Deadline PROVE Spec => []NothingLeft
<1>1. IInv => NothingLeft
  BY DEF IInv, NoneDangling, TypeOK, SinksAlive, NothingLeft
<1> QED BY <1>1, RegistryCorrect, PTL

\* Only the erase of a thread that deals with it ends a session.
LEMMA OnlyEraseEnds ==
  ASSUME IInv, [Next]_vars, NEW c \in Clients, Live(c), session'[c] = "none"
  PROVE  \E t \in Threads : Erase(t) /\ client[t] = c
<1> USE SocketServerAssumption DEF IInv, TypeOK, Threads, Live
<1>1. ASSUME NEW d \in Clients, ClientStep(d) PROVE session'[c] # "none"
  BY <1>1
  DEF ClientStep, Connect, Receive, HangUp, Block, Unblock, SessionEnds, SessionFails,
      SessionKills, Die
<1>2. CASE UNCHANGED session
  BY <1>2
<1>3. ASSUME NEW t \in Threads, Removal(t) PROVE Erase(t) /\ client[t] = c
  BY <1>3 DEF Removal, StopSession, DetachAudio, DetachVideo, Erase, Die
<1>4. CASE ListenerStep \/ AcceptFails
  <2>1. CASE Removal(Listener)
    BY <1>3, <2>1
  <2>2. CASE Emplace \/ InitSession \/ StartSession
    BY <2>2 DEF Emplace, InitSession, StartSession, Die
  <2>3. CASE ListenerStops \/ Accept \/ LockListener \/ UnlockListener \/ AcceptFails
             \/ AttachAudio \/ AttachVideo \/ AttachRequests
    BY <1>2, <2>3
    DEF ListenerStops, Accept, LockListener, UnlockListener, AcceptFails,
        AttachAudio, AttachVideo, AttachRequests, Die
  <2> QED BY <1>4, <2>1, <2>2, <2>3 DEF ListenerStep
<1>5. CASE PurgeStep
  BY <1>2, <1>3, <1>5
  DEF PurgeStep, PurgeLoop, ReadTime, LockPurge, Visit, UnlockPurge, PurgeUnchanged
<1>6. CASE Stop \/ ShutdownStep
  BY <1>2, <1>3, <1>6
  DEF Stop, ShutdownStep, JoinThreads, DestroySession, EndDestructor, MainUnchanged
<1>7. CASE Tick \/ UNCHANGED vars
  BY <1>2, <1>7 DEF Tick, vars
<1> QED BY <1>1, <1>4, <1>5, <1>6, <1>7 DEF Next, Ended

\* Purge removes only sessions that were silent past the deadline (purge).
THEOREM PurgeCorrect == ASSUME InitBound <= Deadline PROVE Spec => OnlySilentPurged
<1> DEFINE SilentOnly == \A c \in Clients :
             Live(c) /\ session'[c] = "none" /\ pc[Purge] = "erase" /\ pc'[Purge] # "erase"
               => c \in silent
<1>1. ASSUME IInv, [Next]_vars PROVE SilentOnly
  <2> SUFFICES ASSUME NEW c \in Clients, Live(c), session'[c] = "none",
                      pc[Purge] = "erase", pc'[Purge] # "erase"
               PROVE  c \in silent
    OBVIOUS
  <2>1. PICK t \in Threads : Erase(t) /\ client[t] = c
    BY <1>1, OnlyEraseEnds
  <2>2. t = Purge
    BY <1>1, <2>1, SocketServerAssumption DEF IInv, TypeOK, Threads, Erase, Goto
  <2> QED BY <1>1, <2>1, <2>2 DEF IInv, Ages, RemovalLabels
<1>2. IInv /\ [Next]_vars => [SilentOnly]_vars
  BY <1>1
<1> QED BY <1>2, RegistryCorrect, PTL DEF Spec, OnlySilentPurged
=============================================================================
