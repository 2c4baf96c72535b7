---------------------------- MODULE SocketServer ----------------------------
(***************************************************************************)
(* The registry of remote sessions: the thread that accepts connections    *)
(* (listenSocket), the thread that removes silent sessions (purge), main's *)
(* stop and destruction of the server, and the sessions themselves, each   *)
(* reduced to its RemoteSession thread, its last_update and its places in  *)
(* the sink sets of the two encoders.                                      *)
(*                                                                         *)
(* The map is keyed by the client's IP address, so a session is named by   *)
(* its client. Attaching and detaching take the spinlock that forward      *)
(* holds over all the sinks, so that a forward sees one value of the set.  *)
(*                                                                         *)
(* Time is counted in ticks, and times are kept as distances from now:     *)
(* age[c] is now - last_update and lag is now - current_time of the purge. *)
(***************************************************************************)
EXTENDS Naturals, Sequences

CONSTANTS
  Clients,
  Listener, Purge, Main,   \* the threads
  None,                    \* no client, no lock owner
  Deadline,                \* NOTIFY_DEADLINE_DELAY in ticks
  InitBound,               \* ticks the listener may need to set up a session
  MaxLag,                  \* ticks the purge may need from current_time on
  MaxBacklog,              \* connections that may wait to be accepted
  Faults                   \* what may fail: "accept", "init", "session",
                           \* "signal"

ASSUME SocketServerAssumption ==
  /\ Listener # Purge /\ Listener # Main /\ Purge # Main
  /\ None \notin Clients \cup {Listener, Purge, Main}
  /\ Deadline \in Nat /\ InitBound \in Nat /\ MaxLag \in Nat /\ MaxBacklog \in Nat
  /\ Faults \subseteq {"accept", "init", "session", "signal"}

Threads == {Listener, Purge, Main}

\* Ages above this one are not told apart.
MaxAge == Deadline + MaxLag + 1

VARIABLES
  backlog,          \* clients that connected and were not accepted yet
  session,          \* the session of each client: where its life is
  age,              \* ticks since last_update
  silent,           \* clients whose session was silent for too long when purge last
                    \* read the time (history)
  audio_sinks, video_sinks,  \* clients whose RTP senders the encoders feed
  requesters,       \* clients whose session forwards to the video encoder
  lock,
  stop_condition,
  pc,
  client,           \* the client each thread is dealing with
  unseen,           \* clients whose session the loop of purge has not visited
  lag,              \* ticks since purge read current_time
  failure           \* why the process died: "none", "exception", "signal" or "misuse"

vars == <<backlog, session, age, silent, audio_sinks, video_sinks, requesters,
          lock, stop_condition, pc, client, unseen, lag, failure>>

sinkVars  == <<audio_sinks, video_sinks, requesters>>
timeVars  == <<age, silent, lag>>
purgeVars == <<silent, unseen, lag>>

Goto(t, label) == pc' = [pc EXCEPT ![t] = label]

Live(c) == session[c] # "none"

\* A session whose thread was started and not joined.
StartedStates == {"running", "blocked", "deaf", "ended"}

Init ==
  /\ backlog = <<>>
  /\ session = [c \in Clients |-> "none"]
  /\ age = [c \in Clients |-> 0]
  /\ silent = {} /\ audio_sinks = {} /\ video_sinks = {} /\ requesters = {}
  /\ lock = None
  /\ stop_condition = FALSE
  /\ pc = [t \in Threads |-> IF t = Listener THEN "select"
                             ELSE IF t = Purge THEN "loop" ELSE "run"]
  /\ client = [t \in Threads |-> None]
  /\ unseen = {}
  /\ lag = 0
  /\ failure = "none"

\* The process dies: by an exception no thread catches, or because a destroyed
\* session is used or a session thread that does not exist is joined.
Die(why) ==
  /\ failure' = why
  /\ UNCHANGED <<backlog, session, timeVars, sinkVars, lock, stop_condition, pc,
                 client, unseen>>

-----------------------------------------------------------------------------
(* The clients and the clock.                                              *)

\* Mutant: one connection more than the backlog holds.
ConnectOneMore(c) ==
  /\ Len(backlog) <= MaxBacklog
  /\ backlog' = Append(backlog, c)
  /\ UNCHANGED <<session, timeVars, sinkVars, lock, stop_condition, pc, client,
                 unseen, failure>>

Connect(c) ==
  /\ Len(backlog) < MaxBacklog
  /\ backlog' = Append(backlog, c)
  /\ UNCHANGED <<session, timeVars, sinkVars, lock, stop_condition, pc, client,
                 unseen, failure>>

\* Mutant: a recv of 0 bytes sets last_update too.
ReceiveNothing(c) ==
  /\ session[c] \in {"running", "deaf"}
  /\ age' = [age EXCEPT ![c] = 0]
  /\ UNCHANGED <<backlog, session, silent, lag, sinkVars, lock, stop_condition,
                 pc, client, unseen, failure>>

\* The session thread gets a TCP segment or a UDP datagram of the client.
Receive(c) ==
  /\ session[c] = "running"
  /\ age' = [age EXCEPT ![c] = 0]
  /\ UNCHANGED <<backlog, session, silent, lag, sinkVars, lock, stop_condition,
                 pc, client, unseen, failure>>

\* The client closes the TCP connection, or a message fills the stream buffer:
\* from then on recv gives 0 at once, and the loop neither sets last_update nor
\* gets as far as the UDP socket.
HangUp(c) ==
  /\ session[c] = "running"
  /\ session' = [session EXCEPT ![c] = "deaf"]
  /\ UNCHANGED <<backlog, timeVars, sinkVars, lock, stop_condition, pc, client,
                 unseen, failure>>

\* The session answers a query and waits in send: its client does not read.
Block(c) ==
  /\ session[c] = "running"
  /\ session' = [session EXCEPT ![c] = "blocked"]
  /\ UNCHANGED <<backlog, timeVars, sinkVars, lock, stop_condition, pc, client,
                 unseen, failure>>

\* The client reads, or its connection breaks; nothing makes it.
Unblock(c) ==
  /\ session[c] = "blocked"
  /\ session' = [session EXCEPT ![c] = "running"]
  /\ UNCHANGED <<backlog, timeVars, sinkVars, lock, stop_condition, pc, client,
                 unseen, failure>>

\* A send to a client that is gone raises SIGPIPE, which nothing handles.
SessionKills(c) ==
  /\ "signal" \in Faults
  /\ session[c] \in {"running", "blocked"}
  /\ Die("signal")

\* The session thread sees the flag of RemoteSession::stop, at the latest after the
\* 100 ms of its select and the commands that it has received.
SessionEnds(c) ==
  /\ session[c] \in {"running", "deaf"}
  /\ \E t \in Threads : pc[t] = "stop" /\ client[t] = c
  /\ session' = [session EXCEPT ![c] = "ended"]
  /\ UNCHANGED <<backlog, timeVars, sinkVars, lock, stop_condition, pc, client,
                 unseen, failure>>

\* An exception ends the session thread, which nobody is told.
SessionFails(c) ==
  /\ "session" \in Faults
  /\ session[c] \in {"running", "deaf"}
  /\ session' = [session EXCEPT ![c] = "ended"]
  /\ UNCHANGED <<backlog, timeVars, sinkVars, lock, stop_condition, pc, client,
                 unseen, failure>>

Purging == pc[Purge] \notin {"loop", "sleep", "done"}

\* The listener is between the emplace of a session and its last attachSink.
SettingUp == pc[Listener] \in {"unlock", "init", "start", "attachaudio",
                               "attachvideo", "attachrequests"}

\* One tick passes. InitBound and MaxLag say what fits into a tick.
Tick ==
  /\ SettingUp => age[client[Listener]] < InitBound
  /\ Purging => lag < MaxLag
  /\ lag' = IF Purging THEN lag + 1 ELSE 0
  /\ age' = [c \in Clients |-> IF Live(c) /\ age[c] < MaxAge
                               THEN age[c] + 1 ELSE age[c]]
  /\ UNCHANGED <<backlog, session, silent, sinkVars, lock, stop_condition, pc, client,
                 unseen, failure>>

-----------------------------------------------------------------------------
(* The removal of a session: the same four calls in listenSocket (renew),  *)
(* in purge and in the destructor of the server.                           *)

\* RemoteSession::stop: a thread at "stop" has raised the flag and joins the session
\* thread, which a client that does not read can put off for ever. The listener and
\* purge wait with the lock of the map. Joining a thread that was never started, or
\* that was joined before, throws.
StopSession(t) ==
  /\ pc[t] = "stop"
  /\ \/ /\ session[client[t]] = "ended"
        /\ session' = [session EXCEPT ![client[t]] = "stopped"]
        /\ Goto(t, "detachaudio")
        /\ UNCHANGED <<backlog, timeVars, sinkVars, lock, stop_condition, client,
                       unseen, failure>>
     \/ session[client[t]] \notin StartedStates /\ Die("misuse")

DetachAudio(t) ==
  /\ pc[t] = "detachaudio"
  /\ audio_sinks' = audio_sinks \ {client[t]}
  /\ Goto(t, "detachvideo")
  /\ UNCHANGED <<backlog, session, timeVars, video_sinks, requesters, lock,
                 stop_condition, client, unseen, failure>>

\* Mutant: the video sender stays attached.
DetachVideoForgotten(t) ==
  /\ pc[t] = "detachvideo"
  /\ Goto(t, "erase")
  /\ UNCHANGED <<backlog, session, timeVars, sinkVars, lock, stop_condition,
                 client, unseen, failure>>

DetachVideo(t) ==
  /\ pc[t] = "detachvideo"
  /\ video_sinks' = video_sinks \ {client[t]}
  /\ Goto(t, "erase")
  /\ UNCHANGED <<backlog, session, timeVars, audio_sinks, requesters, lock,
                 stop_condition, client, unseen, failure>>

\* sessions.erase destroys the session and closes its TCP socket. The listener
\* goes on with the new session of the same client, the others with the next one.
Erase(t) ==
  /\ pc[t] = "erase"
  /\ session' = [session EXCEPT ![client[t]] = "none"]
  /\ age' = [age EXCEPT ![client[t]] = 0]
  /\ silent' = silent \ {client[t]}
  /\ requesters' = requesters \ {client[t]}
  /\ IF t = Listener
     THEN Goto(t, "emplace") /\ UNCHANGED client
     ELSE Goto(t, "visit") /\ client' = [client EXCEPT ![t] = None]
  /\ UNCHANGED <<backlog, audio_sinks, video_sinks, lag, lock, stop_condition,
                 unseen, failure>>

Removal(t) == StopSession(t) \/ DetachAudio(t) \/ DetachVideo(t) \/ Erase(t)

-----------------------------------------------------------------------------
(* SocketServer::listenSocket.                                             *)

ListenerUnchanged == UNCHANGED <<silent, stop_condition, unseen, lag, failure>>

ListenerStops ==
  /\ pc[Listener] = "select"
  /\ stop_condition
  /\ Goto(Listener, "done")
  /\ UNCHANGED <<backlog, session, age, sinkVars, lock, client>>
  /\ ListenerUnchanged

Accept ==
  /\ pc[Listener] = "select"
  /\ ~stop_condition
  /\ backlog # <<>>
  /\ client' = [client EXCEPT ![Listener] = Head(backlog)]
  /\ backlog' = Tail(backlog)
  /\ Goto(Listener, "lock")
  /\ UNCHANGED <<session, age, sinkVars, lock>>
  /\ ListenerUnchanged

AcceptFails ==
  /\ "accept" \in Faults
  /\ pc[Listener] = "select"
  /\ ~stop_condition
  /\ Die("exception")

\* lock.lock() and sessions.find: a session of the same address is renewed.
LockListener ==
  /\ pc[Listener] = "lock"
  /\ lock = None
  /\ lock' = Listener
  /\ Goto(Listener, IF Live(client[Listener]) THEN "stop" ELSE "emplace")
  /\ UNCHANGED <<backlog, session, age, sinkVars, client>>
  /\ ListenerUnchanged

Emplace ==
  /\ pc[Listener] = "emplace"
  /\ session' = [session EXCEPT ![client[Listener]] = "created"]
  /\ age' = [age EXCEPT ![client[Listener]] = 0]
  /\ Goto(Listener, "unlock")
  /\ UNCHANGED <<backlog, sinkVars, lock, client>>
  /\ ListenerUnchanged

\* From here on the listener uses the session without the lock.
UnlockListener ==
  /\ pc[Listener] = "unlock"
  /\ lock' = None
  /\ Goto(Listener, "init")
  /\ UNCHANGED <<backlog, session, age, sinkVars, client>>
  /\ ListenerUnchanged

InitSession ==
  /\ pc[Listener] = "init"
  /\ \/ /\ session[client[Listener]] = "created"
        /\ session' = [session EXCEPT ![client[Listener]] = "initialized"]
        /\ Goto(Listener, "start")
        /\ UNCHANGED <<backlog, age, sinkVars, lock, client>>
        /\ ListenerUnchanged
     \/ "init" \in Faults /\ Die("exception")
     \/ session[client[Listener]] # "created" /\ Die("misuse")

StartSession ==
  /\ pc[Listener] = "start"
  /\ \/ /\ session[client[Listener]] = "initialized"
        /\ session' = [session EXCEPT ![client[Listener]] = "running"]
        /\ Goto(Listener, "attachaudio")
        /\ UNCHANGED <<backlog, age, sinkVars, lock, client>>
        /\ ListenerUnchanged
     \/ session[client[Listener]] # "initialized" /\ Die("misuse")

\* The addresses of the two senders are valid pointers or not: attachSink does
\* not look.
AttachAudio ==
  /\ pc[Listener] = "attachaudio"
  /\ audio_sinks' = audio_sinks \cup {client[Listener]}
  /\ Goto(Listener, "attachvideo")
  /\ UNCHANGED <<backlog, session, age, video_sinks, requesters, lock, client>>
  /\ ListenerUnchanged

\* Mutant: the audio sender is attached twice, the video sender never.
AttachVideoNot ==
  /\ pc[Listener] = "attachvideo"
  /\ Goto(Listener, "attachrequests")
  /\ UNCHANGED <<backlog, session, age, sinkVars, lock, client>>
  /\ ListenerUnchanged

AttachVideo ==
  /\ pc[Listener] = "attachvideo"
  /\ video_sinks' = video_sinks \cup {client[Listener]}
  /\ Goto(Listener, "attachrequests")
  /\ UNCHANGED <<backlog, session, age, audio_sinks, requesters, lock, client>>
  /\ ListenerUnchanged

\* The session's own attachSink: it writes to the session.
AttachRequests ==
  /\ pc[Listener] = "attachrequests"
  /\ \/ /\ Live(client[Listener])
        /\ requesters' = requesters \cup {client[Listener]}
        /\ client' = [client EXCEPT ![Listener] = None]
        /\ Goto(Listener, "select")
        /\ UNCHANGED <<backlog, session, age, audio_sinks, video_sinks, lock>>
        /\ ListenerUnchanged
     \/ ~Live(client[Listener]) /\ Die("misuse")

ListenerStep ==
  \/ ListenerStops \/ Accept \/ LockListener \/ Removal(Listener) \/ Emplace
  \/ UnlockListener \/ InitSession \/ StartSession \/ AttachAudio
  \/ AttachVideo \/ AttachRequests

-----------------------------------------------------------------------------
(* SocketServer::purge.                                                    *)

PurgeUnchanged == UNCHANGED <<backlog, session, age, sinkVars, stop_condition, failure>>

PurgeLoop ==
  /\ pc[Purge] = "loop"
  /\ Goto(Purge, IF stop_condition THEN "done" ELSE "sleep")
  /\ UNCHANGED <<lock, client, purgeVars>>
  /\ PurgeUnchanged

\* LOOKUP_DELAY is over, and current_time is read.
ReadTime ==
  /\ pc[Purge] = "sleep"
  /\ Goto(Purge, "lock")
  /\ lag' = 0
  /\ silent' = {c \in Clients : Live(c) /\ age[c] > Deadline}
  /\ UNCHANGED <<lock, client, unseen>>
  /\ PurgeUnchanged

\* Mutant: purge does not take the lock.
LockPurgeNot ==
  /\ pc[Purge] = "lock"
  /\ unseen' = {c \in Clients : Live(c)}
  /\ Goto(Purge, "visit")
  /\ UNCHANGED <<lock, client, silent, lag>>
  /\ PurgeUnchanged

LockPurge ==
  /\ pc[Purge] = "lock"
  /\ lock = None
  /\ lock' = Purge
  /\ unseen' = {c \in Clients : Live(c)}
  /\ Goto(Purge, "visit")
  /\ UNCHANGED <<client, silent, lag>>
  /\ PurgeUnchanged

\* Mutant: <= 0.
ExpiredAtDeadline(c) == age[c] >= Deadline + lag

\* NOTIFY_DEADLINE_DELAY + last_update - current_time < 0
Expired(c) == age[c] > Deadline + lag

Visit(c) ==
  /\ pc[Purge] = "visit"
  /\ c \in unseen
  /\ unseen' = unseen \ {c}
  /\ IF Expired(c)
     THEN client' = [client EXCEPT ![Purge] = c] /\ Goto(Purge, "stop")
     ELSE UNCHANGED <<client, pc>>
  /\ UNCHANGED <<lock, silent, lag>>
  /\ PurgeUnchanged

UnlockPurge ==
  /\ pc[Purge] = "visit"
  /\ unseen = {}
  /\ lock' = None
  /\ lag' = 0
  /\ silent' = {}
  /\ Goto(Purge, "loop")
  /\ UNCHANGED <<client, unseen>>
  /\ PurgeUnchanged

PurgeStep ==
  \/ PurgeLoop \/ ReadTime \/ LockPurge \/ (\E c \in Clients : Visit(c))
  \/ UnlockPurge \/ Removal(Purge)

-----------------------------------------------------------------------------
(* main: SocketServer::stop and, at the end of its scope, ~SocketServer.   *)

MainUnchanged == UNCHANGED <<backlog, session, timeVars, sinkVars, lock, unseen,
                             failure>>

\* Mutant: the flag is not set.
StopUnflagged ==
  /\ pc[Main] = "run"
  /\ Goto(Main, "join")
  /\ UNCHANGED <<stop_condition, client>>
  /\ MainUnchanged

Stop ==
  /\ pc[Main] = "run"
  /\ stop_condition' = TRUE
  /\ Goto(Main, "join")
  /\ UNCHANGED client
  /\ MainUnchanged

\* Mutant: only the purge thread is joined.
JoinPurgeOnly ==
  /\ pc[Main] = "join"
  /\ pc[Purge] = "done"
  /\ Goto(Main, "visit")
  /\ UNCHANGED <<stop_condition, client>>
  /\ MainUnchanged

\* Joins the listener, then the purge thread.
JoinThreads ==
  /\ pc[Main] = "join"
  /\ pc[Listener] = "done" /\ pc[Purge] = "done"
  /\ Goto(Main, "visit")
  /\ UNCHANGED <<stop_condition, client>>
  /\ MainUnchanged

DestroySession(c) ==
  /\ pc[Main] = "visit"
  /\ Live(c)
  /\ client' = [client EXCEPT ![Main] = c]
  /\ Goto(Main, "stop")
  /\ UNCHANGED stop_condition
  /\ MainUnchanged

EndDestructor ==
  /\ pc[Main] = "visit"
  /\ \A c \in Clients : ~Live(c)
  /\ Goto(Main, "done")
  /\ UNCHANGED <<stop_condition, client>>
  /\ MainUnchanged

ShutdownStep ==
  \/ JoinThreads \/ (\E c \in Clients : DestroySession(c)) \/ Removal(Main)
  \/ EndDestructor

-----------------------------------------------------------------------------
Running == failure = "none"

ClientStep(c) ==
  \/ Connect(c) \/ Receive(c) \/ HangUp(c) \/ Block(c) \/ Unblock(c) \/ SessionEnds(c)
  \/ SessionFails(c) \/ SessionKills(c)

\* The process has ended.
Ended == (~Running \/ pc[Main] = "done") /\ UNCHANGED vars

Next ==
  \/ Running /\ \/ \E c \in Clients : ClientStep(c)
                \/ Tick
                \/ ListenerStep
                \/ AcceptFails
                \/ PurgeStep
                \/ Stop
                \/ ShutdownStep
  \/ Ended

Spec == Init /\ [][Next]_vars

(***************************************************************************)
(* The threads are scheduled and time passes. The spinlock is not fair,    *)
(* but both loops sleep or select between two acquisitions: a thread that  *)
(* finds it free again and again is taken to get it. A tick may be held up *)
(* by the bounds on what fits into one, but not for ever. A session thread *)
(* that may go on sees the flag of its stop, although it may still have to *)
(* answer the queries in its buffer, and wait for its client, before.      *)
(***************************************************************************)
Fairness ==
  /\ SF_vars(Running /\ ListenerStep)
  /\ SF_vars(Running /\ PurgeStep)
  /\ WF_vars(Running /\ ShutdownStep)
  /\ SF_vars(Running /\ Tick)
  /\ SF_vars(Running /\ \E c \in Clients : SessionEnds(c))

FairSpec == Spec /\ Fairness

-----------------------------------------------------------------------------
(* Properties.                                                             *)

SessionStates == StartedStates \cup {"none", "created", "initialized", "stopped"}
RemovalLabels == {"stop", "detachaudio", "detachvideo", "erase"}
ListenerLabels == RemovalLabels \cup
  {"select", "lock", "emplace", "unlock", "init", "start", "attachaudio",
   "attachvideo", "attachrequests", "done"}
PurgeLabels == RemovalLabels \cup {"loop", "sleep", "lock", "visit", "done"}
MainLabels  == RemovalLabels \cup {"run", "join", "visit", "done"}

\* Type invariant.
TypeOK ==
  /\ backlog \in Seq(Clients) /\ Len(backlog) <= MaxBacklog
  /\ session \in [Clients -> SessionStates]
  /\ age \in [Clients -> 0 .. MaxAge]
  /\ silent \subseteq Clients /\ unseen \subseteq Clients
  /\ audio_sinks \subseteq Clients /\ video_sinks \subseteq Clients
  /\ requesters \subseteq Clients
  /\ lock \in {None, Listener, Purge}
  /\ stop_condition \in BOOLEAN
  /\ pc \in [Threads -> ListenerLabels \cup PurgeLabels \cup MainLabels]
  /\ pc[Listener] \in ListenerLabels
  /\ pc[Purge] \in PurgeLabels
  /\ pc[Main] \in MainLabels
  /\ client \in [Threads -> Clients \cup {None}]
  /\ lag \in 0 .. MaxLag
  /\ failure \in {"none", "exception", "signal", "misuse"}

\* No encoder ever holds a sender of a session that was destroyed, or has not
\* been built yet, although listenSocket attaches without the lock.
SinksAlive == \A c \in audio_sinks \cup video_sinks : Live(c)

\* No session is used after its destruction, and no session thread is joined
\* that does not exist: purge and the destructor never meet a session that the
\* listener is still setting up.
NoMisuse == failure # "misuse"

\* Purge removes only sessions that had been silent for longer than the deadline when
\* it read the time, although it does so before it takes the lock, and a client may
\* reconnect or be heard of in between.
OnlySilentPurged ==
  [][\A c \in Clients :
       Live(c) /\ session'[c] = "none" /\ pc[Purge] = "erase" /\ pc'[Purge] # "erase"
         => c \in silent]_vars

\* When the destructor is through, nothing is left: no session, and no pointer
\* to one in an encoder.
NothingLeft ==
  pc[Main] = "done" =>
    /\ \A c \in Clients : ~Live(c)
    /\ audio_sinks \cup video_sinks \cup requesters = {}

\* A thread waits in RemoteSession::stop for a session that waits in send for its
\* client: purge or the listener with the lock of the map, or main in the destructor.
Hung ==
  \E t \in Threads : pc[t] = "stop" /\ session[client[t]] = "blocked"

\* A session that can hear its client no more is removed or renewed, unless the
\* server is stopped or dies, or the removal of some session waits for ever for a
\* client that does not read.
DeadSessionsRemoved ==
  <>[]Hung \/ \A c \in Clients :
    session[c] \in {"deaf", "ended"}
      ~> session[c] \notin {"deaf", "ended"} \/ stop_condition \/ ~Running

Served(c) == c \in audio_sinks /\ c \in video_sinks /\ c \in requesters

\* A client that connects is served, also when other clients hang up, fall silent or
\* connect again and again, unless the server is stopped or dies before, or the removal
\* of some session waits for ever for a client that does not read.
ConnectServed ==
  <>[]Hung \/ \A c \in Clients :
    (\E i \in DOMAIN backlog : backlog[i] = c)
      ~> Served(c) \/ stop_condition \/ ~Running

\* SocketServer::stop and the destructor come to their end, unless the server dies or
\* one of the three threads waits for ever for a session whose client does not read.
ShutdownCompletes ==
  <>[]Hung \/ (pc[Main] = "join" ~> pc[Main] = "done" \/ ~Running)
=============================================================================
