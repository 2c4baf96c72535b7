------------------------------- MODULE Process -------------------------------
(***************************************************************************)
(* The life of the process: main builds the objects of the audio and the   *)
(* video chain one after the other and starts their threads, waits for the *)
(* signal, stops the objects, and leaves the block, which destroys them in *)
(* the reverse order. When an object cannot be initialized, the exception  *)
(* destroys at once those that were constructed, whatever their threads    *)
(* are doing.                                                              *)
(*                                                                         *)
(* What main has still to do is a sequence of calls. The converter has two *)
(* threads; elsewhere one stands for those of an object. The sessions are  *)
(* counted, and have one object and one thread between them, for the life  *)
(* of each among the others is that of SocketServer; what happens inside   *)
(* of an object is modelled in the other modules. Here a thread calls a    *)
(* sink and comes back, and the sink should not be destroyed before.       *)
(***************************************************************************)
EXTENDS Naturals, Sequences, SequencesExt

CONSTANTS
  Limit,    \* descriptors that the sessions may have open before socket() fails
  Faults    \* "init": an init in main throws; a grabber: its device fails; an encoder: it
            \* refuses a frame with an error; "session": the init of one throws though it
            \* has its descriptors

Grabbers == {"audio_source", "video_source"}
Encoders == {"audio_encoder", "video_encoder"}
Owners   == Grabbers \cup Encoders \cup {"video_converter", "server", "session"}
None     == "none"

ASSUME ProcessAssumption ==
  Limit \in Nat /\ Faults \subseteq {"init", "session"} \cup Grabbers \cup Encoders

Threads == Owners \cup {"second_converter"}

\* The object a thread runs in, and the threads of an object.
Of(t) == IF t = "second_converter" THEN "video_converter" ELSE t
ThreadsOf(o) == {t \in Threads : Of(t) = o}

VARIABLES
  todo,         \* the calls main has still to make
  constructed,  \* the objects of main, in the order of their construction
  state,        \* of each object
  stop_condition,
  thread,       \* where each thread is: "loop"; "lock", in forward, of which it waits for
                \* the lock; "handle", in a sink; "send", in an encoder that takes frames;
                \* "asleep"; "done"
  sinks,        \* of each object as a Source
  leaked,       \* the sources whose lock an exception left locked
  inside,       \* the sink each thread has called and not returned from
  initialized,  \* the encoders that take frames
  ended,        \* the encoders whose codec was sent the end of the stream
  pending,      \* the encoders with a packet ready, and the converter with a frame
  open,         \* how many sessions there are
  joining,      \* "server" or "main": who joins a session that is blocked in send
  fds,          \* descriptors the sessions have opened and not closed
  removed,      \* sessions that were stopped and erased (history)
  thrown,       \* the object whose init threw (history)
  outcome       \* how the process ended: "running" if it did not, "returned", "exhausted" or
                \* "terminated" by an exception in the listener, for want of descriptors or
                \* not, or the object that was used after its destruction

vars == <<todo, constructed, state, stop_condition, thread, sinks, leaked, inside, initialized,
          ended, pending, open, joining, fds, removed, thrown, outcome>>

-----------------------------------------------------------------------------
(* The calls of main.                                                      *)

\* A call: what it does, of which object, and the sink it attaches if it does that.
Do(what, o) == <<what, o, None>>

\* The converter is constructed in either case, and used if the sizes or the pixel
\* formats of screen and encoder differ.
Startup(converted) ==
  <<Do("init", "audio_source"), Do("init", "audio_encoder"),
    <<"attach", "audio_source", "audio_encoder">>,
    Do("start", "audio_encoder"), Do("start", "audio_source"),
    Do("init", "video_source"), Do("start", "video_source"),
    Do("init", "video_encoder"), Do("start", "video_encoder")>>
  \o (IF converted
      THEN <<Do("init", "video_converter"), Do("start", "video_converter"),
              <<"attach", "video_converter", "video_encoder">>,
              <<"attach", "video_source", "video_converter">> >>
      ELSE <<Do("construct", "video_converter"),
              <<"attach", "video_source", "video_encoder">> >>)
  \o <<Do("init", "server"), Do("start", "server"), Do("wait", None)>>

\* Mutant: the audio grabber is not stopped before the objects are destroyed.
StopsButAudio ==
  <<Do("stop", "server"), Do("stop", "video_encoder"), Do("stop", "video_converter"),
    Do("stop", "video_source"), Do("stop", "audio_encoder")>>

Stops ==
  <<Do("stop", "server"), Do("stop", "video_encoder"), Do("stop", "video_converter"),
    Do("stop", "video_source"), Do("stop", "audio_encoder"), Do("stop", "audio_source")>>

\* A destructor stops the object first. Those of the encoders have the members of the
\* derived class destroyed before that; that of the server ends the sessions after it.
Destructor(o) ==
  (IF o \in Encoders THEN <<Do("dismantle", o)>> ELSE <<>>)
    \o <<Do("stop", o)>>
    \o (IF o = "server" THEN <<Do("sessions", o)>> ELSE <<>>)
    \o <<Do("free", o)>>

\* The objects are destroyed in the reverse order of their construction.
Unwinding(objects) == FlattenSeq([i \in DOMAIN objects |-> Destructor(Reverse(objects)[i])])

\* All that main does if nothing throws.
Calls(converted) == Startup(converted) \o Stops \o <<Do("return", None)>>

Init ==
  /\ \E converted \in BOOLEAN : todo = Calls(converted)
  /\ constructed = <<>>
  /\ state = [o \in Owners |-> "unborn"]
  /\ stop_condition = [o \in Owners |-> TRUE]
  /\ thread = [t \in Threads |-> "none"]
  /\ sinks = [o \in Owners |-> {}] /\ leaked = {}
  /\ inside = [t \in Threads |-> None]
  /\ initialized = {} /\ ended = {} /\ pending = {}
  /\ open = 0 /\ joining = None
  /\ fds = 0 /\ removed = 0
  /\ thrown = None
  /\ outcome = "running"

\* The process is over, and its threads with it.
Over(how) ==
  /\ outcome' = how
  /\ thread' = [t \in Threads |-> "none"]
  /\ inside' = [t \in Threads |-> None]
  /\ pending' = {}

At(call) == outcome = "running" /\ todo # <<>> /\ Head(todo) = call

Go == todo' = Tail(todo)

MainUnchanged == UNCHANGED <<leaked, inside, pending, open, joining, fds, removed, outcome>>

Construct(o) ==
  /\ constructed' = Append(constructed, o)
  /\ state' = [state EXCEPT ![o] = "alive"]

InitObject(o) ==
  /\ \/ At(Do("init", o)) /\ initialized' = initialized \cup {o}
     \/ At(Do("construct", o)) /\ UNCHANGED initialized
  /\ Construct(o)
  /\ Go
  /\ UNCHANGED <<stop_condition, thread, sinks, ended, thrown>>
  /\ MainUnchanged

\* An exception out of init. Only the converter cannot fail.
InitThrows(o) ==
  /\ "init" \in Faults
  /\ At(Do("init", o)) /\ o # "video_converter"
  /\ Construct(o)
  /\ thrown' = o
  /\ todo' = Unwinding(constructed')
  /\ UNCHANGED <<stop_condition, thread, sinks, initialized, ended>>
  /\ MainUnchanged

\* The lock of a source: nobody is in its forward, or left it by an exception.
Free(o) == o \notin leaked /\ \A t \in ThreadsOf(o) : inside[t] = None

\* attachSink waits for the lock that a thread in forward has.
Attach(o, d) ==
  /\ At(<<"attach", o, d>>)
  /\ Free(o)
  /\ sinks' = [sinks EXCEPT ![o] = @ \cup {d}]
  /\ Go
  /\ UNCHANGED <<constructed, state, stop_condition, thread, initialized, ended, thrown>>
  /\ MainUnchanged

Start(o) ==
  /\ At(Do("start", o))
  /\ stop_condition' = [stop_condition EXCEPT ![o] = FALSE]
  /\ thread' = [t \in Threads |-> IF Of(t) = o THEN "loop" ELSE thread[t]]
  /\ Go
  /\ UNCHANGED <<constructed, state, sinks, initialized, ended, thrown>>
  /\ MainUnchanged

\* main has slept until the signal came.
Interrupt ==
  /\ At(Do("wait", None))
  /\ Go
  /\ UNCHANGED <<constructed, state, stop_condition, thread, sinks, initialized, ended, thrown>>
  /\ MainUnchanged

\* The threads of an object have not begun, or have ended.
Quiet(o) == \A t \in ThreadsOf(o) : thread[t] \in {"none", "done"}

\* stop raises the flag and joins the threads. That of an encoder also flushes it: it
\* sends the codec the end of the stream, forwards what is left to the sessions, and
\* takes no more frames.
Stop(o) ==
  /\ At(Do("stop", o))
  /\ \/ /\ ~stop_condition[o]
        /\ stop_condition' = [stop_condition EXCEPT ![o] = TRUE]
        /\ UNCHANGED <<todo, initialized, ended>>
     \/ /\ stop_condition[o] /\ Quiet(o)
        /\ o \in (Encoders \cap initialized) \ ended
        /\ ended' = ended \cup {o}
        /\ UNCHANGED <<todo, stop_condition, initialized>>
     \/ /\ stop_condition[o] /\ Quiet(o)
        /\ o \notin (Encoders \cap initialized) \ ended
        /\ initialized' = initialized \ ({o} \cap Encoders)
        /\ Go
        /\ UNCHANGED <<stop_condition, ended>>
  /\ UNCHANGED <<constructed, state, thread, sinks, thrown>>
  /\ MainUnchanged

\* The end of the block.
Return ==
  /\ At(Do("return", None))
  /\ todo' = Unwinding(constructed)
  /\ UNCHANGED <<constructed, state, stop_condition, thread, sinks, initialized, ended, thrown>>
  /\ MainUnchanged

Destroy(o) ==
  /\ \/ At(Do("dismantle", o))
     \/ At(Do("free", o))
  /\ state' = [state EXCEPT ![o] = "destroyed"]
  /\ Go
  /\ UNCHANGED <<constructed, stop_condition, thread, sinks, initialized, ended, thrown>>
  /\ MainUnchanged

Exit ==
  /\ outcome = "running" /\ todo = <<>>
  /\ Over("returned")
  /\ UNCHANGED <<todo, constructed, state, stop_condition, sinks, leaked, initialized, ended,
                 open, joining, fds, removed, thrown>>

-----------------------------------------------------------------------------
(* The sessions of the server.                                             *)

\* The descriptors of a session.
Descriptors == [tcp |-> 1, udp |-> 1, rtp_audio |-> 2, rtp_video |-> 2, keyboard |-> 1,
                mouse |-> 1, gamepad |-> 1]

PerSession ==
  Descriptors.tcp + Descriptors.udp + Descriptors.rtp_audio + Descriptors.rtp_video
    + Descriptors.keyboard + Descriptors.mouse + Descriptors.gamepad

\* Mutant: the gamepad does not close its device.
ClosedButGamepad == Descriptors.tcp + Descriptors.keyboard + Descriptors.mouse

\* Those that the destructor of a session closes...
Closed == Descriptors.tcp + Descriptors.keyboard + Descriptors.mouse + Descriptors.gamepad

\* ... and those it leaves: the UDP socket, and the RTP and RTCP sockets of both senders.
LeftOpen == Descriptors.udp + Descriptors.rtp_audio + Descriptors.rtp_video

SessionUnchanged ==
  UNCHANGED <<constructed, leaked, inside, initialized, ended, pending, thrown>>

Listening ==
  /\ outcome = "running"
  /\ thread["server"] = "loop" /\ ~stop_condition["server"]
  /\ joining = None

\* A client connects: its session gets its descriptors, its thread and its place among
\* the sinks of the encoders.
OpenSession ==
  /\ Listening
  /\ fds + PerSession <= Limit
  /\ \A e \in Encoders : Free(e)
  /\ open' = open + 1
  /\ fds' = fds + PerSession
  /\ IF open = 0
     THEN /\ state' = [state EXCEPT !["session"] = "alive"]
          /\ stop_condition' = [stop_condition EXCEPT !["session"] = FALSE]
          /\ thread' = [thread EXCEPT !["session"] = "loop"]
          /\ sinks' = [o \in Owners |-> IF o \in Encoders THEN {"session"}
                                        ELSE IF o = "session" THEN {"video_encoder"}
                                        ELSE sinks[o]]
     ELSE UNCHANGED <<state, stop_condition, thread, sinks>>
  /\ UNCHANGED <<todo, joining, removed, outcome>>
  /\ SessionUnchanged

\* Accept or the init of a session fails, for want of a descriptor or otherwise: nothing
\* catches the exception in the thread of the listener.
OpenFails ==
  /\ Listening
  /\ \/ fds + PerSession > Limit /\ Over("exhausted")
     \/ "session" \in Faults /\ Over("terminated")
  /\ UNCHANGED <<todo, constructed, state, stop_condition, sinks, leaked, initialized, ended,
                 open, joining, fds, removed, thrown>>

\* The thread of a session can be joined, unless it waits for its client: if there is but
\* one, the thread is not in forward.
Joinable == open > 0 /\ (open = 1 => thread["session"] = "loop")

\* stop, detachSink from both encoders, and erase.
RemoveSession ==
  /\ Joinable
  /\ \A e \in Encoders : Free(e)
  /\ open' = open - 1
  /\ fds' = fds - Closed
  /\ removed' = removed + 1
  /\ IF open = 1
     THEN /\ state' = [state EXCEPT !["session"] = "destroyed"]
          /\ stop_condition' = [stop_condition EXCEPT !["session"] = TRUE]
          /\ thread' = [thread EXCEPT !["session"] = "done"]
          /\ sinks' = [o \in Owners |-> sinks[o] \ {"session"}]
     ELSE UNCHANGED <<state, stop_condition, thread, sinks>>

\* The client reconnects, or purge finds it silent.
EndSession ==
  /\ Listening
  /\ RemoveSession
  /\ UNCHANGED <<todo, joining, outcome>>
  /\ SessionUnchanged

\* ~SocketServer ends the sessions that are left, one after the other.
EndSessions ==
  /\ At(Do("sessions", "server"))
  /\ joining = None
  /\ \/ RemoveSession /\ UNCHANGED todo
     \/ /\ open = 0 /\ Go
        /\ UNCHANGED <<state, stop_condition, thread, sinks, open, fds, removed>>
  /\ UNCHANGED <<joining, outcome>>
  /\ SessionUnchanged

\* The session to be joined is blocked in send, for its client does not read...
JoinBlocked ==
  /\ Joinable
  /\ \/ Listening /\ joining' = "server"
     \/ At(Do("sessions", "server")) /\ joining = None /\ joining' = "main"
  /\ UNCHANGED <<todo, state, stop_condition, thread, sinks, open, fds, removed, outcome>>
  /\ SessionUnchanged

\* ... until the client does, if ever.
ClientReads ==
  /\ outcome = "running" /\ joining # None
  /\ RemoveSession
  /\ joining' = None
  /\ UNCHANGED <<todo, outcome>>
  /\ SessionUnchanged

-----------------------------------------------------------------------------
(* The threads.                                                            *)

ThreadUnchanged ==
  UNCHANGED <<todo, constructed, state, stop_condition, sinks, initialized, ended, open,
              joining, fds, removed, thrown>>

Runs(t) == outcome = "running" /\ thread[t] = "loop" /\ ~(t = "server" /\ joining = "server")

\* The loop ends: the thread saw the flag...
Leave(t) ==
  /\ Runs(t)
  /\ stop_condition[Of(t)]
  /\ thread' = [thread EXCEPT ![t] = "done"]
  /\ UNCHANGED <<leaked, inside, pending, outcome>>
  /\ ThreadUnchanged

\* ... or a capture device failed.
Fail(t) ==
  /\ t \in Grabbers \cap Faults /\ Runs(t)
  /\ thread' = [thread EXCEPT ![t] = "done"]
  /\ UNCHANGED <<leaked, inside, pending, outcome>>
  /\ ThreadUnchanged

\* What there is to forward: a grabber has a frame, again and again, encoders and the
\* converter what came out of them, the sessions that are not blocked a request.
HasItem(o) ==
  \/ o \in Grabbers \cup pending
  \/ o = "session" /\ open > (IF joining = None THEN 0 ELSE 1)

\* A thread saw no flag, and takes the next item.
Takes(t) ==
  /\ Runs(t)
  /\ ~stop_condition[Of(t)] /\ HasItem(Of(t))

\* forward waits for the lock.
Wait(t) ==
  /\ Takes(t)
  /\ ~Free(Of(t))
  /\ thread' = [thread EXCEPT ![t] = "lock"]
  /\ pending' = pending \ {Of(t)}
  /\ UNCHANGED <<leaked, inside, outcome>>
  /\ ThreadUnchanged

\* What feeds an encoder or the converter with frames.
Feeds(o) == o \in Grabbers \cup {"video_converter"}

\* forward has the lock, at once or after it waited, and calls handle of the sink. An
\* encoder sees there whether it is initialized.
Call(t) ==
  /\ Takes(t) \/ (outcome = "running" /\ thread[t] = "lock")
  /\ Free(Of(t))
  /\ LET left == IF thread[t] = "loop" THEN pending \ {Of(t)} ELSE pending
     IN \/ /\ sinks[Of(t)] = {}
           /\ thread' = [thread EXCEPT ![t] = "loop"]
           /\ pending' = left
           /\ UNCHANGED <<inside, outcome>>
        \/ \E d \in sinks[Of(t)] :
             \/ /\ state[d] = "alive"
                /\ inside' = [inside EXCEPT ![t] = d]
                /\ thread' = [thread EXCEPT ![t] =
                                IF Feeds(Of(t)) /\ d \in initialized THEN "send" ELSE "handle"]
                /\ pending' = left
                /\ UNCHANGED outcome
             \/ state[d] # "alive" /\ Over(d)
  /\ UNCHANGED leaked
  /\ ThreadUnchanged

\* Mutant: the drain thread is not woken.
WokenNot(d) == thread

\* encoder_cv.notify_all()
Woken(d) == IF thread[d] = "asleep" THEN [thread EXCEPT ![d] = "loop"] ELSE thread

\* handle returns. An encoder that took the frame has a packet, and its drain thread was
\* notified; the converter has a frame queued.
Back(t) ==
  /\ outcome = "running" /\ inside[t] # None
  /\ LET d == inside[t]
     IN \/ /\ state[d] # "alive"
           /\ Over(d)
        \/ /\ state[d] = "alive" /\ ~(thread[t] = "send" /\ d \in ended)
           /\ inside' = [inside EXCEPT ![t] = None]
           /\ thread' = [(IF thread[t] = "send" THEN Woken(d) ELSE thread) EXCEPT ![t] = "loop"]
           /\ pending' = IF thread[t] = "send" THEN pending \cup {d} ELSE pending
           /\ UNCHANGED outcome
  /\ UNCHANGED leaked
  /\ ThreadUnchanged

\* The codec refuses the frame, as it does after the end of the stream, and the exception
\* leaves handle, forward, without unlocking, and the loop of the thread.
Throw(t) ==
  /\ outcome = "running" /\ thread[t] = "send"
  /\ inside[t] \in Encoders /\ state[inside[t]] = "alive"
  /\ inside[t] \in ended \cup Faults
  /\ inside' = [inside EXCEPT ![t] = None]
  /\ thread' = [thread EXCEPT ![t] = "done"]
  /\ leaked' = leaked \cup {Of(t)}
  /\ UNCHANGED <<pending, outcome>>
  /\ ThreadUnchanged

\* encoder_cv.wait: the drain thread found no packet. It looks at the flag only after
\* the next one.
Sleep(t) ==
  /\ t \in Encoders /\ Runs(t)
  /\ ~stop_condition[t] /\ t \notin pending
  /\ thread' = [thread EXCEPT ![t] = "asleep"]
  /\ UNCHANGED <<leaked, inside, pending, outcome>>
  /\ ThreadUnchanged

\* The next call is one of o.
Concerns(o) == todo # <<>> /\ Head(todo)[2] = o

MainStep ==
  \/ \E o \in Owners :
       /\ Concerns(o)
       /\ \/ InitObject(o) \/ Start(o) \/ Stop(o) \/ Destroy(o)
          \/ \E d \in Owners : Attach(o, d)
  \/ Return \/ EndSessions \/ Exit

ThreadStep(t) == Leave(t) \/ Wait(t) \/ Call(t) \/ Back(t) \/ Throw(t) \/ Sleep(t)

Next ==
  \/ MainStep \/ Interrupt \/ \E o \in Owners : InitThrows(o)
  \/ OpenSession \/ OpenFails \/ EndSession \/ JoinBlocked \/ ClientReads
  \/ \E t \in Threads : ThreadStep(t) \/ Fail(t)

Spec == Init /\ [][Next]_vars

\* main and the threads are scheduled, and main gets a source's spinlock that is free
\* again and again. Nobody has to connect, to read or to stop the server.
Fairness ==
  /\ SF_vars(MainStep)
  /\ \A t \in Threads : WF_vars(ThreadStep(t))

FairSpec == Spec /\ Fairness

-----------------------------------------------------------------------------
(* Properties.                                                             *)

\* No thread uses an object of main that was destroyed, however the process is stopped:
\* the stops of main quiet every source before its sinks go. Only an exception, once a
\* grabber was started, can destroy an object with a source that is still running,
\* and it never is a session, for the server is the first to go.
MisuseOnlyUnwinding ==
  outcome \in Owners =>
    /\ thrown \in {"video_source", "video_encoder", "server"}
    /\ outcome \in {"audio_encoder", "video_converter", "video_encoder"}

\* Somebody joins a session whose client does not read.
JoinsBlocked == joining # None

\* main joins a thread of the converter that waits for the lock the other one leaked.
JoinsSpinner ==
  /\ At(Do("stop", "video_converter")) /\ "video_converter" \in leaked
  /\ \E t \in ThreadsOf("video_converter") : thread[t] = "lock"

\* A grabber has ended by itself: its device failed, or its encoder threw.
GrabberFailed == \E g \in Grabbers : thread[g] = "done" /\ ~stop_condition[g]

\* main joins a drain thread that sleeps, and what would feed its encoder has ended by
\* itself, or waits for a lock that was leaked.
JoinsSleeper ==
  /\ \E e \in Encoders : At(Do("stop", e)) /\ thread[e] = "asleep"
  /\ GrabberFailed \/ leaked # {}

\* Once main has begun to end the process it comes to an end, in order or by the misuse
\* above, but for three joins that may last for ever: of a session whose client does not
\* read, of a thread of the converter after the other one has leaked the lock, and of a
\* drain thread when a device or an encoder had failed before.
ProcessEnds ==
  \/ <>[]JoinsBlocked
  \/ <>[]JoinsSpinner
  \/ <>[]JoinsSleeper
  \/ (thrown # None \/ At(Do("stop", "server"))) ~> outcome # "running"

\* Clients that come and go end the server sooner or later, but not before the descriptors
\* that ended sessions have left behind, with those of the sessions that are there, leave
\* too few for one more.
ServerOutlivesReconnects ==
  outcome = "exhausted" => removed * LeftOpen + (open + 1) * PerSession > Limit

=============================================================================
