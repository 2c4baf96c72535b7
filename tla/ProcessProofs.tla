--------------------------- MODULE ProcessProofs ---------------------------
(***************************************************************************)
(* Theorems about Process, for any number of descriptors and any choice of *)
(* failures: who may use an object that was destroyed, and when the        *)
(* descriptors run out.                                                    *)
(*                                                                         *)
(* What is safe about the life of the process is an order of the calls of  *)
(* main, so the first part locates each of them. The inductive invariant   *)
(* says that main is at the n-th of its calls, what follows for each       *)
(* object from where the call that initializes and the one that stops it   *)
(* stand, or that it is destroying its objects; then every thread of them  *)
(* has ended, if the exception, should there be one, came before the       *)
(* grabbers ran. Unwinding is joined by a recursive function, whose        *)
(* existence follows from the smallest counterexample.                     *)
(***************************************************************************)
EXTENDS Process, SequenceTheorems, WellFoundedInduction, TLAPS

\* The objects of main.
Objects == Owners \ {"session"}

\* The kinds of calls.
Whats == {"init", "construct", "attach", "start", "wait", "stop", "return", "dismantle",
          "sessions", "free"}
Call3 == Whats \X (Owners \cup {None}) \X (Owners \cup {None})

\* The parts of what main does.
Before == <<Do("init", "audio_source"), Do("init", "audio_encoder"),
            <<"attach", "audio_source", "audio_encoder">>,
            Do("start", "audio_encoder"), Do("start", "audio_source"),
            Do("init", "video_source"), Do("start", "video_source"),
            Do("init", "video_encoder"), Do("start", "video_encoder")>>

Converter(converted) ==
  IF converted
  THEN <<Do("init", "video_converter"), Do("start", "video_converter"),
         <<"attach", "video_converter", "video_encoder">>,
         <<"attach", "video_source", "video_converter">> >>
  ELSE <<Do("construct", "video_converter"),
         <<"attach", "video_source", "video_encoder">> >>

Serving == <<Do("init", "server"), Do("start", "server"), Do("wait", None)>>

Ending == <<Do("return", None)>>

\* How many calls concern the converter.
Extra(converted) == IF converted THEN 4 ELSE 2

\* All that main does is those parts, in this order.
LEMMA CallsParts ==
  ASSUME NEW c \in BOOLEAN
  PROVE  Calls(c) = (((Before \o Converter(c)) \o Serving) \o Stops) \o Ending
BY DEF Calls, Startup, Before, Converter, Serving, Ending

\* The lengths of the parts.
LEMMA PartsTyped ==
  ASSUME NEW c \in BOOLEAN
  PROVE  /\ Before \in Seq(Call3) /\ Len(Before) = 9
         /\ Converter(c) \in Seq(Call3) /\ Len(Converter(c)) = Extra(c)
         /\ Serving \in Seq(Call3) /\ Len(Serving) = 3
         /\ Stops \in Seq(Call3) /\ Len(Stops) = 6
         /\ Ending \in Seq(Call3) /\ Len(Ending) = 1
<1> USE DEF Call3, Whats, Do, None, Owners, Grabbers, Encoders
<1>1. Before \in Seq(Call3) /\ Len(Before) = 9
  BY DEF Before
<1>2. Converter(c) \in Seq(Call3) /\ Len(Converter(c)) = Extra(c)
  <2>1. CASE c = TRUE
    BY <2>1 DEF Converter, Extra
  <2>2. CASE c = FALSE
    BY <2>2 DEF Converter, Extra
  <2> QED BY <2>1, <2>2
<1>3. Serving \in Seq(Call3) /\ Len(Serving) = 3
  BY DEF Serving
<1>4. Stops \in Seq(Call3) /\ Len(Stops) = 6
  BY DEF Stops
<1>5. Ending \in Seq(Call3) /\ Len(Ending) = 1
  BY DEF Ending
<1> QED BY <1>1, <1>2, <1>3, <1>4, <1>5

\* u is s, of m elements, and then t, of k elements.
Follow(u, s, m, t, k) ==
  /\ u \in Seq(Call3) /\ Len(u) = m + k
  /\ \A i \in 1 .. m : u[i] = s[i]
  /\ \A i \in 1 .. k : u[m + i] = t[i]

\* The elements of two sequences joined.
LEMMA Joint ==
  ASSUME NEW s \in Seq(Call3), NEW t \in Seq(Call3),
         NEW m \in Nat, Len(s) = m, NEW k \in Nat, Len(t) = k
  PROVE  Follow(s \o t, s, m, t, k)
<1> DEFINE u == s \o t
<1>1. /\ u \in Seq(Call3) /\ Len(u) = m + k
      /\ \A i \in 1 .. m + k : u[i] = IF i <= m THEN s[i] ELSE t[i - m]
  BY ConcatProperties
<1> HIDE DEF u
<1>2. ASSUME NEW i \in 1 .. m PROVE u[i] = s[i]
  BY <1>1
<1>3. ASSUME NEW i \in 1 .. k PROVE u[m + i] = t[i]
  <2>1. m + i \in 1 .. m + k /\ ~(m + i <= m) /\ (m + i) - m = i
    OBVIOUS
  <2> QED BY <1>1, <2>1
<1> QED BY <1>1, <1>2, <1>3 DEF u, Follow

\* Where the calls of main stand.
LEMMA Layout ==
  ASSUME NEW c \in BOOLEAN, NEW m \in Nat, m = Extra(c)
  PROVE  /\ Calls(c) \in Seq(Call3) /\ Len(Calls(c)) = 19 + m
         /\ \A i \in 1 .. 9 : Calls(c)[i] = Before[i]
         /\ \A i \in 1 .. m : Calls(c)[9 + i] = Converter(c)[i]
         /\ \A i \in 1 .. 3 : Calls(c)[9 + m + i] = Serving[i]
         /\ \A i \in 1 .. 6 : Calls(c)[12 + m + i] = Stops[i]
         /\ Calls(c)[19 + m] = Ending[1]
<1> DEFINE s0 == Before
           s1 == s0 \o Converter(c)
           s2 == s1 \o Serving
           s3 == s2 \o Stops
           s4 == s3 \o Ending
<1>1. Follow(s1, s0, 9, Converter(c), m)
  BY PartsTyped, Joint
<1>2. s1 \in Seq(Call3) /\ 9 + m \in Nat /\ Len(s1) = 9 + m
  BY <1>1 DEF Follow
<1> HIDE DEF s1
<1>3. Follow(s2, s1, 9 + m, Serving, 3)
  BY <1>2, PartsTyped, Joint
<1>4. s2 \in Seq(Call3) /\ 12 + m \in Nat /\ Len(s2) = 12 + m
  BY <1>3 DEF Follow
<1> HIDE DEF s2
<1>5. Follow(s3, s2, 12 + m, Stops, 6)
  BY <1>4, PartsTyped, Joint
<1>6. s3 \in Seq(Call3) /\ 18 + m \in Nat /\ Len(s3) = 18 + m
  BY <1>5 DEF Follow
<1> HIDE DEF s3
<1>7. Follow(s4, s3, 18 + m, Ending, 1)
  BY <1>6, PartsTyped, Joint
<1>8. Calls(c) = s4
  BY CallsParts DEF s1, s2, s3
<1> HIDE DEF s4, s0
<1>9. \A i \in 1 .. 18 + m : s4[i] = s3[i]
  BY <1>7 DEF Follow
<1>10. \A i \in 1 .. 12 + m : s4[i] = s2[i]
  <2>1. \A i \in 1 .. 12 + m : i \in 1 .. 18 + m
    OBVIOUS
  <2> QED BY <1>5, <1>9, <2>1 DEF Follow
<1>11. \A i \in 1 .. 9 + m : s4[i] = s1[i]
  <2>1. \A i \in 1 .. 9 + m : i \in 1 .. 12 + m
    OBVIOUS
  <2> QED BY <1>3, <1>10, <2>1 DEF Follow
<1>12. \A i \in 1 .. 9 : s4[i] = s0[i]
  <2>1. \A i \in 1 .. 9 : i \in 1 .. 9 + m
    OBVIOUS
  <2> QED BY <1>1, <1>11, <2>1 DEF Follow
<1>13. \A i \in 1 .. m : s4[9 + i] = Converter(c)[i]
  <2>1. \A i \in 1 .. m : 9 + i \in 1 .. 9 + m
    OBVIOUS
  <2>2. \A i \in 1 .. m : s4[9 + i] = s1[9 + i]
    BY <1>11, <2>1
  <2>3. \A i \in 1 .. m : s1[9 + i] = Converter(c)[i]
    BY <1>1 DEF Follow
  <2> QED BY <2>2, <2>3
<1>14. \A i \in 1 .. 3 : s4[9 + m + i] = Serving[i]
  <2>1. \A i \in 1 .. 3 : 9 + m + i \in 1 .. 12 + m
    OBVIOUS
  <2>2. \A i \in 1 .. 3 : s4[9 + m + i] = s2[9 + m + i]
    BY <1>10, <2>1
  <2>3. \A i \in 1 .. 3 : s2[9 + m + i] = Serving[i]
    BY <1>3 DEF Follow
  <2> QED BY <2>2, <2>3
<1>15. \A i \in 1 .. 6 : s4[12 + m + i] = Stops[i]
  <2>1. \A i \in 1 .. 6 : 12 + m + i \in 1 .. 18 + m
    OBVIOUS
  <2>2. \A i \in 1 .. 6 : s4[12 + m + i] = s3[12 + m + i]
    BY <1>9, <2>1
  <2>3. \A i \in 1 .. 6 : s3[12 + m + i] = Stops[i]
    BY <1>5 DEF Follow
  <2> QED BY <2>2, <2>3
<1>16. s4 \in Seq(Call3) /\ s4[19 + m] = Ending[1] /\ Len(s4) = 19 + m
  <2>1. 18 + m + 1 = 19 + m /\ 1 \in 1 .. 1
    OBVIOUS
  <2> QED BY <1>7, <2>1 DEF Follow
<1> QED BY <1>8, <1>12, <1>13, <1>14, <1>15, <1>16 DEF s0

\* Where an object is constructed and where it is stopped; m calls concern the converter.
InitAt(m, o) ==
  CASE o = "audio_source" -> 1 [] o = "audio_encoder" -> 2 [] o = "video_source" -> 6
    [] o = "video_encoder" -> 8 [] o = "video_converter" -> 10 [] o = "server" -> 10 + m

\* Where its threads are started; 20 + m is beyond the last call.
StartAt(m, o) ==
  CASE o = "audio_encoder" -> 4 [] o = "audio_source" -> 5 [] o = "video_source" -> 7
    [] o = "video_encoder" -> 9 [] o = "server" -> 11 + m
    [] o = "video_converter" -> IF m = 4 THEN 11 ELSE 20 + m

StopAt(m, o) ==
  CASE o = "server" -> 13 + m [] o = "video_encoder" -> 14 + m
    [] o = "video_converter" -> 15 + m [] o = "video_source" -> 16 + m
    [] o = "audio_encoder" -> 17 + m [] o = "audio_source" -> 18 + m

\* The sinks an object may ever have.
Targets(o) ==
  CASE o = "audio_source" -> {"audio_encoder"}
    [] o = "video_source" -> {"video_converter", "video_encoder"}
    [] o = "video_converter" -> {"video_encoder"}
    [] o \in Encoders -> {"session"}
    [] o = "session" -> {"video_encoder"}
    [] o = "server" -> {}

\* What the n-th call x of main can be.
Right(m, n, x) ==
  /\ x[1] \in {"init", "construct", "attach", "start", "wait", "stop", "return"}
  /\ x[1] \in {"init", "construct"} => x[2] \in Objects /\ n = InitAt(m, x[2])
  /\ x[1] = "start" => x[2] \in Objects /\ n = StartAt(m, x[2]) /\ n < StopAt(m, x[2])
  /\ x[1] = "attach" => x[3] \in Targets(x[2]) \ {"session"} /\ n > InitAt(m, x[3])
  /\ \A o \in Objects : n = StopAt(m, o) => x = Do("stop", o)
  /\ \A o \in Objects : n = InitAt(m, o) => x = Do("init", o) \/ x = Do("construct", o)
  /\ x[1] = "return" <=> n = 19 + m

\* The order of the calls of main.
LEMMA CallsRight ==
  ASSUME NEW c \in BOOLEAN, NEW n \in 1 .. 19 + Extra(c)
  PROVE  Right(Extra(c), n, Calls(c)[n])
<1> DEFINE x == Calls(c)[n]
<1> USE DEF Right, InitAt, StartAt, StopAt, Targets, Do, None, Objects, Owners, Grabbers, Encoders
<1>1. PICK m \in Nat : m = Extra(c) /\ m \in {2, 4}
  BY DEF Extra
<1>2. CASE n \in 1 .. 9
  <2>1. x = Before[n]
    BY <1>1, <1>2, Layout
  <2> HIDE DEF x
  <2>2. Right(m, n, x)
    BY <1>1, <1>2, <2>1 DEF Before
  <2> QED BY <1>1, <2>2 DEF x
<1>3. CASE \E i \in 1 .. m : n = 9 + i
  <2>1. PICK i \in 1 .. m : n = 9 + i
    BY <1>3
  <2>2. x = Converter(c)[i]
    BY <1>1, <2>1, Layout
  <2> HIDE DEF x
  <2>3. Right(m, n, x)
    <3>1. CASE c = TRUE
      <4>1. m = 4 /\ i \in 1 .. 4
        BY <1>1, <2>1, <3>1 DEF Extra
      <4> QED BY <2>1, <2>2, <3>1, <4>1 DEF Converter
    <3>2. CASE c = FALSE
      <4>1. m = 2 /\ i \in 1 .. 2
        BY <1>1, <2>1, <3>2 DEF Extra
      <4> QED BY <2>1, <2>2, <3>2, <4>1 DEF Converter
    <3> QED BY <3>1, <3>2
  <2> QED BY <1>1, <2>3 DEF x
<1>4. CASE \E i \in 1 .. 3 : n = 9 + m + i
  <2>1. PICK i \in 1 .. 3 : n = 9 + m + i
    BY <1>4
  <2>2. x = Serving[i]
    BY <1>1, <2>1, Layout
  <2> HIDE DEF x
  <2>3. Right(m, n, x)
    BY <1>1, <2>1, <2>2 DEF Serving
  <2> QED BY <1>1, <2>3 DEF x
<1>5. CASE \E i \in 1 .. 6 : n = 12 + m + i
  <2>1. PICK i \in 1 .. 6 : n = 12 + m + i
    BY <1>5
  <2>2. x = Stops[i]
    BY <1>1, <2>1, Layout
  <2> HIDE DEF x
  <2>3. Right(m, n, x)
    BY <1>1, <2>1, <2>2 DEF Stops
  <2> QED BY <1>1, <2>3 DEF x
<1>6. CASE n = 19 + m
  <2>1. x = Ending[1]
    BY <1>1, <1>6, Layout
  <2> HIDE DEF x
  <2>3. Right(m, n, x)
    BY <1>1, <1>6, <2>1 DEF Ending
  <2> QED BY <1>1, <2>3 DEF x
<1>7. \/ n \in 1 .. 9 \/ n = 19 + m
      \/ n - 9 \in 1 .. m /\ n = 9 + (n - 9)
      \/ n - (9 + m) \in 1 .. 3 /\ n = 9 + m + (n - (9 + m))
      \/ n - (12 + m) \in 1 .. 6 /\ n = 12 + m + (n - (12 + m))
  BY <1>1
<1> QED BY <1>2, <1>3, <1>4, <1>5, <1>6, <1>7
-----------------------------------------------------------------------------
(* The inductive invariant.                                                *)

\* The calls of the destructors.
Undo == {"stop", "dismantle", "free", "sessions"} \X Objects \X {None}

\* The destructor of the server is under way, and the sessions are still to be ended.
EndsSessions(q) ==
  \/ Len(q) >= 1 /\ q[1] = Do("sessions", "server")
  \/ Len(q) >= 2 /\ q[1] = Do("stop", "server") /\ q[2] = Do("sessions", "server")

\* The threads of o have not begun.
Resting(o) == \A t \in ThreadsOf(o) : thread[t] = "none"

\* The thread is under way.
Busy(t) == thread[t] \notin {"none", "done"}

\* The objects whose init may throw when threads already run.
Late == {"video_source", "video_encoder", "server"}

\* Where a thread can be.
Places == {"none", "loop", "lock", "handle", "send", "asleep", "done"}

\* The types of what the invariant is about.
Typed ==
  /\ constructed \in Seq(Objects)
  /\ state \in [Owners -> {"unborn", "alive", "destroyed"}]
  /\ stop_condition \in [Owners -> BOOLEAN]
  /\ thread \in [Threads -> Places]
  /\ sinks \in [Owners -> SUBSET Owners]
  /\ inside \in [Threads -> Owners \cup {None}]
  /\ open \in Nat

\* A thread is inside of a sink of its object, and only while it is in forward.
Attached ==
  /\ \A o \in Owners : sinks[o] \subseteq Targets(o)
  /\ \A t \in Threads :
       inside[t] # None => inside[t] \in sinks[Of(t)] /\ thread[t] \in {"handle", "send"}

\* Sessions are attached, and a thread of theirs runs, only while there are some.
SessionThere ==
  /\ \A o \in Owners : "session" \in sinks[o] => state["session"] = "alive"
  /\ Busy("session") => state["session"] = "alive"
  /\ open > 0 <=> state["session"] = "alive"

\* main has come to the n-th of its calls.
InCalls(c, n) ==
  /\ todo = SubSeq(Calls(c), n, Len(Calls(c)))
  /\ thrown = None
  /\ \A o \in Objects :
       /\ n > InitAt(Extra(c), o) => state[o] = "alive"
       /\ n > StopAt(Extra(c), o) => Quiet(o)
       /\ n <= StartAt(Extra(c), o) => Resting(o)
  /\ n <= StartAt(Extra(c), "server") => state["session"] # "alive"
  /\ n > InitAt(Extra(c), "server")
       => constructed # <<>> /\ Last(constructed) = "server"
  /\ \A o \in Owners : \A d \in sinks[o] : d # "session" => state[d] = "alive"

\* main destroys what it has constructed. If nothing was thrown out of the init of a
\* late object, all threads of main's objects have ended, and what a session may
\* still use is there until the sessions are ended.
InUnwinding ==
  /\ todo \in Seq(Undo)
  /\ thrown \notin Late =>
       /\ \A o \in Objects : Quiet(o)
       /\ state["session"] = "alive" => state["video_encoder"] = "alive" /\ EndsSessions(todo)

\* Where main is.
Phase ==
  \/ InUnwinding
  \/ \E c \in BOOLEAN : \E n \in 1 .. Len(Calls(c)) : InCalls(c, n)

Common == Typed /\ Attached /\ SessionThere

IInv == Common /\ Phase /\ MisuseOnlyUnwinding

-----------------------------------------------------------------------------
(* main makes its calls.                                                   *)

\* The places in numbers.
LEMMA PlacesOfCalls ==
  ASSUME NEW c \in BOOLEAN
  PROVE  /\ Extra(c) \in {2, 4}
         /\ \A o \in Objects : /\ InitAt(Extra(c), o) \in 1 .. 10 + Extra(c)
                               /\ StopAt(Extra(c), o) \in 13 + Extra(c) .. 18 + Extra(c)
                               /\ StartAt(Extra(c), o) \in 4 .. 20 + Extra(c)
         /\ InitAt(Extra(c), "server") = 10 + Extra(c)
         /\ StartAt(Extra(c), "server") = 11 + Extra(c)
         /\ InitAt(Extra(c), "video_encoder") = 8
         /\ \A o \in Objects \ Late :
              o # "video_converter" => InitAt(Extra(c), o) <= 2
<1>1. PICK m \in {2, 4} : m = Extra(c)
  BY DEF Extra
<1>2. ASSUME NEW o \in Objects
      PROVE  /\ InitAt(m, o) \in 1 .. 10 + m
             /\ StopAt(m, o) \in 13 + m .. 18 + m
             /\ StartAt(m, o) \in 4 .. 20 + m
             /\ o \notin Late /\ o # "video_converter" => InitAt(m, o) <= 2
  BY DEF InitAt, StartAt, StopAt, Objects, Owners, Grabbers, Encoders, Late
<1>3. /\ InitAt(m, "server") = 10 + m /\ InitAt(m, "video_encoder") = 8
      /\ StartAt(m, "server") = 11 + m
  BY DEF InitAt, StartAt
<1> QED BY <1>1, <1>2, <1>3

\* The next call, and what is left after it.
LEMMA NextCall ==
  ASSUME NEW c \in BOOLEAN, NEW n \in 1 .. Len(Calls(c)),
         todo = SubSeq(Calls(c), n, Len(Calls(c)))
  PROVE  /\ Len(Calls(c)) = 19 + Extra(c) /\ n \in Nat
         /\ todo # <<>>
         /\ Right(Extra(c), n, Head(todo))
         /\ n < Len(Calls(c)) => Tail(todo) = SubSeq(Calls(c), n + 1, Len(Calls(c)))
<1> DEFINE s == Calls(c)
           t == SubSeq(s, n, Len(s))
<1>0. PICK m \in Nat : m = Extra(c)
  BY PlacesOfCalls
<1>1. s \in Seq(Call3) /\ Len(s) = 19 + Extra(c) /\ Extra(c) \in Nat
  BY <1>0, Layout
<1>2. Right(Extra(c), n, s[n])
  BY <1>1, CallsRight
<1> HIDE DEF s
<1>3. /\ t \in Seq(Call3) /\ Len(t) = Len(s) - n + 1
      /\ \A i \in 1 .. Len(s) - n + 1 : t[i] = s[n + i - 1]
  BY <1>1, SubSeqProperties DEF s
<1> HIDE DEF t
<1>4. t # <<>> /\ Head(t) = s[n]
  BY <1>1, <1>3 DEF s
<1>5. ASSUME n < Len(s) PROVE Tail(t) = SubSeq(s, n + 1, Len(s))
  <2> DEFINE u == SubSeq(s, n + 1, Len(s))
             v == Tail(t)
  <2>1. /\ u \in Seq(Call3) /\ Len(u) = Len(s) - n
        /\ \A i \in 1 .. Len(s) - n : u[i] = s[n + i]
    <3>0. s \in Seq(Call3) /\ Len(s) \in Nat /\ n \in 1 .. Len(s)
      BY <1>1 DEF s
    <3>1. n + 1 \in 1 .. Len(s) + 1 /\ Len(s) \in Nat
      BY <1>5, <3>0
    <3>2. /\ u \in Seq(Call3)
          /\ Len(u) = IF n + 1 <= Len(s) THEN Len(s) - (n + 1) + 1 ELSE 0
          /\ \A i \in 1 .. Len(s) - (n + 1) + 1 : u[i] = s[n + 1 + i - 1]
      BY <3>0, <3>1, SubSeqProperties
    <3> HIDE DEF u
    <3>3. Len(u) = Len(s) - n /\ Len(s) - (n + 1) + 1 = Len(s) - n
      BY <1>5, <3>0, <3>2
    <3>4. ASSUME NEW i \in 1 .. Len(s) - n PROVE u[i] = s[n + i]
      <4>1. n + 1 + i - 1 = n + i
        BY <3>0
      <4> QED BY <3>2, <3>3, <3>4, <4>1
    <3> QED BY <3>2, <3>3, <3>4
  <2>2. v \in Seq(Call3) /\ Len(v) = Len(s) - n
    BY <1>1, <1>3, <1>4 DEF s
  <2>3. \A i \in 1 .. Len(s) - n : v[i] = t[i + 1]
    BY <1>1, <1>3, <1>4 DEF s
  <2>4. \A i \in 1 .. Len(s) - n : t[i + 1] = s[n + i]
    BY <1>1, <1>3 DEF s
  <2> HIDE DEF u, v
  <2>5. u = v
    BY <2>1, <2>2, <2>3, <2>4, SeqEqual
  <2> QED BY <2>5 DEF u, v
<1> QED BY <1>1, <1>2, <1>4, <1>5 DEF s, t

\* An object is initialized, or only constructed.
LEMMA InitObjectStep ==
  ASSUME Common, NEW c \in BOOLEAN, NEW n \in 1 .. Len(Calls(c)), InCalls(c, n),
         NEW o \in Owners, InitObject(o)
  PROVE  Common' /\ n + 1 \in 1 .. Len(Calls(c)) /\ InCalls(c, n + 1)'
<1> DEFINE m == Extra(c)
           x == Head(todo)
<1>0. Typed /\ Attached /\ SessionThere
  BY DEF Common
<1>1. todo = SubSeq(Calls(c), n, Len(Calls(c))) /\ thrown = None
  BY DEF InCalls
<1>2. Right(m, n, x) /\ Len(Calls(c)) = 19 + m /\ n \in Nat
  BY <1>1, NextCall
<1>3. x = Do("init", o) \/ x = Do("construct", o)
  BY DEF InitObject, At
<1>4. /\ todo' = Tail(todo) /\ Construct(o)
      /\ UNCHANGED <<stop_condition, thread, sinks, inside, open, thrown>>
  BY DEF InitObject, Go, MainUnchanged
<1>5. o \in Objects /\ n = InitAt(m, o)
  BY <1>2, <1>3 DEF Right, Do
<1>6. m \in {2, 4} /\ n \in 1 .. 10 + m /\ n < Len(Calls(c))
  BY <1>2, <1>5, PlacesOfCalls
<1>7. todo' = SubSeq(Calls(c), n + 1, Len(Calls(c))) /\ n + 1 \in 1 .. Len(Calls(c))
  BY <1>1, <1>2, <1>4, <1>6, NextCall
<1>8. /\ state \in [Owners -> {"unborn", "alive", "destroyed"}]
      /\ state' = [state EXCEPT ![o] = "alive"]
      /\ constructed \in Seq(Objects) /\ constructed' = Append(constructed, o)
  BY <1>0, <1>4 DEF Typed, Construct
<1>9. Typed' /\ Attached' /\ SessionThere'
  <2>1. Typed'
    BY <1>0, <1>4, <1>5, <1>8 DEF Typed, Objects
  <2>2. state'["session"] = state["session"]
    BY <1>5, <1>8 DEF Objects
  <2> QED BY <1>0, <1>4, <2>1, <2>2 DEF Attached, SessionThere, Busy
<1>10. ASSUME NEW p \in Objects
       PROVE  /\ n + 1 > InitAt(m, p) => state'[p] = "alive"
              /\ n + 1 > StopAt(m, p) => Quiet(p)
              /\ n + 1 <= StartAt(m, p) => Resting(p)
  <2>1. /\ n > InitAt(m, p) => state[p] = "alive"
        /\ n > StopAt(m, p) => Quiet(p)
        /\ n <= StartAt(m, p) => Resting(p)
    BY DEF InCalls
  <2>2. InitAt(m, p) \in Nat /\ StopAt(m, p) \in 13 + m .. 18 + m /\ StartAt(m, p) \in Nat
    BY <1>6, PlacesOfCalls
  <2>3. n = InitAt(m, p) => p = o
    BY <1>2, <1>3 DEF Right, Do
  <2>4. state'[p] = IF p = o THEN "alive" ELSE state[p]
    BY <1>5, <1>8 DEF Objects
  <2>5. n + 1 > InitAt(m, p) => n > InitAt(m, p) \/ n = InitAt(m, p)
    BY <1>6, <2>2
  <2>6. ~(n + 1 > StopAt(m, p))
    BY <1>6, <2>2
  <2>7. n + 1 <= StartAt(m, p) => n <= StartAt(m, p)
    BY <1>6, <2>2
  <2> QED BY <2>1, <2>3, <2>4, <2>5, <2>6, <2>7, Zenon
<1>11. n + 1 <= StartAt(m, "server") => state'["session"] # "alive"
  <2>1. n + 1 <= StartAt(m, "server") => n <= StartAt(m, "server")
    BY <1>6, PlacesOfCalls
  <2>2. state'["session"] = state["session"]
    BY <1>5, <1>8 DEF Objects
  <2> QED BY <2>1, <2>2 DEF InCalls
<1>12. n + 1 > InitAt(m, "server") => constructed' # <<>> /\ Last(constructed') = "server"
  <2> HAVE n + 1 > InitAt(m, "server")
  <2>1. n = InitAt(m, "server") /\ "server" \in Objects
    BY <1>6, PlacesOfCalls DEF Objects, Owners
  <2>2. o = "server"
    BY <1>2, <1>3, <2>1 DEF Right, Do
  <2> QED BY <1>8, <2>2 DEF Last
<1>13. ASSUME NEW p \in Owners, NEW d \in sinks'[p], d # "session" PROVE state'[d] = "alive"
  <2>1. d \in Owners /\ state[d] = "alive"
    BY <1>0, <1>4, <1>13 DEF InCalls, Typed
  <2> QED BY <1>8, <2>1
<1>14. \A p \in Objects : (Quiet(p)' <=> Quiet(p)) /\ (Resting(p)' <=> Resting(p))
  BY <1>4 DEF Quiet, Resting
<1> QED BY <1>1, <1>4, <1>7, <1>9, <1>10, <1>11, <1>12, <1>13, <1>14 DEF InCalls, Common

\* Any other call: one that starts an object starts no other, one that stops it leaves
\* it quiet, and only one that attaches adds a sink.
LEMMA CallMade ==
  ASSUME Typed, NEW c \in BOOLEAN, NEW n \in 1 .. Len(Calls(c)), InCalls(c, n),
         todo' = Tail(todo), UNCHANGED <<thrown, state, constructed>>,
         Head(todo)[1] \notin {"init", "construct", "return"},
         \A o \in Objects :
           Head(todo) # Do("start", o)
             => (Quiet(o) => Quiet(o)') /\ (Resting(o) => Resting(o)'),
         \A o \in Objects : Head(todo) = Do("stop", o) => Quiet(o)',
         \A o \in Owners : \A d \in sinks'[o] : d \in sinks[o] \/ Head(todo) = <<"attach", o, d>>
  PROVE  n + 1 \in 1 .. Len(Calls(c)) /\ InCalls(c, n + 1)'
<1> DEFINE m == Extra(c)
           x == Head(todo)
<1>1. todo = SubSeq(Calls(c), n, Len(Calls(c))) /\ thrown = None
  BY DEF InCalls
<1>2. Right(m, n, x) /\ Len(Calls(c)) = 19 + m /\ n \in Nat
  BY <1>1, NextCall
<1>3. m \in {2, 4} /\ n \in 1 .. 19 + m /\ n # 19 + m /\ n < Len(Calls(c))
  BY <1>2, PlacesOfCalls DEF Right
<1>4. todo' = SubSeq(Calls(c), n + 1, Len(Calls(c))) /\ n + 1 \in 1 .. Len(Calls(c))
  <2>1. Tail(todo) = SubSeq(Calls(c), n + 1, Len(Calls(c)))
    BY <1>1, <1>3, NextCall
  <2>2. n + 1 \in 1 .. Len(Calls(c))
    BY <1>2, <1>3
  <2> QED BY <2>1, <2>2
<1>5. ASSUME NEW p \in Objects
       PROVE  /\ n + 1 > InitAt(m, p) => state'[p] = "alive"
              /\ n + 1 > StopAt(m, p) => Quiet(p)'
              /\ n + 1 <= StartAt(m, p) => Resting(p)'
  <2>1. /\ n > InitAt(m, p) => state[p] = "alive"
        /\ n > StopAt(m, p) => Quiet(p)
        /\ n <= StartAt(m, p) => Resting(p)
    BY DEF InCalls
  <2>2. InitAt(m, p) \in Nat /\ StopAt(m, p) \in 13 + m .. 18 + m /\ StartAt(m, p) \in Nat
    BY <1>3, PlacesOfCalls
  <2>3. n # InitAt(m, p)
    BY <1>2 DEF Right, Do
  <2>4. n + 1 > InitAt(m, p) => n > InitAt(m, p)
    BY <1>3, <2>2, <2>3
  <2>5. n + 1 > StopAt(m, p) => n > StopAt(m, p) \/ n = StopAt(m, p)
    BY <1>3, <2>2
  <2>6. n = StopAt(m, p) => x = Do("stop", p)
    BY <1>2 DEF Right
  <2>7. x = Do("start", p)
          => ~(n + 1 <= StartAt(m, p)) /\ ~(n > StopAt(m, p)) /\ ~(n = StopAt(m, p))
    BY <1>2, <1>3, <2>2 DEF Right, Do
  <2>8. n + 1 <= StartAt(m, p) => n <= StartAt(m, p)
    BY <1>3, <2>2
  <2>9. CASE x = Do("start", p)
    BY <2>1, <2>4, <2>5, <2>7, <2>8, <2>9, Zenon
  <2>10. CASE x # Do("start", p)
    BY <2>1, <2>4, <2>5, <2>6, <2>8, <2>10, Zenon
  <2> QED BY <2>9, <2>10
<1>6. n + 1 <= StartAt(m, "server") => state'["session"] # "alive"
  <2> HAVE n + 1 <= StartAt(m, "server")
  <2>1. n <= StartAt(m, "server")
    BY <1>3, PlacesOfCalls
  <2> QED BY <2>1 DEF InCalls
<1>7. n + 1 > InitAt(m, "server") => constructed' # <<>> /\ Last(constructed') = "server"
  <2> HAVE n + 1 > InitAt(m, "server")
  <2>1. "server" \in Objects
    BY DEF Objects, Owners
  <2>2. n # InitAt(m, "server")
    BY <1>2, <2>1 DEF Right, Do
  <2>3. n > InitAt(m, "server")
    BY <1>3, <2>2, PlacesOfCalls
  <2> QED BY <2>3 DEF InCalls
<1>8. ASSUME NEW p \in Owners, NEW d \in sinks'[p], d # "session" PROVE state'[d] = "alive"
  <2>1. CASE d \in sinks[p]
    BY <1>8, <2>1 DEF InCalls
  <2>2. CASE x = <<"attach", p, d>>
    <3>1. d \in Targets(p) /\ n > InitAt(m, d)
      BY <1>2, <2>2 DEF Right
    <3>2. d \in Objects
      BY <1>8, <3>1 DEF Targets, Objects, Owners, Grabbers, Encoders
    <3> QED BY <3>1, <3>2 DEF InCalls
  <2> QED BY <2>1, <2>2
<1> QED BY <1>1, <1>4, <1>5, <1>6, <1>7, <1>8 DEF InCalls

\* What the threads do while main is at a call.
LEMMA CallsKept ==
  ASSUME NEW c \in BOOLEAN, NEW n \in 1 .. Len(Calls(c)), InCalls(c, n),
         UNCHANGED <<todo, constructed, thrown>>,
         \A o \in Objects : /\ state'[o] = state[o]
                            /\ Quiet(o) => Quiet(o)'
                            /\ Resting(o) => Resting(o)',
         state["session"] # "alive" /\ Resting("server") => state'["session"] # "alive",
         \A o \in Owners : \A d \in sinks'[o] \ {"session"} : d \in sinks[o] \/ state'[d] = "alive",
         \A o \in Owners : sinks[o] \ {"session"} \subseteq Objects
  PROVE  InCalls(c, n)'
<1>1. "server" \in Objects
  BY DEF Objects, Owners
<1>2. \A o \in Owners : \A d \in sinks'[o] : d # "session" => state'[d] = "alive"
  <2> SUFFICES ASSUME NEW o \in Owners, NEW d \in sinks'[o], d # "session", d \in sinks[o]
               PROVE  state'[d] = "alive"
    OBVIOUS
  <2>1. d \in Objects /\ state[d] = "alive"
    BY DEF InCalls
  <2> QED BY <2>1
<1>3. \A o \in Objects :
        /\ n > InitAt(Extra(c), o) => state'[o] = "alive"
        /\ n > StopAt(Extra(c), o) => Quiet(o)'
        /\ n <= StartAt(Extra(c), o) => Resting(o)'
  BY DEF InCalls
<1>4. n <= StartAt(Extra(c), "server") => state'["session"] # "alive"
  BY <1>1 DEF InCalls
<1>5. n > InitAt(Extra(c), "server")
        => constructed' # <<>> /\ Last(constructed') = "server"
  BY DEF InCalls
<1> QED BY <1>2, <1>3, <1>4, <1>5 DEF InCalls

\* The other calls of main before the end of the block.
LEMMA CallsStep ==
  ASSUME Common, NEW c \in BOOLEAN, NEW n \in 1 .. Len(Calls(c)), InCalls(c, n),
         NEW o \in Owners,
         Start(o) \/ Stop(o) \/ (\E d \in Owners : Attach(o, d)) \/ Interrupt
  PROVE  Common' /\ \E k \in {n, n + 1} : k \in 1 .. Len(Calls(c)) /\ InCalls(c, k)'
<1> DEFINE x == Head(todo)
<1>1. Typed /\ Attached /\ SessionThere
  BY DEF Common
<1>2. Right(Extra(c), n, x)
  BY NextCall DEF InCalls
<1>3. ASSUME n + 1 \in 1 .. Len(Calls(c)) /\ InCalls(c, n + 1)', Common'
      PROVE  Common' /\ \E k \in {n, n + 1} : k \in 1 .. Len(Calls(c)) /\ InCalls(c, k)'
  BY <1>3
<1>4. CASE Start(o)
  <2>1. /\ x = Do("start", o) /\ todo' = Tail(todo)
        /\ thread' = [t \in Threads |-> IF Of(t) = o THEN "loop" ELSE thread[t]]
        /\ stop_condition' = [stop_condition EXCEPT ![o] = FALSE]
        /\ UNCHANGED <<constructed, state, sinks, inside, open, thrown>>
    BY <1>4 DEF Start, At, Go, MainUnchanged
  <2>2. o \in Objects /\ n = StartAt(Extra(c), o)
    BY <1>2, <2>1 DEF Right, Do
  <2>3. \A t \in Threads : thread'[t] = IF Of(t) = o THEN "loop" ELSE thread[t]
    BY <2>1
  <2>4. Common'
    <3>1. Typed'
      BY <1>1, <2>1 DEF Typed, Places
    <3>2. Resting(o)
      <4>1. StartAt(Extra(c), o) \in 4 .. 20 + Extra(c) /\ Extra(c) \in {2, 4}
        BY <2>2, PlacesOfCalls
      <4> QED BY <2>2, <4>1 DEF InCalls
    <3>3. ASSUME NEW t \in Threads, inside[t] # None
          PROVE  inside[t] \in sinks[Of(t)] /\ thread'[t] \in {"handle", "send"}
      <4>1. inside[t] \in sinks[Of(t)] /\ thread[t] \in {"handle", "send"}
        BY <1>1, <3>3 DEF Attached
      <4>2. Of(t) # o
        BY <3>2, <4>1 DEF Resting, ThreadsOf
      <4> QED BY <2>3, <4>1, <4>2
    <3>4. Attached'
      BY <1>1, <2>1, <3>3 DEF Attached
    <3>5. "session" \in Threads /\ Of("session") # o
      BY <2>2 DEF Threads, Of, Objects, Owners
    <3>6. SessionThere'
      BY <1>1, <2>1, <2>3, <3>5 DEF SessionThere, Busy
    <3> QED BY <3>1, <3>4, <3>6 DEF Common
  <2>5. \A p \in Objects : x # Do("start", p)
          => (Quiet(p) => Quiet(p)') /\ (Resting(p) => Resting(p)')
    <3>1. \A p \in Objects : x # Do("start", p) => p # o
      BY <2>1
    <3>2. \A p \in Objects : p # o => \A t \in ThreadsOf(p) : thread'[t] = thread[t]
      BY <2>3 DEF ThreadsOf
    <3> QED BY <3>1, <3>2 DEF Quiet, Resting
  <2>6. x[1] = "start" /\ \A p \in Objects : x # Do("stop", p)
    BY <2>1 DEF Do
  <2>7. n + 1 \in 1 .. Len(Calls(c)) /\ InCalls(c, n + 1)'
    BY <1>1, <2>1, <2>5, <2>6, CallMade
  <2> QED BY <1>3, <2>4, <2>7
<1>5. CASE Stop(o)
  <2>1. /\ x = Do("stop", o)
        /\ UNCHANGED <<constructed, state, thread, sinks, inside, open, thrown>>
    BY <1>5 DEF Stop, At, MainUnchanged
  <2>2. stop_condition' \in [Owners -> BOOLEAN]
    BY <1>1, <1>5 DEF Stop, Typed
  <2>3. Common'
    BY <1>1, <2>1, <2>2 DEF Common, Typed, Attached, SessionThere, Busy
  <2>4. CASE UNCHANGED todo
    <3>1. InCalls(c, n)'
      BY <2>1, <2>4 DEF InCalls, Quiet, Resting
    <3> QED BY <2>3, <3>1
  <2>5. CASE todo' = Tail(todo) /\ Quiet(o)
    <3>1. x[1] = "stop" /\ \A p \in Objects : x = Do("stop", p) => Quiet(p)'
      BY <2>1, <2>5 DEF Do, Quiet
    <3>2. \A p \in Objects : (Quiet(p) => Quiet(p)') /\ (Resting(p) => Resting(p)')
      BY <2>1 DEF Quiet, Resting
    <3>3. n + 1 \in 1 .. Len(Calls(c)) /\ InCalls(c, n + 1)'
      BY <1>1, <2>1, <2>5, <3>1, <3>2, CallMade
    <3> QED BY <1>3, <2>3, <3>3
  <2> QED BY <1>5, <2>4, <2>5 DEF Stop, Go
<1>6. ASSUME NEW d \in Owners, Attach(o, d)
      PROVE  Common' /\ n + 1 \in 1 .. Len(Calls(c)) /\ InCalls(c, n + 1)'
  <2>1. /\ x = <<"attach", o, d>> /\ todo' = Tail(todo)
        /\ sinks' = [sinks EXCEPT ![o] = @ \cup {d}]
        /\ UNCHANGED <<constructed, state, thread, stop_condition, inside, open, thrown>>
    BY <1>6 DEF Attach, At, Go, MainUnchanged
  <2>2. d \in Targets(o) \ {"session"}
    BY <1>2, <2>1 DEF Right
  <2>3. \A p \in Owners : sinks'[p] = IF p = o THEN sinks[p] \cup {d} ELSE sinks[p]
    BY <1>1, <2>1 DEF Typed
  <2>4. Typed'
    BY <1>1, <2>1 DEF Typed
  <2>5. Attached'
    <3>1. \A p \in Owners : sinks'[p] \subseteq Targets(p) /\ sinks[p] \subseteq sinks'[p]
      BY <1>1, <2>2, <2>3 DEF Attached
    <3>2. \A t \in Threads : Of(t) \in Owners
      BY DEF Threads, Of, Owners
    <3> QED BY <1>1, <2>1, <3>1, <3>2 DEF Attached
  <2>6. SessionThere'
    BY <1>1, <2>1, <2>2, <2>3 DEF SessionThere, Busy
  <2>7. /\ x[1] = "attach" /\ \A p \in Objects : x # Do("stop", p)
        /\ \A p \in Owners : \A e \in sinks'[p] : e \in sinks[p] \/ x = <<"attach", p, e>>
    BY <2>1, <2>3 DEF Do
  <2>8. \A p \in Objects : (Quiet(p) => Quiet(p)') /\ (Resting(p) => Resting(p)')
    BY <2>1 DEF Quiet, Resting
  <2>9. n + 1 \in 1 .. Len(Calls(c)) /\ InCalls(c, n + 1)'
    BY <1>1, <2>1, <2>7, <2>8, CallMade
  <2> QED BY <2>4, <2>5, <2>6, <2>9 DEF Common
<1>7. CASE Interrupt
  <2>1. /\ x = Do("wait", None) /\ todo' = Tail(todo)
        /\ UNCHANGED <<constructed, state, thread, stop_condition, sinks, inside, open, thrown>>
    BY <1>7 DEF Interrupt, At, Go, MainUnchanged
  <2>2. Common'
    BY <1>1, <2>1 DEF Common, Typed, Attached, SessionThere, Busy
  <2>3. x[1] = "wait" /\ \A p \in Objects : x # Do("stop", p)
    BY <2>1 DEF Do
  <2>4. \A p \in Objects : (Quiet(p) => Quiet(p)') /\ (Resting(p) => Resting(p)')
    BY <2>1 DEF Quiet, Resting
  <2>5. n + 1 \in 1 .. Len(Calls(c)) /\ InCalls(c, n + 1)'
    BY <1>1, <2>1, <2>3, <2>4, CallMade
  <2> QED BY <1>3, <2>2, <2>5
<1> QED BY <1>3, <1>4, <1>5, <1>6, <1>7

-----------------------------------------------------------------------------
(* The threads and the sessions.                                           *)

\* No thread of main's objects comes back to life, and none begins.
Calmer == \A o \in Objects : (Quiet(o) => Quiet(o)') /\ (Resting(o) => Resting(o)')

\* Threads are those of objects, and a session has one of its own.
LEMMA ThreadsKnown ==
  /\ \A t \in Threads : Of(t) \in Owners /\ t \in ThreadsOf(Of(t))
  /\ \A o \in Owners : o \in Threads /\ o \in ThreadsOf(o)
  /\ \A o \in Objects : "session" \notin ThreadsOf(o)
  /\ \A t \in Threads : Of(t) = "session" => t = "session"
  /\ "session" \in Owners /\ "server" \in Objects /\ Objects \subseteq Owners
<1>1. /\ "session" \in Owners /\ "server" \in Objects /\ Objects \subseteq Owners
      /\ "video_converter" \in Owners /\ "second_converter" \notin Owners
      /\ "session" \notin Objects
  BY DEF Owners, Objects, Grabbers, Encoders
<1>2. \A t \in Threads : t = "second_converter" \/ (t \in Owners /\ t # "second_converter")
  BY <1>1 DEF Threads
<1>3. \A t \in Threads : Of(t) \in Owners /\ t \in ThreadsOf(Of(t))
  BY <1>1, <1>2 DEF ThreadsOf, Of
<1>4. \A o \in Owners : o \in Threads /\ o \in ThreadsOf(o)
  BY <1>1 DEF Threads, ThreadsOf, Of
<1>5. \A o \in Objects : "session" \notin ThreadsOf(o)
  BY <1>1 DEF ThreadsOf, Of
<1>6. \A t \in Threads : Of(t) = "session" => t = "session"
  BY <1>2 DEF Of
<1> QED BY <1>1, <1>3, <1>4, <1>5, <1>6

\* One thread moves, and may wake others that sleep.
LEMMA ThreadMoves ==
  ASSUME Common, NEW t \in Threads, Busy(t),
         UNCHANGED <<constructed, state, stop_condition, sinks, open>>,
         thread' \in [Threads -> Places], inside' \in [Threads -> Owners \cup {None}],
         \A p \in Threads \ {t} :
           /\ inside'[p] = inside[p]
           /\ thread'[p] = thread[p] \/ (thread[p] = "asleep" /\ thread'[p] = "loop"),
         inside'[t] # None => inside'[t] \in sinks[Of(t)] /\ thread'[t] \in {"handle", "send"}
  PROVE  Common' /\ Calmer
<1>1. Typed /\ Attached /\ SessionThere
  BY DEF Common
<1>2. Typed'
  BY <1>1 DEF Typed
<1>3. Attached'
  <2>1. ASSUME NEW p \in Threads, inside'[p] # None
        PROVE  inside'[p] \in sinks[Of(p)] /\ thread'[p] \in {"handle", "send"}
    <3>1. CASE p = t
      BY <2>1, <3>1
    <3>2. CASE p # t
      BY <1>1, <2>1, <3>2 DEF Attached
    <3> QED BY <3>1, <3>2
  <2> QED BY <1>1, <2>1 DEF Attached
<1>4. \A p \in Threads : ~Busy(p) => p # t /\ thread'[p] = thread[p]
  BY DEF Busy
<1>5. SessionThere'
  <2>1. Busy("session")' => Busy("session")
    BY <1>4, ThreadsKnown DEF Busy
  <2> QED BY <1>1, <2>1 DEF SessionThere
<1>6. Calmer
  BY <1>4 DEF Calmer, Quiet, Resting, Busy, ThreadsOf
<1> QED BY <1>2, <1>3, <1>5, <1>6 DEF Common

\* The process is over.
LEMMA OverCommon ==
  ASSUME Common, NEW how, Over(how), UNCHANGED <<constructed, state, stop_condition, sinks, open>>
  PROVE  Common' /\ Calmer
<1>1. Typed /\ Attached /\ SessionThere
  BY DEF Common
<1>2. /\ thread' = [t \in Threads |-> "none"] /\ inside' = [t \in Threads |-> None]
      /\ \A t \in Threads : thread'[t] = "none" /\ inside'[t] = None
  BY DEF Over
<1>3. Typed'
  BY <1>1, <1>2 DEF Typed, Places
<1>4. Attached' /\ SessionThere'
  BY <1>1, <1>2, ThreadsKnown DEF Attached, SessionThere, Busy
<1>5. Calmer
  BY <1>2 DEF Calmer, Quiet, Resting, ThreadsOf
<1> QED BY <1>3, <1>4, <1>5 DEF Common

\* A step of a thread.
LEMMA ThreadCommon ==
  ASSUME Common, NEW t \in Threads, ThreadStep(t) \/ Fail(t)
  PROVE  /\ Common' /\ Calmer
         /\ UNCHANGED <<todo, constructed, state, sinks, thrown>>
<1>1. Typed /\ Attached /\ SessionThere
  BY DEF Common
<1>2. UNCHANGED <<todo, constructed, state, stop_condition, sinks, open, thrown>>
  BY DEF ThreadStep, Leave, Fail, Wait, Call, Back, Throw, Sleep, ThreadUnchanged
<1>3. /\ thread \in [Threads -> Places] /\ inside \in [Threads -> Owners \cup {None}]
      /\ thread[t] = "loop" => inside[t] = None
  BY <1>1 DEF Typed, Attached
<1>4. CASE Leave(t) \/ Fail(t) \/ Wait(t) \/ Sleep(t)
  <2>1. /\ thread[t] = "loop" /\ UNCHANGED inside
        /\ \E x \in {"done", "lock", "asleep"} : thread' = [thread EXCEPT ![t] = x]
    BY <1>4 DEF Leave, Fail, Wait, Takes, Sleep, Runs
  <2>2. thread' \in [Threads -> Places] /\ \A p \in Threads \ {t} : thread'[p] = thread[p]
    BY <1>3, <2>1 DEF Places
  <2> QED BY <1>2, <1>3, <2>1, <2>2, ThreadMoves DEF Busy
<1>5. CASE Call(t)
  <2>1. /\ thread[t] \in {"loop", "lock"}
        /\ \/ thread' = [thread EXCEPT ![t] = "loop"] /\ UNCHANGED inside
           \/ \E d \in sinks[Of(t)] :
                \/ /\ inside' = [inside EXCEPT ![t] = d]
                   /\ \E x \in {"send", "handle"} : thread' = [thread EXCEPT ![t] = x]
                \/ Over(d)
    BY <1>5 DEF Call, Takes, Runs
  <2>2. inside[t] = None /\ Busy(t)
    BY <1>1, <2>1 DEF Attached, Busy
  <2>3. CASE thread' = [thread EXCEPT ![t] = "loop"] /\ UNCHANGED inside
    <3>1. thread' \in [Threads -> Places] /\ \A p \in Threads \ {t} : thread'[p] = thread[p]
      BY <1>3, <2>3 DEF Places
    <3> QED BY <1>2, <1>3, <2>2, <2>3, <3>1, ThreadMoves
  <2>4. ASSUME NEW d \in sinks[Of(t)], NEW x \in {"send", "handle"},
               inside' = [inside EXCEPT ![t] = d], thread' = [thread EXCEPT ![t] = x]
        PROVE  Common' /\ Calmer
    <3>1. d \in Owners
      BY <1>1, ThreadsKnown DEF Typed
    <3>2. /\ thread' \in [Threads -> Places] /\ inside' \in [Threads -> Owners \cup {None}]
          /\ thread'[t] = x /\ inside'[t] = d
          /\ \A p \in Threads \ {t} : thread'[p] = thread[p] /\ inside'[p] = inside[p]
      BY <1>3, <2>4, <3>1 DEF Places
    <3> QED BY <1>2, <2>2, <3>2, ThreadMoves
  <2>5. ASSUME NEW d \in sinks[Of(t)], Over(d) PROVE Common' /\ Calmer
    BY <1>2, <2>5, OverCommon
  <2> QED BY <1>2, <2>1, <2>3, <2>4, <2>5
<1>6. CASE Back(t) \/ Throw(t)
  <2> DEFINE d == inside[t]
  <2>1. /\ thread[t] \in {"handle", "send"} /\ d \in Owners
        /\ \/ Over(d)
           \/ /\ inside' = [inside EXCEPT ![t] = None]
              /\ \E x \in {"loop", "done"} :
                   \/ thread' = [thread EXCEPT ![t] = x]
                   \/ thread' = [Woken(d) EXCEPT ![t] = x]
    <3>1. CASE Back(t)
      <4>1. d # None
        BY <3>1 DEF Back
      <4>2. thread[t] \in {"handle", "send"} /\ d \in Owners
        BY <1>1, <4>1 DEF Attached, Typed
      <4>3. \/ Over(d)
            \/ /\ inside' = [inside EXCEPT ![t] = None]
               /\ \/ thread' = [thread EXCEPT ![t] = "loop"]
                  \/ thread' = [Woken(d) EXCEPT ![t] = "loop"]
        <5> HIDE DEF d
        <5>1. \/ Over(d)
              \/ /\ inside' = [inside EXCEPT ![t] = None]
                 /\ thread' = [(IF thread[t] = "send" THEN Woken(d) ELSE thread)
                               EXCEPT ![t] = "loop"]
          BY <3>1 DEF Back, d
        <5> QED BY <5>1
      <4> QED BY <4>2, <4>3
    <3>2. CASE Throw(t)
      <4>1. /\ thread[t] = "send" /\ d \in Encoders
            /\ inside' = [inside EXCEPT ![t] = None] /\ thread' = [thread EXCEPT ![t] = "done"]
        BY <3>2 DEF Throw
      <4> QED BY <4>1 DEF Owners
    <3> QED BY <1>6, <3>1, <3>2
  <2> HIDE DEF d
  <2>2. ASSUME NEW x \in {"loop", "done"}, inside' = [inside EXCEPT ![t] = None],
               thread' = [thread EXCEPT ![t] = x] \/ thread' = [Woken(d) EXCEPT ![t] = x]
        PROVE  Common' /\ Calmer
    <3>1. /\ inside' \in [Threads -> Owners \cup {None}] /\ inside'[t] = None
          /\ \A p \in Threads \ {t} : inside'[p] = inside[p]
      BY <1>3, <2>2
    <3>2. d \in Threads
      BY <2>1, ThreadsKnown
    <3>3. /\ Woken(d) \in [Threads -> Places]
          /\ \A p \in Threads : \/ Woken(d)[p] = thread[p]
                                \/ thread[p] = "asleep" /\ Woken(d)[p] = "loop"
      BY <1>3, <3>2 DEF Woken, Places
    <3> HIDE DEF Woken
    <3>4. /\ thread' \in [Threads -> Places]
          /\ \A p \in Threads \ {t} : \/ thread'[p] = thread[p]
                                      \/ thread[p] = "asleep" /\ thread'[p] = "loop"
      <4>1. x \in Places
        BY DEF Places
      <4>2. CASE thread' = [thread EXCEPT ![t] = x]
        BY <1>3, <4>1, <4>2
      <4>3. CASE thread' = [Woken(d) EXCEPT ![t] = x]
        BY <3>3, <4>1, <4>3
      <4> QED BY <2>2, <4>2, <4>3
    <3> QED BY <1>2, <2>1, <3>1, <3>4, ThreadMoves DEF Busy
  <2>3. ASSUME Over(d) PROVE Common' /\ Calmer
    BY <1>2, <2>3, OverCommon
  <2> QED BY <1>2, <2>1, <2>2, <2>3
<1> QED BY <1>4, <1>5, <1>6 DEF ThreadStep

\* A session begins.
LEMMA OpenCommon ==
  ASSUME Common, OpenSession
  PROVE  /\ Common' /\ Calmer /\ thread["server"] = "loop"
         /\ UNCHANGED <<todo, constructed, thrown>>
         /\ \A o \in Objects : state'[o] = state[o]
         /\ \A o \in Owners : \A d \in sinks'[o] \ {"session"} : d \in sinks[o] \/ d = "video_encoder"
<1>1. Typed /\ Attached /\ SessionThere
  BY DEF Common
<1>2. /\ thread["server"] = "loop" /\ open' = open + 1 /\ open \in Nat
      /\ UNCHANGED <<todo, constructed, thrown, inside>>
  BY <1>1 DEF OpenSession, Listening, SessionUnchanged, Typed
<1>3. /\ {"session", "video_encoder"} \subseteq Owners /\ "session" \notin Objects
      /\ "session" \notin Encoders /\ Objects \subseteq Owners
  BY DEF Owners, Encoders, Objects, Grabbers
<1>4. CASE open # 0
  <2>1. UNCHANGED <<state, stop_condition, thread, sinks>>
    BY <1>4 DEF OpenSession
  <2>2. Common'
    BY <1>1, <1>2, <1>4, <2>1 DEF Common, Typed, Attached, SessionThere, Busy
  <2>3. Calmer
    BY <2>1 DEF Calmer, Quiet, Resting
  <2> QED BY <1>2, <2>1, <2>2, <2>3
<1>5. CASE open = 0
  <2>1. /\ state' = [state EXCEPT !["session"] = "alive"]
        /\ stop_condition' = [stop_condition EXCEPT !["session"] = FALSE]
        /\ thread' = [thread EXCEPT !["session"] = "loop"]
        /\ sinks' = [o \in Owners |-> IF o \in Encoders THEN {"session"}
                                      ELSE IF o = "session" THEN {"video_encoder"} ELSE sinks[o]]
    BY <1>5 DEF OpenSession
  <2>2. /\ state'["session"] = "alive" /\ \A o \in Owners \ {"session"} : state'[o] = state[o]
        /\ thread'["session"] = "loop" /\ \A t \in Threads \ {"session"} : thread'[t] = thread[t]
    BY <1>1, <1>3, <2>1, ThreadsKnown DEF Typed
  <2>3. \A o \in Owners : sinks'[o] = IF o \in Encoders THEN {"session"}
                                      ELSE IF o = "session" THEN {"video_encoder"} ELSE sinks[o]
    BY <2>1
  <2>4. Typed'
    <3>1. sinks' \in [Owners -> SUBSET Owners]
      BY <1>1, <1>3, <2>1 DEF Typed
    <3>2. thread' \in [Threads -> Places]
      BY <1>1, <2>1 DEF Typed, Places
    <3>3. /\ state' \in [Owners -> {"unborn", "alive", "destroyed"}]
          /\ stop_condition' \in [Owners -> BOOLEAN]
      BY <1>1, <2>1 DEF Typed
    <3>4. /\ constructed' \in Seq(Objects)
          /\ inside' \in [Threads -> Owners \cup {None}] /\ open' \in Nat
      BY <1>1, <1>2 DEF Typed
    <3> QED BY <3>1, <3>2, <3>3, <3>4 DEF Typed
  <2>5. Attached'
    <3>1. \A o \in Encoders : Targets(o) = {"session"}
      BY DEF Targets, Encoders
    <3>2. Targets("session") = {"video_encoder"}
      BY DEF Targets, Encoders
    <3>3. ASSUME NEW o \in Owners PROVE sinks'[o] \subseteq Targets(o) /\ sinks[o] \subseteq sinks'[o]
      BY <1>1, <2>3, <3>1, <3>2 DEF Attached
    <3>4. ~Busy("session")
      BY <1>1, <1>5 DEF SessionThere
    <3>5. inside["session"] = None
      BY <1>1, <3>4, ThreadsKnown DEF Attached, Busy
    <3>6. ASSUME NEW t \in Threads, inside[t] # None
          PROVE  inside[t] \in sinks'[Of(t)] /\ thread'[t] \in {"handle", "send"}
      BY <1>1, <2>2, <3>3, <3>5, <3>6, ThreadsKnown DEF Attached
    <3> QED BY <1>2, <3>3, <3>6 DEF Attached
  <2>6. SessionThere'
    BY <1>2, <1>5, <2>2 DEF SessionThere
  <2>7. Calmer
    BY <2>2, ThreadsKnown DEF Calmer, Quiet, Resting, ThreadsOf
  <2>8. \A o \in Owners : \A d \in sinks'[o] \ {"session"} : d \in sinks[o] \/ d = "video_encoder"
    BY <2>3
  <2>9. \A o \in Objects : state'[o] = state[o]
    BY <1>3, <2>2
  <2> QED BY <1>2, <2>4, <2>5, <2>6, <2>7, <2>8, <2>9 DEF Common
<1> QED BY <1>4, <1>5

\* A session ends.
LEMMA RemoveCommon ==
  ASSUME Common, RemoveSession, UNCHANGED <<constructed, thrown, inside>>
  PROVE  /\ Common' /\ Calmer /\ state["session"] = "alive"
         /\ \A o \in Objects : state'[o] = state[o]
         /\ \A o \in Owners : \A d \in sinks'[o] \ {"session"} : d \in sinks[o]
<1>1. Typed /\ Attached /\ SessionThere
  BY DEF Common
<1>2. /\ open \in Nat /\ open > 0 /\ open' = open - 1 /\ open' \in Nat
      /\ open = 1 => thread["session"] = "loop"
      /\ \A e \in Encoders : Free(e)
  BY <1>1 DEF RemoveSession, Joinable, Typed
<1>3. /\ "session" \in Owners /\ "session" \notin Objects /\ Objects \subseteq Owners
      /\ state["session"] = "alive"
  BY <1>1, <1>2 DEF Owners, Objects, SessionThere
<1>4. CASE open # 1
  <2>1. UNCHANGED <<state, stop_condition, thread, sinks>>
    BY <1>4 DEF RemoveSession
  <2>2. open' > 0
    BY <1>2, <1>4
  <2>3. Common'
    BY <1>1, <1>2, <1>3, <2>1, <2>2 DEF Common, Typed, Attached, SessionThere, Busy
  <2>4. Calmer
    BY <2>1 DEF Calmer, Quiet, Resting
  <2> QED BY <1>3, <2>1, <2>3, <2>4
<1>5. CASE open = 1
  <2>1. /\ state' = [state EXCEPT !["session"] = "destroyed"]
        /\ stop_condition' = [stop_condition EXCEPT !["session"] = TRUE]
        /\ thread' = [thread EXCEPT !["session"] = "done"]
        /\ sinks' = [o \in Owners |-> sinks[o] \ {"session"}]
        /\ thread["session"] = "loop"
    BY <1>2, <1>5 DEF RemoveSession
  <2>2. /\ state'["session"] = "destroyed" /\ \A o \in Owners \ {"session"} : state'[o] = state[o]
        /\ thread'["session"] = "done" /\ \A t \in Threads \ {"session"} : thread'[t] = thread[t]
    BY <1>1, <1>3, <2>1, ThreadsKnown DEF Typed
  <2>3. \A o \in Owners : sinks'[o] = sinks[o] \ {"session"}
    BY <2>1
  <2>4. Typed'
    BY <1>1, <1>2, <2>1 DEF Typed, Places
  <2>5. Attached'
    <3>1. ASSUME NEW t \in Threads, inside[t] # None
          PROVE  inside[t] \in sinks'[Of(t)] /\ thread'[t] \in {"handle", "send"}
      <4>1. /\ inside[t] \in sinks[Of(t)] /\ sinks[Of(t)] \subseteq Targets(Of(t))
            /\ thread[t] \in {"handle", "send"} /\ Of(t) \in Owners
        BY <1>1, <3>1, ThreadsKnown DEF Attached
      <4>2. t # "session" /\ Of(t) # "session"
        BY <2>1, <4>1, ThreadsKnown
      <4>3. Of(t) \notin Encoders
        BY <1>2, <3>1, ThreadsKnown DEF Free
      <4>4. "session" \notin Targets(Of(t))
        BY <4>1, <4>2, <4>3 DEF Targets, Owners, Grabbers
      <4>5. thread'[t] = thread[t]
        BY <2>2, <4>2
      <4> QED BY <2>3, <4>1, <4>4, <4>5
    <3>2. \A o \in Owners : sinks'[o] \subseteq Targets(o)
      BY <1>1, <2>3 DEF Attached
    <3> QED BY <3>1, <3>2 DEF Attached
  <2>6. SessionThere'
    BY <1>2, <1>5, <2>2, <2>3 DEF SessionThere, Busy
  <2>7. Calmer
    BY <2>2, ThreadsKnown DEF Calmer, Quiet, Resting, ThreadsOf
  <2>8. \A o \in Objects : state'[o] = state[o]
    BY <1>3, <2>2
  <2> QED BY <1>3, <2>3, <2>4, <2>5, <2>6, <2>7, <2>8 DEF Common
<1> QED BY <1>4, <1>5

-----------------------------------------------------------------------------
(* The destructors, joined.                                                *)

\* Every set of natural numbers has a smallest element.
LEMMA Smallest ==
  ASSUME NEW T \in SUBSET Nat, T # {}
  PROVE  \E m \in T : \A n \in T : m <= n
<1> DEFINE R == {ss \in Nat \X Nat : ss[1] < ss[2]}
<1>1. IsWellFoundedOn(R, Nat)
  BY NatLessThanWellFounded DEF OpToRel
<1>2. \A x, y \in Nat : y < x => <<y, x>> \in R
  OBVIOUS
<1> HIDE DEF R
<1>3. \E x \in T : \A y \in T : <<y, x>> \notin R
  BY <1>1, WFMin
<1>4. \A x, y \in T : <<y, x>> \notin R => x <= y
  BY <1>2
<1> QED BY <1>3, <1>4

\* The function that FlattenSeq recurses with.
Join(f, q, i) == IF i = 1 THEN q[i] ELSE f[i - 1] \o q[i]
Joins(f, q) == f = [i \in 1 .. Len(q) |-> Join(f, q, i)]
Joined(q) == CHOOSE f : Joins(f, q)

\* FlattenSeq in these terms.
LEMMA FlattenJoined ==
  ASSUME NEW q, Len(q) # 0
  PROVE  FlattenSeq(q) = Joined(q)[Len(q)]
BY Zenon DEF FlattenSeq, Join, Joins, Joined

\* f joins the first d sequences of q.
JoinsUpTo(f, q, d) ==
  /\ f \in [1 .. d -> Seq(Undo)]
  /\ \A i \in 1 .. d : f[i] = Join(f, q, i)

\* One sequence more.
LEMMA JoinNext ==
  ASSUME NEW q \in Seq(Seq(Undo)), NEW d \in Nat, d + 1 <= Len(q), NEW g, JoinsUpTo(g, q, d)
  PROVE  \E h : JoinsUpTo(h, q, d + 1)
<1> DEFINE u == Join(g, q, d + 1)
<1>1. q[d + 1] \in Seq(Undo)
  OBVIOUS
<1>2. u \in Seq(Undo)
  <2>1. CASE d = 0
    BY <1>1, <2>1 DEF Join
  <2>2. CASE d # 0
    <3>1. d \in 1 .. d /\ d + 1 - 1 = d /\ d + 1 # 1
      BY <2>2
    <3>2. g[d] \in Seq(Undo)
      BY <3>1 DEF JoinsUpTo
    <3>3. g[d] \o q[d + 1] \in Seq(Undo)
      BY <1>1, <3>2, ConcatProperties
    <3> QED BY <3>1, <3>3 DEF Join
  <2> QED BY <2>1, <2>2
<1> DEFINE h == [i \in 1 .. d + 1 |-> IF i = d + 1 THEN u ELSE g[i]]
<1> HIDE DEF u
<1>3. /\ h \in [1 .. d + 1 -> Seq(Undo)] /\ h[d + 1] = u
      /\ \A i \in 1 .. d : h[i] = g[i]
  BY <1>2 DEF JoinsUpTo
<1> HIDE DEF h
<1>4. ASSUME NEW i \in 1 .. d + 1 PROVE h[i] = Join(h, q, i)
  <2>1. i # 1 => i - 1 \in 1 .. d
    OBVIOUS
  <2>2. i # 1 => h[i - 1] = g[i - 1]
    BY <1>3, <2>1
  <2>3. Join(h, q, i) = Join(g, q, i)
    BY <2>2, Zenon DEF Join
  <2>4. CASE i = d + 1
    BY <1>3, <2>3, <2>4, Zenon DEF u
  <2>5. CASE i # d + 1
    <3>1. i \in 1 .. d
      BY <2>5
    <3>2. h[i] = g[i] /\ g[i] = Join(g, q, i)
      BY <1>3, <3>1 DEF JoinsUpTo
    <3> QED BY <2>3, <3>2, Zenon
  <2> QED BY <2>4, <2>5
<1> QED BY <1>3, <1>4 DEF JoinsUpTo

\* The recursive function exists.
LEMMA JoinedSolves ==
  ASSUME NEW q \in Seq(Seq(Undo))
  PROVE  Joins(Joined(q), q)
<1> DEFINE Bad == {d \in Nat : d <= Len(q) /\ ~ \E f : JoinsUpTo(f, q, d)}
<1>1. Bad = {}
  <2> SUFFICES ASSUME Bad # {} PROVE FALSE
    OBVIOUS
  <2>1. PICK m \in Bad : \A d \in Bad : m <= d
    BY Smallest
  <2>2. m # 0
    <3> DEFINE f == [i \in 1 .. 0 |-> <<>>]
    <3>1. JoinsUpTo(f, q, 0)
      <4>1. f \in [1 .. 0 -> Seq(Undo)] /\ \A i \in 1 .. 0 : FALSE
        OBVIOUS
      <4> HIDE DEF f
      <4> QED BY <4>1 DEF JoinsUpTo
    <3> HIDE DEF f
    <3> QED BY <2>1, <3>1
  <2>3. PICK e \in Nat : m = e + 1
    <3>1. m - 1 \in Nat /\ m = (m - 1) + 1
      BY <2>1, <2>2
    <3> QED BY <3>1
  <2>4. e + 1 <= Len(q) /\ e <= Len(q) /\ e \notin Bad
    <3>1. m <= Len(q) /\ Len(q) \in Nat
      BY <2>1
    <3>2. e + 1 <= Len(q) /\ e <= Len(q) /\ ~(m <= e)
      BY <2>3, <3>1
    <3> QED BY <2>1, <3>2
  <2>5. PICK g : JoinsUpTo(g, q, e)
    BY <2>4
  <2>6. \E h : JoinsUpTo(h, q, e + 1)
    BY <2>4, <2>5, JoinNext
  <2> QED BY <2>1, <2>3, <2>6
<1>2. PICK f : JoinsUpTo(f, q, Len(q))
  <2>1. Len(q) \in Nat /\ Len(q) <= Len(q)
    OBVIOUS
  <2> QED BY <1>1, <2>1
<1>3. Joins(f, q)
  <2>1. f = [i \in 1 .. Len(q) |-> f[i]]
    BY <1>2 DEF JoinsUpTo
  <2>2. \A i \in 1 .. Len(q) : f[i] = Join(f, q, i)
    BY <1>2 DEF JoinsUpTo
  <2> QED BY <2>1, <2>2 DEF Joins
<1> QED BY <1>3 DEF Joined

\* What follows does not matter.
LEMMA EndsFirst ==
  ASSUME NEW a \in Seq(Undo), NEW b \in Seq(Undo), EndsSessions(a)
  PROVE  EndsSessions(a \o b)
<1> DEFINE u == a \o b
<1>1. Len(u) = Len(a) + Len(b) /\ \A i \in 1 .. Len(a) : u[i] = a[i]
  BY ConcatProperties
<1> HIDE DEF u
<1>2. Len(a) \in Nat /\ Len(b) \in Nat
  OBVIOUS
<1>3. Len(a) >= 1 => Len(u) >= 1 /\ u[1] = a[1]
  BY <1>1, <1>2
<1>4. Len(a) >= 2 => Len(u) >= 2 /\ u[1] = a[1] /\ u[2] = a[2]
  BY <1>1, <1>2
<1>5. EndsSessions(u)
  BY <1>3, <1>4 DEF EndsSessions
<1> QED BY <1>5 DEF u

\* Sequences of calls, joined, begin with the first of them.
LEMMA Flattened ==
  ASSUME NEW q \in Seq(Seq(Undo)), q # <<>>
  PROVE  FlattenSeq(q) \in Seq(Undo) /\ (EndsSessions(q[1]) => EndsSessions(FlattenSeq(q)))
<1> DEFINE f == Joined(q)
           Good(i) == f[i] \in Seq(Undo) /\ (EndsSessions(q[1]) => EndsSessions(f[i]))
           Bad == {i \in 1 .. Len(q) : ~Good(i)}
<1>1. Len(q) \in Nat /\ Len(q) > 0 /\ \A i \in 1 .. Len(q) : q[i] \in Seq(Undo)
  OBVIOUS
<1>2. \A i \in 1 .. Len(q) : f[i] = Join(f, q, i)
  BY <1>1, JoinedSolves DEF Joins
<1>3. FlattenSeq(q) = f[Len(q)]
  BY <1>1, FlattenJoined
<1> HIDE DEF f
<1>4. ASSUME Bad # {} PROVE FALSE
  <2>1. PICK e \in Bad : \A n \in Bad : e <= n
    <3>1. Bad \in SUBSET Nat
      BY <1>1
    <3> QED BY <1>4, <3>1, Smallest
  <2>2. e \in 1 .. Len(q) /\ ~Good(e) /\ e - 1 \notin Bad
    BY <1>1, <2>1
  <2>3. CASE e = 1
    <3>1. f[1] = q[1] /\ q[1] \in Seq(Undo)
      BY <1>1, <1>2, <2>2, <2>3 DEF Join
    <3> QED BY <2>2, <2>3, <3>1
  <2>4. CASE e # 1
    <3>1. e - 1 \in 1 .. Len(q) /\ q[e] \in Seq(Undo)
      BY <1>1, <2>2, <2>4
    <3>2. f[e] = f[e - 1] \o q[e]
      BY <1>2, <2>2, <2>4 DEF Join
    <3>3. Good(e - 1)
      BY <2>2, <3>1
    <3>4. f[e] \in Seq(Undo)
      BY <3>1, <3>2, <3>3, ConcatProperties
    <3>5. EndsSessions(q[1]) => EndsSessions(f[e])
      BY <3>1, <3>2, <3>3, EndsFirst
    <3> QED BY <2>2, <3>4, <3>5
  <2> QED BY <2>3, <2>4
<1>5. Good(Len(q))
  BY <1>1, <1>4
<1> QED BY <1>3, <1>5

\* Two or three calls in a row.
LEMMA InRow ==
  ASSUME NEW x \in Undo, NEW y \in Undo, NEW z \in Undo
  PROVE  /\ ((<<>> \o <<x>>) \o <<>>) \o <<y>> = <<x, y>>
         /\ ((<<>> \o <<x>>) \o <<y>>) \o <<z>> = <<x, y, z>>
         /\ ((<<x>> \o <<y>>) \o <<>>) \o <<z>> = <<x, y, z>>
         /\ <<x, y>> \in Seq(Undo) /\ <<x, y, z>> \in Seq(Undo)
         /\ Len(<<x, y, z>>) = 3 /\ <<x, y, z>>[1] = x /\ <<x, y, z>>[2] = y
<1>1. <<x>> \in Seq(Undo) /\ <<y>> \in Seq(Undo) /\ <<z>> \in Seq(Undo)
  OBVIOUS
<1>2. <<x, y>> \in Seq(Undo) /\ <<x, y, z>> \in Seq(Undo)
  OBVIOUS
<1>3. <<>> \o <<x>> = <<x>> /\ <<x>> \o <<>> = <<x>> /\ <<x, y>> \o <<>> = <<x, y>>
  BY <1>1, <1>2, ConcatEmptySeq
<1>4. <<x>> \o <<y>> = <<x, y>>
  <2> DEFINE u == <<x>> \o <<y>>
             v == <<x, y>>
  <2>1. u \in Seq(Undo) /\ Len(u) = 2 /\ u[1] = x /\ u[2] = y
    BY <1>1, ConcatProperties
  <2>2. v \in Seq(Undo) /\ Len(v) = 2 /\ v[1] = x /\ v[2] = y
    OBVIOUS
  <2> HIDE DEF u, v
  <2>3. \A i \in 1 .. 2 : u[i] = v[i]
    BY <2>1, <2>2
  <2>4. u = v
    BY <2>1, <2>2, <2>3, SeqEqual
  <2> QED BY <2>4 DEF u, v
<1>5. <<x, y>> \o <<z>> = <<x, y, z>>
  <2> DEFINE u == <<x, y>> \o <<z>>
             v == <<x, y, z>>
  <2>1. u \in Seq(Undo) /\ Len(u) = 3 /\ u[1] = x /\ u[2] = y /\ u[3] = z
    BY <1>1, <1>2, ConcatProperties
  <2>2. v \in Seq(Undo) /\ Len(v) = 3 /\ v[1] = x /\ v[2] = y /\ v[3] = z
    OBVIOUS
  <2> HIDE DEF u, v
  <2>3. \A i \in 1 .. 3 : u[i] = v[i]
    BY <2>1, <2>2
  <2>4. u = v
    BY <2>1, <2>2, <2>3, SeqEqual
  <2> QED BY <2>4 DEF u, v
<1> QED BY <1>2, <1>3, <1>4, <1>5

\* The destructor of an object is a sequence of such calls.
LEMMA DestructorTyped ==
  ASSUME NEW o \in Objects
  PROVE  Destructor(o) \in Seq(Undo) /\ (o = "server" => EndsSessions(Destructor(o)))
<1> DEFINE x(w) == Do(w, o)
<1>1. x("stop") \in Undo /\ x("dismantle") \in Undo /\ x("free") \in Undo /\ x("sessions") \in Undo
  BY DEF Do, Undo
<1>2. Destructor(o) = (((IF o \in Encoders THEN <<x("dismantle")>> ELSE <<>>) \o <<x("stop")>>)
                        \o (IF o = "server" THEN <<x("sessions")>> ELSE <<>>)) \o <<x("free")>>
  BY DEF Destructor
<1>3. o = "server" => o \notin Encoders
  BY DEF Encoders
<1> HIDE DEF x
<1>4. CASE o \in Encoders
  <2>1. Destructor(o) = <<x("dismantle"), x("stop"), x("free")>>
    BY <1>1, <1>2, <1>3, <1>4, InRow
  <2> QED BY <1>1, <1>3, <1>4, <2>1, InRow
<1>5. CASE o = "server"
  <2>1. Destructor(o) = <<x("stop"), x("sessions"), x("free")>>
    BY <1>1, <1>2, <1>3, <1>5, InRow
  <2>2. Destructor(o) \in Seq(Undo)
    BY <1>1, <2>1, InRow
  <2>3. Len(Destructor(o)) = 3 /\ Destructor(o)[1] = x("stop") /\ Destructor(o)[2] = x("sessions")
    BY <1>1, <2>1, InRow
  <2>4. EndsSessions(Destructor(o))
    BY <1>5, <2>3 DEF EndsSessions, x
  <2> QED BY <2>2, <2>4
<1>6. CASE o \notin Encoders /\ o # "server"
  <2>1. Destructor(o) = <<x("stop"), x("free")>>
    BY <1>1, <1>2, <1>6, InRow
  <2> QED BY <1>1, <1>6, <2>1, InRow
<1> QED BY <1>4, <1>5, <1>6

\* All that main has left when it destroys its objects; that of the server goes first,
\* if there is one.
LEMMA UnwindingTyped ==
  ASSUME NEW q \in Seq(Objects)
  PROVE  /\ Unwinding(q) \in Seq(Undo)
         /\ q # <<>> /\ Last(q) = "server" => EndsSessions(Unwinding(q))
<1> DEFINE r == Reverse(q)
           d == [i \in DOMAIN q |-> Destructor(r[i])]
<1>1. Len(q) \in Nat /\ DOMAIN q = 1 .. Len(q) /\ \A i \in 1 .. Len(q) : q[i] \in Objects
  OBVIOUS
<1>2. \A i \in 1 .. Len(q) : r[i] = q[(Len(q) - i) + 1]
  BY DEF Reverse
<1>3. \A i \in 1 .. Len(q) : r[i] \in Objects
  BY <1>1, <1>2
<1> HIDE DEF r
<1>4. /\ d \in Seq(Seq(Undo)) /\ Len(d) = Len(q)
      /\ \A i \in 1 .. Len(q) : d[i] = Destructor(r[i])
  <2>1. \A i \in 1 .. Len(q) : Destructor(r[i]) \in Seq(Undo)
    BY <1>3, DestructorTyped
  <2> QED BY <1>1, <2>1
<1>5. Unwinding(q) = FlattenSeq(d)
  BY DEF Unwinding, r
<1> HIDE DEF d
<1>6. CASE q = <<>>
  <2>1. d = <<>>
    BY <1>4, <1>6
  <2> QED BY <1>5, <1>6, <2>1 DEF FlattenSeq
<1>7. CASE q # <<>>
  <2>1. d # <<>> /\ 1 \in 1 .. Len(q) /\ (Len(q) - 1) + 1 = Len(q)
    BY <1>1, <1>4, <1>7
  <2>2. Last(q) = "server" => r[1] = "server"
    BY <1>2, <2>1 DEF Last
  <2>3. Last(q) = "server" => EndsSessions(d[1])
    BY <1>3, <1>4, <2>1, <2>2, DestructorTyped
  <2> QED BY <1>4, <1>5, <1>7, <2>1, <2>3, Flattened
<1> QED BY <1>6, <1>7

-----------------------------------------------------------------------------
(* Every step.                                                             *)

\* A step beside main keeps main where it is.
LEMMA PhaseKept ==
  ASSUME Common, Phase, UNCHANGED <<todo, constructed, thrown>>, Calmer,
         \A o \in Objects : state'[o] = state[o],
         state["session"] # "alive" /\ thread["server"] # "loop" => state'["session"] # "alive",
         \A o \in Owners : \A d \in sinks'[o] \ {"session"} :
           d \in sinks[o] \/ (d = "video_encoder" /\ thread["server"] = "loop")
  PROVE  Phase'
<1>1. "server" \in Objects /\ "video_encoder" \in Objects
  BY DEF Objects, Owners, Encoders
<1>2. CASE InUnwinding
  <2>1. thrown \notin Late => \A o \in Objects : Quiet(o)'
    BY <1>2 DEF InUnwinding, Calmer
  <2>2. thrown \notin Late /\ state'["session"] = "alive"
          => state'["video_encoder"] = "alive" /\ EndsSessions(todo')
    <3>1. thrown \notin Late => thread["server"] # "loop"
      BY <1>1, <1>2, ThreadsKnown DEF InUnwinding, Quiet
    <3> QED BY <1>1, <1>2, <3>1 DEF InUnwinding
  <2>3. InUnwinding'
    BY <1>2, <2>1, <2>2 DEF InUnwinding
  <2> QED BY <2>3 DEF Phase
<1>3. ASSUME NEW c \in BOOLEAN, NEW n \in 1 .. Len(Calls(c)), InCalls(c, n)
      PROVE  InCalls(c, n)'
  <2>0. Resting("server") => thread["server"] = "none"
    BY <1>1, ThreadsKnown DEF Resting
  <2>1. state["session"] # "alive" /\ Resting("server") => state'["session"] # "alive"
    BY <2>0
  <2>2. thread["server"] = "loop" => state'["video_encoder"] = "alive"
    <3> HAVE thread["server"] = "loop"
    <3>0. Len(Calls(c)) = 19 + Extra(c) /\ n \in Nat
      BY <1>3, NextCall DEF InCalls
    <3>1. Extra(c) \in {2, 4} /\ StartAt(Extra(c), "server") = 11 + Extra(c)
          /\ InitAt(Extra(c), "video_encoder") = 8
      BY PlacesOfCalls
    <3>2. ~(n <= StartAt(Extra(c), "server"))
      BY <1>1, <1>3, <2>0 DEF InCalls
    <3>3. n > InitAt(Extra(c), "video_encoder")
      BY <3>0, <3>1, <3>2
    <3>4. state["video_encoder"] = "alive"
      BY <1>1, <1>3, <3>3 DEF InCalls
    <3> QED BY <1>1, <3>4
  <2>3. \A o \in Owners : \A d \in sinks'[o] \ {"session"} : d \in sinks[o] \/ state'[d] = "alive"
    BY <2>2
  <2>4. \A o \in Owners : sinks[o] \ {"session"} \subseteq Objects
    BY DEF Common, Typed, Objects
  <2>5. \A o \in Objects : /\ state'[o] = state[o]
                           /\ Quiet(o) => Quiet(o)'
                           /\ Resting(o) => Resting(o)'
    BY DEF Calmer
  <2> QED BY <1>3, <2>1, <2>3, <2>4, <2>5, CallsKept
<1>4. ASSUME NEW c \in BOOLEAN, NEW n \in 1 .. Len(Calls(c)), InCalls(c, n) PROVE Phase'
  BY <1>3, <1>4 DEF Phase
<1> QED BY <1>2, <1>4 DEF Phase

\* An exception destroys what was constructed. Before the grabbers' threads were started
\* there is no thread that could notice.
LEMMA ThrowStep ==
  ASSUME Common, NEW c \in BOOLEAN, NEW n \in 1 .. Len(Calls(c)), InCalls(c, n),
         NEW o \in Owners, InitThrows(o)
  PROVE  Common' /\ InUnwinding'
<1> DEFINE m == Extra(c)
<1>1. Typed /\ Attached /\ SessionThere
  BY DEF Common
<1>2. Right(m, n, Head(todo)) /\ n \in Nat
  BY NextCall DEF InCalls
<1>3. /\ Head(todo) = Do("init", o) /\ o # "video_converter" /\ Construct(o)
      /\ thrown' = o /\ todo' = Unwinding(constructed')
      /\ UNCHANGED <<stop_condition, thread, sinks, inside, open>>
  BY DEF InitThrows, At, MainUnchanged
<1>4. o \in Objects /\ n = InitAt(m, o)
  BY <1>2, <1>3 DEF Right, Do
<1>5. /\ state' = [state EXCEPT ![o] = "alive"]
      /\ constructed \in Seq(Objects) /\ constructed' \in Seq(Objects)
  BY <1>1, <1>3, <1>4 DEF Construct, Typed
<1>6. Common'
  <2>1. Typed'
    BY <1>1, <1>3, <1>5 DEF Typed
  <2>2. state'["session"] = state["session"]
    BY <1>4, <1>5 DEF Objects
  <2> QED BY <1>1, <1>3, <2>1, <2>2 DEF Common, Attached, SessionThere, Busy
<1>7. todo' \in Seq(Undo)
  BY <1>3, <1>5, UnwindingTyped
<1>8. ASSUME o \notin Late
      PROVE  (\A p \in Objects : Quiet(p)') /\ state'["session"] # "alive"
  <2>1. m \in {2, 4} /\ InitAt(m, o) <= 2 /\ InitAt(m, o) \in Nat
    BY <1>3, <1>4, <1>8, PlacesOfCalls
  <2>2. ASSUME NEW p \in Objects PROVE n <= StartAt(m, p)
    <3>1. StartAt(m, p) \in 4 .. 20 + m
      BY PlacesOfCalls
    <3> QED BY <1>2, <1>4, <2>1, <3>1
  <2>3. (\A p \in Objects : Resting(p)) /\ state["session"] # "alive"
    BY <2>2, ThreadsKnown DEF InCalls
  <2>4. \A p \in Objects : Quiet(p)'
    BY <1>3, <2>3 DEF Quiet, Resting
  <2> QED BY <1>4, <1>5, <2>3, <2>4 DEF Objects
<1> QED BY <1>3, <1>6, <1>7, <1>8 DEF InUnwinding

\* The end of the block: all threads of main's objects have ended, and the server goes first.
LEMMA ReturnStep ==
  ASSUME Common, NEW c \in BOOLEAN, NEW n \in 1 .. Len(Calls(c)), InCalls(c, n), Return
  PROVE  Common' /\ InUnwinding'
<1> DEFINE m == Extra(c)
<1>1. Right(m, n, Head(todo)) /\ n \in Nat
  BY NextCall DEF InCalls
<1>2. /\ Head(todo) = Do("return", None) /\ todo' = Unwinding(constructed)
      /\ UNCHANGED <<constructed, state, stop_condition, thread, sinks, inside, open, thrown>>
  BY DEF Return, At, MainUnchanged
<1>3. n = 19 + m
  BY <1>1, <1>2 DEF Right, Do
<1>4. Common'
  BY <1>2 DEF Common, Typed, Attached, SessionThere, Busy
<1>5. \A p \in Objects : Quiet(p)
  <2>1. ASSUME NEW p \in Objects PROVE n > StopAt(m, p)
    <3>1. m \in {2, 4} /\ StopAt(m, p) \in 13 + m .. 18 + m
      BY PlacesOfCalls
    <3> QED BY <1>3, <3>1
  <2> QED BY <2>1 DEF InCalls
<1>6. state["video_encoder"] = "alive" /\ constructed # <<>> /\ Last(constructed) = "server"
  <2>1. m \in {2, 4} /\ InitAt(m, "server") = 10 + m /\ InitAt(m, "video_encoder") = 8
    BY PlacesOfCalls
  <2>2. n > InitAt(m, "server") /\ n > InitAt(m, "video_encoder")
    BY <1>3, <2>1
  <2>3. "video_encoder" \in Objects
    BY DEF Objects, Owners, Encoders
  <2> QED BY <2>2, <2>3 DEF InCalls
<1>7. todo' \in Seq(Undo) /\ EndsSessions(todo')
  BY <1>2, <1>6, UnwindingTyped DEF Common, Typed
<1> QED BY <1>2, <1>4, <1>5, <1>6, <1>7 DEF InUnwinding, Quiet

\* main destroys its objects, one call after the other.
LEMMA UndoStep ==
  ASSUME Common, InUnwinding,
         MainStep \/ Interrupt \/ \E o \in Owners : InitThrows(o)
  PROVE  Common' /\ Phase'
<1>1. Typed /\ Attached /\ SessionThere
  BY DEF Common
<1>2. todo \in Seq(Undo)
  BY DEF InUnwinding
<1>3. ASSUME todo # <<>>
      PROVE  /\ Head(todo) \in Undo /\ Tail(todo) \in Seq(Undo) /\ todo[1] = Head(todo)
             /\ EndsSessions(todo)
                  => \/ Head(todo) = Do("sessions", "server")
                     \/ Head(todo) = Do("stop", "server") /\ EndsSessions(Tail(todo))
  <2>1. Len(todo) \in Nat /\ Len(todo) >= 1 /\ Head(todo) = todo[1] /\ todo[1] \in Undo
    BY <1>2, <1>3
  <2>2. Tail(todo) \in Seq(Undo) /\ Len(Tail(todo)) = Len(todo) - 1
    BY <1>2, <1>3
  <2>3. Len(todo) >= 2 => Tail(todo)[1] = todo[2] /\ Len(Tail(todo)) >= 1
    BY <1>2, <1>3, <2>1, <2>2
  <2>4. EndsSessions(todo)
          => \/ Head(todo) = Do("sessions", "server")
             \/ Head(todo) = Do("stop", "server") /\ EndsSessions(Tail(todo))
    <3>1. CASE todo[1] = Do("sessions", "server")
      BY <2>1, <3>1
    <3>2. CASE /\ Len(todo) >= 2 /\ todo[1] = Do("stop", "server")
               /\ todo[2] = Do("sessions", "server")
      <4>1. Len(Tail(todo)) >= 1 /\ Tail(todo)[1] = Do("sessions", "server")
        BY <2>3, <3>2
      <4> QED BY <2>1, <3>2, <4>1 DEF EndsSessions
    <3> QED BY <3>1, <3>2, Zenon DEF EndsSessions
  <2> QED BY <2>1, <2>2, <2>4
<1>4. ASSUME NEW call, At(call) PROVE todo # <<>> /\ Head(todo) = call /\ call \in Undo
  BY <1>3, <1>4 DEF At
<1>5. ASSUME NEW w, NEW x, NEW d, <<w, x, d>> \in Undo
      PROVE  w \in {"stop", "dismantle", "free", "sessions"} /\ x \in Objects /\ d = None
  BY <1>5 DEF Undo
<1>6. ASSUME NEW w \in {"init", "construct", "attach", "start", "wait", "return"},
             NEW x, NEW d, At(<<w, x, d>>)
      PROVE  FALSE
  <2>1. <<w, x, d>> \in Undo
    BY <1>4, <1>6
  <2> QED BY <1>5, <2>1
<1>10. ASSUME NEW o \in Owners,
              \/ InitObject(o) \/ Start(o) \/ InitThrows(o) \/ Return \/ Interrupt
              \/ \E d \in Owners : Attach(o, d)
       PROVE  FALSE
  BY <1>6, <1>10 DEF InitObject, Start, InitThrows, Attach, Return, Interrupt, Do
<1>7. ASSUME NEW o \in Owners, Stop(o) PROVE Common' /\ InUnwinding'
  <2>1. /\ At(Do("stop", o))
        /\ UNCHANGED <<constructed, state, thread, sinks, inside, open, thrown>>
        /\ UNCHANGED todo \/ todo' = Tail(todo)
    BY <1>7 DEF Stop, Go, MainUnchanged
  <2>2. stop_condition' \in [Owners -> BOOLEAN]
    BY <1>1, <1>7 DEF Stop, Typed
  <2>3. Common'
    BY <1>1, <2>1, <2>2 DEF Common, Typed, Attached, SessionThere, Busy
  <2>4. todo' \in Seq(Undo) /\ (EndsSessions(todo) => EndsSessions(todo'))
    <3>1. CASE todo' = todo
      BY <1>2, <3>1
    <3>2. CASE todo' = Tail(todo)
      <4>1. todo # <<>> /\ Head(todo) = Do("stop", o)
        BY <1>4, <2>1
      <4>2. Head(todo) # Do("sessions", "server")
        BY <4>1 DEF Do
      <4> QED BY <1>3, <3>2, <4>1, <4>2
    <3> QED BY <2>1, <3>1, <3>2
  <2>5. \A p \in Objects : Quiet(p)' <=> Quiet(p)
    BY <2>1 DEF Quiet
  <2> QED BY <2>1, <2>3, <2>4, <2>5 DEF InUnwinding
<1>8. ASSUME NEW o \in Owners, Destroy(o) PROVE Common' /\ InUnwinding'
  <2>1. /\ At(Do("dismantle", o)) \/ At(Do("free", o))
        /\ state' = [state EXCEPT ![o] = "destroyed"] /\ todo' = Tail(todo)
        /\ UNCHANGED <<constructed, stop_condition, thread, sinks, inside, open, thrown>>
    BY <1>8 DEF Destroy, Go, MainUnchanged
  <2>2. /\ todo # <<>> /\ o \in Objects
        /\ Head(todo) # Do("sessions", "server") /\ Head(todo) # Do("stop", "server")
    BY <1>4, <1>5, <2>1 DEF Do
  <2>3. state'["session"] = state["session"]
    BY <2>1, <2>2 DEF Objects
  <2>4. Typed'
    BY <1>1, <2>1 DEF Typed
  <2>5. Common'
    BY <1>1, <2>1, <2>3, <2>4 DEF Common, Attached, SessionThere, Busy
  <2>6. todo' \in Seq(Undo) /\ ~EndsSessions(todo)
    BY <1>3, <2>1, <2>2
  <2>7. \A p \in Objects : Quiet(p)' <=> Quiet(p)
    BY <2>1 DEF Quiet
  <2> QED BY <2>1, <2>3, <2>5, <2>6, <2>7 DEF InUnwinding
<1>9. CASE EndSessions
  <2>1. /\ At(Do("sessions", "server")) /\ UNCHANGED <<constructed, thrown, inside>>
        /\ \/ RemoveSession /\ UNCHANGED todo
           \/ /\ open = 0 /\ todo' = Tail(todo)
              /\ UNCHANGED <<state, stop_condition, thread, sinks, open>>
    BY <1>9 DEF EndSessions, SessionUnchanged, Go
  <2>2. CASE RemoveSession /\ UNCHANGED todo
    <3>1. /\ Common' /\ Calmer /\ state["session"] = "alive"
          /\ \A o \in Objects : state'[o] = state[o]
          /\ \A o \in Owners : \A d \in sinks'[o] \ {"session"} : d \in sinks[o]
      BY <2>1, <2>2, RemoveCommon
    <3>2. Phase'
      BY <2>1, <2>2, <3>1, PhaseKept DEF Phase
    <3> QED BY <3>1, <3>2
  <2>3. CASE /\ open = 0 /\ todo' = Tail(todo)
             /\ UNCHANGED <<state, stop_condition, thread, sinks, open>>
    <3>1. Common'
      BY <1>1, <2>1, <2>3 DEF Common, Typed, Attached, SessionThere, Busy
    <3>2. state'["session"] # "alive"
      BY <1>1, <2>3 DEF SessionThere
    <3>3. todo' \in Seq(Undo)
      BY <1>3, <1>4, <2>1, <2>3
    <3>4. \A p \in Objects : Quiet(p)' <=> Quiet(p)
      BY <2>3 DEF Quiet
    <3> QED BY <2>1, <3>1, <3>2, <3>3, <3>4 DEF InUnwinding, Phase
  <2> QED BY <2>1, <2>2, <2>3
<1>11. CASE Exit
  <2>1. /\ UNCHANGED <<todo, constructed, state, stop_condition, sinks, open, thrown>>
        /\ Over("returned")
    BY <1>11 DEF Exit
  <2>2. Common' /\ Calmer
    BY <2>1, OverCommon
  <2> QED BY <2>1, <2>2 DEF InUnwinding, Phase, Calmer
<1>12. "server" \in Owners
  BY DEF Owners
<1> QED BY <1>7, <1>8, <1>9, <1>10, <1>11, <1>12, Zenon DEF MainStep, Phase

\* Whoever calls an object that is not there does so after an exception out of the init
\* of a late object.
LEMMA CallMisuse ==
  ASSUME Common, Phase, NEW t \in Threads, NEW d \in sinks[Of(t)], Busy(t),
         state[d] # "alive"
  PROVE  d \in {"audio_encoder", "video_converter", "video_encoder"} /\ thrown \in Late
<1>1. Typed /\ Attached /\ SessionThere
  BY DEF Common
<1>2. d \in Targets(Of(t)) /\ d # "session" /\ Of(t) \in Owners
  BY <1>1, ThreadsKnown DEF Attached, SessionThere
<1>3. d \in {"audio_encoder", "video_converter", "video_encoder"}
  BY <1>2 DEF Targets, Owners, Grabbers, Encoders
<1>4. ~ \E c \in BOOLEAN : \E n \in 1 .. Len(Calls(c)) : InCalls(c, n)
  BY <1>2 DEF InCalls
<1>5. ASSUME InUnwinding, thrown \notin Late PROVE FALSE
  <2>1. Of(t) \notin Objects
    BY <1>5, ThreadsKnown DEF InUnwinding, Quiet, Busy
  <2>2. Of(t) = "session" /\ t = "session"
    BY <1>2, <2>1, ThreadsKnown DEF Objects
  <2>3. d = "video_encoder"
    BY <1>2, <2>2 DEF Targets, Encoders
  <2>4. state["session"] = "alive"
    BY <1>1, <2>2 DEF SessionThere
  <2> QED BY <1>5, <2>3, <2>4 DEF InUnwinding
<1> QED BY <1>3, <1>4, <1>5 DEF Phase

\* Only the death of the process, or its misuse, changes the outcome.
LEMMA NextMisuse == ASSUME IInv, [Next]_vars PROVE MisuseOnlyUnwinding'
<1>1. Common /\ Phase /\ MisuseOnlyUnwinding
  BY DEF IInv
<1>2. /\ "running" \notin Owners /\ "returned" \notin Owners
      /\ "terminated" \notin Owners /\ "exhausted" \notin Owners
  BY DEF Owners, Grabbers, Encoders
<1>3. CASE outcome' \in {"running", "returned", "terminated", "exhausted"}
  BY <1>2, <1>3 DEF MisuseOnlyUnwinding
<1>4. ASSUME NEW t \in Threads, Call(t) PROVE MisuseOnlyUnwinding'
  <2>1. /\ Busy(t) /\ UNCHANGED thrown /\ outcome = "running"
        /\ \/ UNCHANGED outcome
           \/ \E d \in sinks[Of(t)] : state[d] # "alive" /\ outcome' = d
    BY <1>4 DEF Call, Takes, Runs, Busy, ThreadUnchanged, Over
  <2>2. ASSUME NEW d \in sinks[Of(t)], state[d] # "alive", outcome' = d
        PROVE  MisuseOnlyUnwinding'
    <3>1. d \in {"audio_encoder", "video_converter", "video_encoder"} /\ thrown \in Late
      BY <1>1, <2>1, <2>2, CallMisuse
    <3> QED BY <2>1, <2>2, <3>1 DEF MisuseOnlyUnwinding, Late
  <2> QED BY <1>3, <2>1, <2>2
<1>5. ASSUME NEW t \in Threads, Back(t) PROVE MisuseOnlyUnwinding'
  <2>1. /\ inside[t] # None /\ UNCHANGED thrown /\ outcome = "running"
        /\ \/ UNCHANGED outcome
           \/ state[inside[t]] # "alive" /\ outcome' = inside[t]
    BY <1>5 DEF Back, ThreadUnchanged, Over
  <2>2. inside[t] \in sinks[Of(t)] /\ Busy(t)
    BY <1>1, <2>1 DEF Common, Attached, Busy
  <2>3. CASE state[inside[t]] # "alive" /\ outcome' = inside[t]
    <3>1. /\ inside[t] \in {"audio_encoder", "video_converter", "video_encoder"}
          /\ thrown \in Late
      BY <1>1, <2>2, <2>3, CallMisuse
    <3> QED BY <2>1, <2>3, <3>1 DEF MisuseOnlyUnwinding, Late
  <2> QED BY <1>3, <2>1, <2>3
<1>6. CASE UNCHANGED vars
  BY <1>1, <1>6 DEF MisuseOnlyUnwinding, vars
<1>7. ASSUME NEW t \in Threads, Leave(t) \/ Wait(t) \/ Sleep(t) \/ Throw(t) \/ Fail(t)
      PROVE  outcome' = "running"
  BY <1>7 DEF Leave, Wait, Takes, Sleep, Throw, Fail, Runs
<1>8. ASSUME NEW o \in Owners,
             \/ InitObject(o) \/ Start(o) \/ Stop(o) \/ Destroy(o) \/ InitThrows(o)
             \/ \E d \in Owners : Attach(o, d)
      PROVE  outcome' = "running"
  BY <1>8 DEF InitObject, Start, Stop, Destroy, InitThrows, Attach, At, MainUnchanged
<1>9. CASE Return \/ EndSessions \/ Exit \/ Interrupt
  BY <1>3, <1>9 DEF Return, EndSessions, Exit, Interrupt, At, MainUnchanged, Over
<1>10. CASE OpenSession \/ OpenFails \/ EndSession \/ JoinBlocked \/ ClientReads
  <2>1. outcome' \in {"running", "terminated", "exhausted"}
    BY <1>10 DEF OpenSession, OpenFails, EndSession, JoinBlocked, ClientReads, Listening, At, Over
  <2> QED BY <1>3, <2>1
<1> QED BY <1>3, <1>4, <1>5, <1>6, <1>7, <1>8, <1>9, <1>10 DEF Next, MainStep, ThreadStep

\* main has all its calls before it.
LEMMA InitInv == Init => IInv
<1> SUFFICES ASSUME Init PROVE IInv
  OBVIOUS
<1>1. /\ constructed = <<>>
      /\ state = [o \in Owners |-> "unborn"]
      /\ stop_condition = [o \in Owners |-> TRUE]
      /\ thread = [t \in Threads |-> "none"]
      /\ sinks = [o \in Owners |-> {}]
      /\ inside = [t \in Threads |-> None]
      /\ open = 0 /\ thrown = None /\ outcome = "running"
  BY DEF Init
<1>2. Typed
  BY <1>1 DEF Typed, Places
<1>3. "session" \in Owners /\ "server" \in Owners /\ Objects \subseteq Owners
  BY DEF Owners, Objects
<1>4. Attached /\ SessionThere
  BY <1>1, <1>3, ThreadsKnown DEF Attached, SessionThere, Busy
<1>5. PICK c \in BOOLEAN : todo = Calls(c)
  BY DEF Init
<1>6. PICK m \in {2, 4} : m = Extra(c)
  BY PlacesOfCalls
<1>7. Calls(c) \in Seq(Call3) /\ Len(Calls(c)) = 19 + m
  BY <1>6, Layout
<1>8. 1 \in 1 .. Len(Calls(c)) /\ todo = SubSeq(Calls(c), 1, Len(Calls(c)))
  <2>1. 1 \in 1 .. Len(Calls(c))
    BY <1>7
  <2> DEFINE s == Calls(c)
             t == SubSeq(s, 1, Len(s))
  <2>2. t \in Seq(Call3) /\ Len(t) = Len(s) /\ \A i \in 1 .. Len(s) : t[i] = s[i]
    BY <1>7, SubSeqProperties
  <2> HIDE DEF s, t
  <2>3. s \in Seq(Call3)
    BY <1>7 DEF s
  <2>4. t = s
    BY <2>2, <2>3, SeqEqual
  <2> QED BY <1>5, <2>1, <2>4 DEF s, t
<1>9. InCalls(c, 1)
  <2>1. ASSUME NEW o \in Objects
        PROVE  ~(1 > InitAt(m, o)) /\ ~(1 > StopAt(m, o)) /\ Resting(o)
    <3>1. InitAt(m, o) \in 1 .. 10 + m /\ StopAt(m, o) \in 13 + m .. 18 + m
      BY <1>6, PlacesOfCalls
    <3>2. Resting(o)
      BY <1>1 DEF Resting, ThreadsOf
    <3> QED BY <3>1, <3>2
  <2>2. "server" \in Objects
    BY DEF Objects, Owners
  <2>3. state["session"] # "alive"
    BY <1>1, <1>3
  <2>4. \A o \in Owners : sinks[o] = {}
    BY <1>1
  <2> QED BY <1>1, <1>6, <1>8, <2>1, <2>2, <2>3, <2>4 DEF InCalls
<1>10. Phase
  BY <1>8, <1>9 DEF Phase
<1>11. MisuseOnlyUnwinding
  BY <1>1 DEF MisuseOnlyUnwinding, Owners, Grabbers, Encoders
<1> QED BY <1>2, <1>4, <1>10, <1>11 DEF IInv, Common

\* Every step keeps main and the threads in step.
LEMMA NextInv == ASSUME IInv, [Next]_vars PROVE IInv'
<1>1. Common /\ Phase
  BY DEF IInv
<1>2. SUFFICES Common' /\ Phase'
  BY NextMisuse DEF IInv
<1>3. ASSUME MainStep \/ Interrupt \/ \E o \in Owners : InitThrows(o)
      PROVE  Common' /\ Phase'
  <2>1. CASE InUnwinding
    BY <1>1, <1>3, <2>1, UndoStep
  <2>2. ASSUME NEW c \in BOOLEAN, NEW n \in 1 .. Len(Calls(c)), InCalls(c, n)
        PROVE  Common' /\ Phase'
    <3>1. Right(Extra(c), n, Head(todo)) /\ todo # <<>>
      BY <2>2, NextCall DEF InCalls
    <3>2. ASSUME NEW o \in Owners,
                 Start(o) \/ Stop(o) \/ (\E d \in Owners : Attach(o, d)) \/ Interrupt
          PROVE  Common' /\ Phase'
      <4>1. Common' /\ \E k \in {n, n + 1} : k \in 1 .. Len(Calls(c)) /\ InCalls(c, k)'
        BY <1>1, <2>2, <3>2, CallsStep
      <4> QED BY <4>1 DEF Phase
    <3>3. ASSUME NEW o \in Owners, InitObject(o) PROVE Common' /\ Phase'
      <4>1. Common' /\ n + 1 \in 1 .. Len(Calls(c)) /\ InCalls(c, n + 1)'
        BY <1>1, <2>2, <3>3, InitObjectStep
      <4> QED BY <4>1 DEF Phase
    <3>4. ASSUME NEW o \in Owners, InitThrows(o) PROVE Common' /\ Phase'
      BY <1>1, <2>2, <3>4, ThrowStep DEF Phase
    <3>5. CASE Return
      BY <1>1, <2>2, <3>5, ReturnStep DEF Phase
    <3>6. ASSUME NEW o \in Owners, Destroy(o) PROVE FALSE
      BY <3>1, <3>6 DEF Destroy, At, Right, Do
    <3>7. ~EndSessions
      BY <3>1 DEF EndSessions, At, Right, Do
    <3>8. ~Exit
      BY <3>1 DEF Exit
    <3>9. "server" \in Owners
      BY DEF Owners
    <3> QED BY <1>3, <3>2, <3>3, <3>4, <3>5, <3>6, <3>7, <3>8, <3>9 DEF MainStep
  <2> QED BY <1>1, <2>1, <2>2, Zenon DEF Phase
<1>4. ASSUME NEW t \in Threads, ThreadStep(t) \/ Fail(t) PROVE Common' /\ Phase'
  <2>1. Common' /\ Calmer /\ UNCHANGED <<todo, constructed, state, sinks, thrown>>
    BY <1>1, <1>4, ThreadCommon
  <2> QED BY <1>1, <2>1, PhaseKept
<1>5. CASE OpenSession
  <2>1. /\ Common' /\ Calmer /\ thread["server"] = "loop"
        /\ UNCHANGED <<todo, constructed, thrown>>
        /\ \A o \in Objects : state'[o] = state[o]
        /\ \A o \in Owners : \A d \in sinks'[o] \ {"session"} : d \in sinks[o] \/ d = "video_encoder"
    BY <1>1, <1>5, OpenCommon
  <2> QED BY <1>1, <2>1, PhaseKept
<1>6. CASE EndSession \/ ClientReads
  <2>1. RemoveSession /\ UNCHANGED <<todo, constructed, thrown, inside>>
    BY <1>6 DEF EndSession, ClientReads, SessionUnchanged
  <2>2. /\ Common' /\ Calmer /\ state["session"] = "alive"
        /\ \A o \in Objects : state'[o] = state[o]
        /\ \A o \in Owners : \A d \in sinks'[o] \ {"session"} : d \in sinks[o]
    BY <1>1, <2>1, RemoveCommon
  <2>3. Phase'
    BY <1>1, <2>1, <2>2, PhaseKept
  <2> QED BY <2>2, <2>3
<1>7. CASE JoinBlocked \/ UNCHANGED vars
  <2>1. UNCHANGED <<todo, constructed, state, stop_condition, thread, sinks, inside, open, thrown>>
    BY <1>7 DEF JoinBlocked, SessionUnchanged, vars
  <2>2. Common'
    BY <1>1, <2>1 DEF Common, Typed, Attached, SessionThere, Busy
  <2>3. thread' = thread /\ state' = state /\ sinks' = sinks
    BY <2>1
  <2>4. Calmer
    BY <2>3 DEF Calmer, Quiet, Resting
  <2>5. Phase'
    BY <1>1, <2>1, <2>3, <2>4, PhaseKept
  <2> QED BY <2>2, <2>5
<1>8. CASE OpenFails
  <2>1. /\ \E how \in {"exhausted", "terminated"} : Over(how)
        /\ UNCHANGED <<todo, constructed, state, stop_condition, sinks, open, thrown>>
    BY <1>8 DEF OpenFails
  <2>2. Common' /\ Calmer
    BY <1>1, <2>1, OverCommon
  <2>3. Phase'
    BY <1>1, <2>1, <2>2, PhaseKept
  <2> QED BY <2>2, <2>3
<1> QED BY <1>3, <1>4, <1>5, <1>6, <1>7, <1>8, Zenon DEF Next

\* main and the threads stay in step, however the process is stopped.
THEOREM LifeCorrect == Spec => []IInv
BY InitInv, NextInv, PTL DEF Spec

\* Only an exception out of main lets a thread use an object that was destroyed, and no
\* thread ever uses a session that was.
THEOREM MisuseExplained == Spec => []MisuseOnlyUnwinding
<1>1. IInv => MisuseOnlyUnwinding
  BY DEF IInv
<1> QED BY LifeCorrect, <1>1, PTL

-----------------------------------------------------------------------------
(* The descriptors of the sessions.                                        *)

\* A session opens nine descriptors and leaves five of them.
LEMMA Sizes == LeftOpen = 5 /\ Closed = 4 /\ PerSession = 9 /\ Descriptors.tcp = 1
BY DEF LeftOpen, Closed, PerSession, Descriptors

\* What is open is what the ended sessions left and what those that are there have.
Counted ==
  /\ fds \in Nat /\ removed \in Nat /\ open \in Nat
  /\ fds = removed * LeftOpen + open * PerSession
  /\ ServerOutlivesReconnects

\* A step that opens and closes nothing.
LEMMA ElseCounted ==
  ASSUME Counted, UNCHANGED <<fds, removed, open>>, outcome' # "exhausted" \/ UNCHANGED outcome
  PROVE  Counted'
BY DEF Counted, ServerOutlivesReconnects

\* A session ends: its socket and its devices are closed, the rest is left.
LEMMA RemoveCounted ==
  ASSUME Counted, RemoveSession, outcome' # "exhausted"
  PROVE  Counted'
<1>1. open > 0 /\ open' = open - 1 /\ fds' = fds - 4 /\ removed' = removed + 1
  BY Sizes DEF RemoveSession, Joinable
<1>2. fds \in Nat /\ removed \in Nat /\ open \in Nat /\ fds = removed * 5 + open * 9
  BY Sizes DEF Counted
<1>3. fds' = (removed + 1) * 5 + (open - 1) * 9
  BY <1>1, <1>2
<1>4. removed' \in Nat /\ open' \in Nat /\ fds' \in Nat
  BY <1>1, <1>2, <1>3
<1> QED BY <1>1, <1>3, <1>4, Sizes DEF Counted, ServerOutlivesReconnects

\* Every step keeps count.
LEMMA NextCounted == ASSUME IInv, Counted, [Next]_vars PROVE Counted'
<1>1. ASSUME NEW o \in Owners,
             \/ InitObject(o) \/ InitThrows(o) \/ Start(o) \/ Stop(o) \/ Destroy(o)
             \/ \E d \in Owners : Attach(o, d)
      PROVE  Counted'
  BY <1>1, ElseCounted
     DEF InitObject, InitThrows, Start, Stop, Destroy, Attach, MainUnchanged
<1>2. CASE Return \/ Interrupt \/ Exit
  BY <1>2, ElseCounted DEF Return, Interrupt, Exit, MainUnchanged, Over
<1>3. ASSUME NEW t \in Threads, ThreadStep(t) \/ Fail(t) PROVE Counted'
  <2>1. UNCHANGED <<fds, removed, open>>
    BY <1>3 DEF ThreadStep, Fail, Leave, Wait, Call, Back, Throw, Sleep, ThreadUnchanged
  <2>2. outcome' \in Owners \/ UNCHANGED outcome
    <3>1. Typed
      BY DEF IInv, Common
    <3>2. CASE Call(t)
      <4>1. sinks[Of(t)] \subseteq Owners
        BY <3>1, ThreadsKnown DEF Typed
      <4> QED BY <3>2, <4>1 DEF Call, Over
    <3>3. CASE Back(t)
      <4>1. inside[t] # None => inside[t] \in Owners
        BY <3>1 DEF Typed
      <4> QED BY <3>3, <4>1 DEF Back, Over
    <3> QED BY <1>3, <3>2, <3>3 DEF ThreadStep, Fail, Leave, Wait, Throw, Sleep
  <2>3. "exhausted" \notin Owners
    BY DEF Owners, Grabbers, Encoders
  <2> QED BY <2>1, <2>2, <2>3, ElseCounted
<1>4. CASE OpenSession
  <2>1. fds' = fds + 9 /\ open' = open + 1 /\ UNCHANGED <<removed, outcome>> /\ outcome = "running"
    BY <1>4, Sizes DEF OpenSession, Listening
  <2>2. fds \in Nat /\ removed \in Nat /\ open \in Nat /\ fds = removed * 5 + open * 9
    BY Sizes DEF Counted
  <2>3. /\ fds' = removed' * 5 + open' * 9
        /\ fds' \in Nat /\ removed' \in Nat /\ open' \in Nat
    BY <2>1, <2>2
  <2> QED BY <2>1, <2>3, Sizes DEF Counted, ServerOutlivesReconnects
<1>5. CASE OpenFails
  <2>1. /\ UNCHANGED <<fds, removed, open>>
        /\ fds + 9 > Limit \/ outcome' = "terminated"
    BY <1>5, Sizes DEF OpenFails, Over
  <2>2. CASE outcome' = "terminated"
    BY <2>1, <2>2, ElseCounted
  <2>3. CASE fds + 9 > Limit
    <3>1. /\ fds \in Nat /\ removed \in Nat /\ open \in Nat /\ Limit \in Nat
          /\ fds = removed * 5 + open * 9
      BY Sizes, ProcessAssumption DEF Counted
    <3>2. removed * 5 + (open + 1) * 9 > Limit
      BY <2>3, <3>1
    <3> QED BY <2>1, <3>1, <3>2, Sizes DEF Counted, ServerOutlivesReconnects
  <2> QED BY <2>1, <2>2, <2>3
<1>6. CASE EndSession \/ EndSessions \/ JoinBlocked \/ ClientReads
  <2>1. /\ outcome' = "running"
        /\ RemoveSession \/ UNCHANGED <<open, fds, removed>>
    BY <1>6 DEF EndSession, EndSessions, JoinBlocked, ClientReads, Listening, At
  <2> QED BY <2>1, RemoveCounted, ElseCounted
<1>7. CASE UNCHANGED vars
  BY <1>7, ElseCounted DEF vars
<1> QED BY <1>1, <1>2, <1>3, <1>4, <1>5, <1>6, <1>7, Zenon DEF Next, MainStep

\* The descriptors add up, however many sessions come and go, one beside the other or one
\* after the other.
THEOREM DescriptorsCorrect == Spec => []Counted
<1>1. Init => Counted
  BY Sizes DEF Init, Counted, ServerOutlivesReconnects
<1>2. IInv /\ Counted /\ [Next]_vars => Counted'
  BY NextCounted
<1> QED BY <1>1, <1>2, LifeCorrect, PTL DEF Spec

\* The server does not end for want of descriptors before those left by the sessions that
\* ended, and those of the sessions that are there, leave too few for one more.
THEOREM ReconnectsOutlived == Spec => []ServerOutlivesReconnects
<1>1. Counted => ServerOutlivesReconnects
  BY DEF Counted
<1> QED BY DescriptorsCorrect, <1>1, PTL
=============================================================================
