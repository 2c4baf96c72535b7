------------------------- MODULE InputDevicesProofs -------------------------
(***************************************************************************)
(* Theorems about InputDevices, for any keys, codes, buttons and faults of *)
(* the network: its types, and that the devices hold down what was last    *)
(* said of each key and button. The latter is inductive together with the  *)
(* agreement of the records with the devices, on which the code relies     *)
(* when it writes an event only for a change.                              *)
(***************************************************************************)
EXTENDS InputDevices, TLAPS

Datagrams ==
  [kind : {"k"}, pressed : SUBSET Keys, released : SUBSET Keys]
    \X [kind : Pads, down : SUBSET Buttons]

NetTyped == net \in Seq(Datagrams)

RecordsAgree == pressed_keys = key_device /\ pressed_buttons = pad_device

Remembered == last_key \in [Codes -> BOOLEAN]

IInv == TypeOK /\ NetTyped /\ RecordsAgree /\ Remembered /\ LastWordCounts

-----------------------------------------------------------------------------
\* The network without one of its datagrams is a network.
LEMMA RemoveAtTyped ==
  ASSUME NEW S, NEW q \in Seq(S), NEW i \in DOMAIN q
  PROVE  RemoveAt(q, i) \in Seq(S) /\ Len(RemoveAt(q, i)) <= Len(q)
<1>1. /\ i \in 1 .. Len(q) /\ Len(q) \in Nat
      /\ SubSeq(q, 1, i - 1) \in Seq(S) /\ Len(SubSeq(q, 1, i - 1)) = i - 1
      /\ SubSeq(q, i + 1, Len(q)) \in Seq(S)
      /\ Len(SubSeq(q, i + 1, Len(q))) = Len(q) - i
  OBVIOUS
<1> QED BY <1>1 DEF RemoveAt

\* Keys that are mapped have codes.
LEMMA MappedCodes ==
  ASSUME NEW ks \in SUBSET Keys
  PROVE  Mapped(ks) \subseteq Codes
BY InputDevicesAssumption DEF Mapped

\* setKeyState keeps record and device the same, and makes them what was said last.
LEMMA SetCodesAgrees ==
  ASSUME NEW kb, NEW codes \in SUBSET Codes, NEW pressed \in BOOLEAN,
         kb.record \subseteq Codes, kb.device = kb.record,
         kb.last \in [Codes -> BOOLEAN],
         \A c \in Codes : c \in kb.device <=> kb.last[c]
  PROVE  LET after == SetCodes(kb, codes, pressed)
         IN /\ after.record \subseteq Codes /\ after.device = after.record
            /\ after.last \in [Codes -> BOOLEAN]
            /\ \A c \in Codes : c \in after.device <=> after.last[c]
<1> DEFINE after == SetCodes(kb, codes, pressed)
           changes == {c \in codes : pressed # (c \in kb.record)}
<1>1. CASE pressed
  <2>1. /\ after.record = kb.record \cup codes
        /\ after.device = kb.device \cup changes
        /\ after.last = [c \in Codes |-> IF c \in codes THEN pressed ELSE kb.last[c]]
    BY <1>1 DEF SetCodes
  <2>2. changes = codes \ kb.record
    BY <1>1
  <2> HIDE DEF after, changes
  <2>3. after.record \subseteq Codes /\ after.device = after.record
    BY <2>1, <2>2
  <2>4. /\ after.last \in [Codes -> BOOLEAN]
        /\ \A c \in Codes : c \in after.device <=> after.last[c]
    BY <1>1, <2>1, <2>2
  <2> QED BY <2>3, <2>4 DEF after
<1>2. CASE ~pressed
  <2>1. /\ after.record = kb.record \ codes
        /\ after.device = kb.device \ changes
        /\ after.last = [c \in Codes |-> IF c \in codes THEN pressed ELSE kb.last[c]]
    BY <1>2 DEF SetCodes
  <2>2. changes = codes \cap kb.record
    BY <1>2
  <2> HIDE DEF after, changes
  <2>3. after.record \subseteq Codes /\ after.device = after.record
    BY <2>1, <2>2
  <2>4. /\ after.last \in [Codes -> BOOLEAN]
        /\ \A c \in Codes : c \in after.device <=> after.last[c]
    BY <1>2, <2>1, <2>2
  <2> QED BY <2>3, <2>4 DEF after
<1> QED BY <1>1, <1>2

\* The invariant holds at the beginning.
LEMMA InitIInv == Init => IInv
<1> SUFFICES ASSUME Init PROVE IInv
  OBVIOUS
<1> USE InputDevicesAssumption DEF Init, Blank
<1>1. TypeOK
  <2>1. /\ pressed_buttons \in [Pads -> SUBSET Buttons]
        /\ pad_device \in [Pads -> SUBSET Buttons]
    OBVIOUS
  <2>2. initialized = [d \in Devices |-> FALSE] /\ release_stop_condition = [d \in Devices |-> TRUE]
    OBVIOUS
  <2>3. present \in BOOLEAN /\ faulted \in BOOLEAN
    OBVIOUS
  <2>4. reports \in 0 .. MaxReports /\ Len(net) <= MaxInFlight
    OBVIOUS
  <2> QED BY <2>1, <2>2, <2>3, <2>4 DEF TypeOK
<1>2. NetTyped /\ RecordsAgree /\ Remembered /\ LastWordCounts
  BY DEF NetTyped, RecordsAgree, Remembered, LastWordCounts
<1> QED BY <1>1, <1>2 DEF IInv

\* A datagram that is applied, to its end or up to where it breaks, keeps the invariant.
LEMMA HandleInputsPreserves ==
  ASSUME IInv, NEW i \in DOMAIN net, HandleInputs(i)
  PROVE  IInv'
<1> USE InputDevicesAssumption
<1> DEFINE datagram == net[i]
<1>1. /\ datagram[1].pressed \in SUBSET Keys /\ datagram[1].released \in SUBSET Keys
      /\ datagram[2].kind \in Pads /\ datagram[2].down \in SUBSET Buttons
  <2>1. datagram \in Datagrams
    BY DEF IInv, NetTyped
  <2> QED BY <2>1 DEF Datagrams
<1>2. /\ net' \in Seq(Datagrams) /\ Len(net') <= Len(net) /\ Len(net) \in Nat
      /\ UNCHANGED <<session, held, present, reports, initialized, release_stop_condition>>
  <2>1. net' = net \/ net' = RemoveAt(net, i)
    BY DEF HandleInputs
  <2> QED
    BY <2>1, RemoveAtTyped DEF IInv, NetTyped, HandleInputs, userVars, releaseVars
<1>3. PICK n \in Readable(datagram) :
        /\ faulted' = (faulted \/ i > 1 \/ net' = net \/ n < Len(datagram))
        /\ IF n >= 1
           THEN /\ pressed_keys' = Keyboard(datagram[1]).record
                /\ key_device' = Keyboard(datagram[1]).device
                /\ last_key' = Keyboard(datagram[1]).last
           ELSE UNCHANGED <<pressed_keys, key_device, last_key>>
        /\ IF n >= 2
           THEN SetButtonStates(datagram[2].kind, datagram[2].down)
           ELSE UNCHANGED <<pressed_buttons, pad_device, last_mask>>
  BY DEF HandleInputs
<1> HIDE DEF datagram
<1>4. /\ pressed_keys' \subseteq Codes /\ key_device' = pressed_keys'
      /\ last_key' \in [Codes -> BOOLEAN]
      /\ \A c \in Codes : c \in key_device' <=> last_key'[c]
  <2>1. /\ pressed_keys \subseteq Codes /\ key_device = pressed_keys
        /\ last_key \in [Codes -> BOOLEAN]
        /\ \A c \in Codes : c \in key_device <=> last_key[c]
    BY DEF IInv, TypeOK, RecordsAgree, Remembered, LastWordCounts
  <2>2. CASE n >= 1
    <3> DEFINE kb == [record |-> pressed_keys, device |-> key_device, last |-> last_key]
               down == SetCodes(kb, Mapped(datagram[1].pressed), TRUE)
               up == SetCodes(down, Mapped(datagram[1].released), FALSE)
    <3>1. /\ down.record \subseteq Codes /\ down.device = down.record
          /\ down.last \in [Codes -> BOOLEAN]
          /\ \A c \in Codes : c \in down.device <=> down.last[c]
      <4>1. /\ kb.record \subseteq Codes /\ kb.device = kb.record
            /\ kb.last \in [Codes -> BOOLEAN]
            /\ \A c \in Codes : c \in kb.device <=> kb.last[c]
        BY <2>1
      <4>2. Mapped(datagram[1].pressed) \in SUBSET Codes
        BY <1>1, MappedCodes
      <4> HIDE DEF kb
      <4> QED BY <4>1, <4>2, SetCodesAgrees
    <3>2. /\ up.record \subseteq Codes /\ up.device = up.record
          /\ up.last \in [Codes -> BOOLEAN]
          /\ \A c \in Codes : c \in up.device <=> up.last[c]
      <4>1. Mapped(datagram[1].released) \in SUBSET Codes
        BY <1>1, MappedCodes
      <4> HIDE DEF down
      <4> QED BY <3>1, <4>1, SetCodesAgrees
    <3>3. Keyboard(datagram[1]) = up
      BY DEF Keyboard
    <3> HIDE DEF up
    <3> QED BY <1>3, <2>2, <3>2, <3>3
  <2>3. CASE ~(n >= 1)
    BY <1>3, <2>1, <2>3
  <2> QED BY <2>2, <2>3
<1>5. /\ pressed_buttons' \in [Pads -> SUBSET Buttons]
      /\ pad_device' = pressed_buttons' /\ last_mask' = pad_device'
  <2>1. /\ pressed_buttons \in [Pads -> SUBSET Buttons]
        /\ pad_device = pressed_buttons /\ last_mask = pad_device
    BY DEF IInv, TypeOK, RecordsAgree, LastWordCounts
  <2>2. CASE n >= 2
    <3>1. SetButtonStates(datagram[2].kind, datagram[2].down)
      BY <1>3, <2>2
    <3>2. PadDevice(datagram[2].kind, datagram[2].down) = datagram[2].down
      BY <1>1, <2>1 DEF PadDevice
    <3> QED BY <1>1, <2>1, <3>1, <3>2 DEF SetButtonStates
  <2>3. CASE ~(n >= 2)
    BY <1>3, <2>1, <2>3
  <2> QED BY <2>2, <2>3
<1>6. TypeOK'
  <2>1. faulted' \in BOOLEAN
    BY <1>3
  <2>2. Len(net') <= MaxInFlight
    BY <1>2 DEF IInv, TypeOK
  <2> QED BY <1>2, <1>4, <1>5, <2>1, <2>2 DEF IInv, TypeOK
<1> QED
  BY <1>2, <1>4, <1>5, <1>6
  DEF IInv, NetTyped, RecordsAgree, Remembered, LastWordCounts

\* Every step of user, network and session keeps the invariant.
LEMMA NextIInv == IInv /\ [Next]_vars => IInv'
<1> SUFFICES ASSUME IInv, [Next]_vars PROVE IInv'
  OBVIOUS
<1> USE InputDevicesAssumption
    DEF NetTyped, RecordsAgree, Remembered, LastWordCounts, userVars, deviceVars, releaseVars
<1>1. ASSUME NEW now \in SUBSET Keys, NEW repeat \in BOOLEAN, NEW d \in Pads,
             NEW mask \in SUBSET Buttons, Report(now, repeat, d, mask)
      PROVE  IInv'
  <2>1. /\ held' = now /\ reports' = reports + 1 /\ reports < MaxReports
        /\ Len(net) < MaxInFlight
        /\ UNCHANGED <<session, present, deviceVars, faulted, releaseVars>>
    BY <1>1 DEF Report
  <2>2. net' \in Seq(Datagrams) /\ Len(net') = Len(net) + 1 /\ Len(net) \in Nat
    <3>1. PICK sent \in Datagrams : net' = Append(net, sent)
      <4> DEFINE k == [kind |-> "k", pressed |-> IF repeat THEN now ELSE now \ held,
                       released |-> held \ now]
                 b == [kind |-> d, down |-> mask]
      <4>1. /\ k \in [kind : {"k"}, pressed : SUBSET Keys, released : SUBSET Keys]
            /\ b \in [kind : Pads, down : SUBSET Buttons]
        BY DEF IInv, TypeOK
      <4>2. net' = Append(net, <<k, b>>)
        BY <1>1 DEF Report
      <4> HIDE DEF k, b
      <4>3. <<k, b>> \in Datagrams
        BY <4>1 DEF Datagrams
      <4> QED BY <4>2, <4>3
    <3> QED BY <3>1 DEF IInv
  <2>3. TypeOK'
    BY <2>1, <2>2 DEF IInv, TypeOK
  <2> QED BY <2>1, <2>2, <2>3 DEF IInv
<1>2. CASE Leave
  BY <1>2 DEF IInv, TypeOK, Leave
<1>3. ASSUME NEW i \in DOMAIN net, Lose(i) PROVE IInv'
  <2>1. net' \in Seq(Datagrams) /\ Len(net') <= Len(net) /\ Len(net) \in Nat
    BY <1>3, RemoveAtTyped DEF IInv, Lose
  <2> QED BY <1>3, <2>1 DEF IInv, TypeOK, Lose
<1>4. CASE InitDevices
  BY <1>4 DEF IInv, TypeOK, InitDevices
<1>5. CASE Start
  BY <1>5 DEF IInv, TypeOK, Start
<1>6. CASE Destroy
  <2>1. TypeOK'
    <3>1. /\ pressed_buttons' \in [Pads -> SUBSET Buttons]
          /\ pad_device' \in [Pads -> SUBSET Buttons]
      BY <1>6 DEF Destroy
    <3>2. /\ initialized' = [d \in Devices |-> FALSE]
          /\ release_stop_condition' = [d \in Devices |-> TRUE]
      BY <1>6 DEF IInv, TypeOK, Destroy
    <3>3. present' \in BOOLEAN /\ faulted' \in BOOLEAN
      BY <1>6 DEF IInv, TypeOK, Destroy
    <3>4. reports' \in 0 .. MaxReports /\ Len(net') <= MaxInFlight
      BY <1>6 DEF Destroy
    <3> QED BY <1>6, <3>1, <3>2, <3>3, <3>4 DEF TypeOK, Destroy
  <2>2. NetTyped' /\ RecordsAgree' /\ Remembered' /\ LastWordCounts'
    BY <1>6 DEF Destroy
  <2> QED BY <2>1, <2>2 DEF IInv
<1>7. ASSUME NEW i \in DOMAIN net, HandleInputs(i) PROVE IInv'
  BY <1>7, HandleInputsPreserves
<1>8. CASE UNCHANGED vars
  BY <1>8 DEF IInv, TypeOK, vars
<1> QED BY <1>1, <1>2, <1>3, <1>4, <1>5, <1>6, <1>7, <1>8 DEF Next

\* The oldest datagram is taken from the network.
LEMMA TakeOldest ==
  ASSUME NEW S, NEW q \in Seq(S), q # <<>>
  PROVE  /\ Len(RemoveAt(q, 1)) = Len(q) - 1
         /\ \A j \in 1 .. Len(q) - 1 : RemoveAt(q, 1)[j] = q[j + 1]
<1>1. Len(q) \in Nat \ {0}
  OBVIOUS
<1>2. RemoveAt(q, 1) = SubSeq(q, 1, 0) \o SubSeq(q, 2, Len(q))
  BY DEF RemoveAt
<1>3. SubSeq(q, 1, 0) \in Seq(S) /\ Len(SubSeq(q, 1, 0)) = 0
  BY <1>1
<1>4. /\ SubSeq(q, 2, Len(q)) \in Seq(S) /\ Len(SubSeq(q, 2, Len(q))) = Len(q) - 1
      /\ \A j \in 1 .. Len(q) - 1 : SubSeq(q, 2, Len(q))[j] = q[j + 1]
  BY <1>1
<1> QED BY <1>1, <1>2, <1>3, <1>4

-----------------------------------------------------------------------------
(* The keyboard follows the user.                                          *)

\* A datagram reports how the keys held went from before to after.
Reports(datagram, before, after) ==
  /\ datagram[1].released = before \ after
  /\ after \ before \subseteq datagram[1].pressed
  /\ datagram[1].pressed \subseteq after

\* While nothing went wrong, the keyboard follows what the user held at some time,
\* and the datagrams on their way tell what the user did since.
Tracked ==
  ~faulted =>
    \E h \in [0 .. Len(net) -> SUBSET Keys] :
      /\ Follows(key_device, h[0])
      /\ \A i \in 1 .. Len(net) : Reports(net[i], h[i - 1], h[i])
      /\ h[Len(net)] = held

\* What the keyboard holds down after a datagram: what was down or is pressed, and
\* is not released.
LEMMA KeyboardDevice ==
  ASSUME IInv, NEW item, Mapped(item.pressed) \subseteq Codes
  PROVE  Keyboard(item).device
           = (key_device \cup Mapped(item.pressed)) \ Mapped(item.released)
<1> DEFINE kb == [record |-> pressed_keys, device |-> key_device, last |-> last_key]
           down == SetCodes(kb, Mapped(item.pressed), TRUE)
<1>1. pressed_keys = key_device
  BY DEF IInv, RecordsAgree
<1>2. down.device = key_device \cup Mapped(item.pressed) /\ down.record = down.device
  BY <1>1 DEF SetCodes
<1>3. Keyboard(item) = SetCodes(down, Mapped(item.released), FALSE)
  BY DEF Keyboard
<1> HIDE DEF down
<1>4. SetCodes(down, Mapped(item.released), FALSE).device
        = down.device \ Mapped(item.released)
  BY <1>2 DEF SetCodes
<1> QED BY <1>2, <1>3, <1>4

\* A keyboard that follows the user goes on to do so with the next datagram.
LEMMA FollowsOn ==
  ASSUME NEW before \in SUBSET Keys, NEW after \in SUBSET Keys,
         NEW datagram \in Datagrams, Reports(datagram, before, after),
         NEW codes, Follows(codes, before)
  PROVE  Follows((codes \cup Mapped(datagram[1].pressed)) \ Mapped(datagram[1].released),
                 after)
<1> DEFINE pressed == datagram[1].pressed
           released == datagram[1].released
<1>1. released = before \ after /\ after \ before \subseteq pressed /\ pressed \subseteq after
  BY DEF Reports
<1> HIDE DEF pressed, released
<1>2. ASSUME NEW c \in codes \cup Mapped(pressed), c \notin Mapped(released)
      PROVE  c \in Mapped(after)
  BY <1>1, <1>2 DEF Mapped, Follows
<1>3. ASSUME NEW k \in after \cap DOMAIN Code,
             \A j \in DOMAIN Code \ {k} : Code[j] # Code[k]
      PROVE  Code[k] \in (codes \cup Mapped(pressed)) \ Mapped(released)
  <2>1. Code[k] \notin Mapped(released)
    BY <1>1, <1>3 DEF Mapped
  <2>2. CASE k \in before
    BY <1>3, <2>1, <2>2 DEF Follows
  <2>3. CASE k \notin before
    BY <1>1, <1>3, <2>1, <2>3 DEF Mapped
  <2> QED BY <2>2, <2>3
<1> QED BY <1>2, <1>3 DEF Follows, pressed, released

\* Nothing is held down and nothing on its way at the beginning of a session.
LEMMA TrackedAtRest ==
  ASSUME held = {}, net = <<>>, key_device = {}
  PROVE  Tracked
<1> DEFINE h == [i \in {0} |-> {}]
<1>1. h \in [0 .. Len(net) -> SUBSET Keys] /\ h[0] = {} /\ Len(net) = 0
  OBVIOUS
<1>2. Follows({}, {})
  BY DEF Follows
<1> HIDE DEF h
<1> QED BY <1>1, <1>2 DEF Tracked

\* The client reports: what the user holds now is one more step.
LEMMA ReportTracked ==
  ASSUME IInv, Tracked, NEW now \in SUBSET Keys, NEW repeat \in BOOLEAN, NEW d \in Pads,
         NEW mask \in SUBSET Buttons, Report(now, repeat, d, mask)
  PROVE  Tracked'
<1> SUFFICES ASSUME ~faulted' PROVE Tracked'
  BY DEF Tracked
<1>1. PICK sent : /\ net' = Append(net, sent)
                  /\ sent[1].released = held \ now
                  /\ sent[1].pressed = IF repeat THEN now ELSE now \ held
  <2> DEFINE sent == <<[kind |-> "k", pressed |-> IF repeat THEN now ELSE now \ held,
                        released |-> held \ now],
                       [kind |-> d, down |-> mask]>>
  <2>1. net' = Append(net, sent)
    BY DEF Report
  <2>2. /\ sent[1].released = held \ now
        /\ sent[1].pressed = IF repeat THEN now ELSE now \ held
    OBVIOUS
  <2> HIDE DEF sent
  <2> QED BY <2>1, <2>2
<1>2. held' = now /\ key_device' = key_device /\ ~faulted
  BY DEF Report, deviceVars
<1>3. /\ Len(net) \in Nat /\ Len(net') = Len(net) + 1 /\ net'[Len(net) + 1] = sent
      /\ \A i \in 1 .. Len(net) : net'[i] = net[i]
  BY <1>1 DEF IInv, NetTyped
<1>4. PICK h \in [0 .. Len(net) -> SUBSET Keys] :
        /\ Follows(key_device, h[0])
        /\ \A i \in 1 .. Len(net) : Reports(net[i], h[i - 1], h[i])
        /\ h[Len(net)] = held
  BY <1>2 DEF Tracked
<1> DEFINE g == [i \in 0 .. Len(net) + 1 |-> IF i = Len(net) + 1 THEN now ELSE h[i]]
<1>5. /\ g \in [0 .. Len(net') -> SUBSET Keys] /\ g[Len(net')] = now
      /\ \A i \in 0 .. Len(net) : g[i] = h[i]
  BY <1>3
<1> HIDE DEF g
<1>6. ASSUME NEW i \in 1 .. Len(net') PROVE Reports(net'[i], g[i - 1], g[i])
  <2>1. CASE i = Len(net) + 1
    <3>1. g[i - 1] = held /\ g[i] = now /\ net'[i] = sent
      BY <1>3, <1>4, <1>5, <2>1
    <3> QED BY <1>1, <3>1 DEF Reports
  <2>2. CASE i # Len(net) + 1
    <3>1. i \in 1 .. Len(net) /\ i - 1 \in 0 .. Len(net) /\ i \in 0 .. Len(net)
      BY <1>3, <2>2
    <3> QED BY <1>3, <1>4, <1>5, <3>1
  <2> QED BY <2>1, <2>2
<1>7. Follows(key_device', g[0])
  <2>1. g[0] = h[0]
    BY <1>3, <1>5
  <2> QED BY <1>2, <1>4, <2>1
<1> QED BY <1>2, <1>5, <1>6, <1>7 DEF Tracked

\* The oldest datagram is handled, whole and once: the keyboard has caught up by one step.
LEMMA HandleInputsTracked ==
  ASSUME IInv, Tracked, NEW i \in DOMAIN net, HandleInputs(i)
  PROVE  Tracked'
<1> SUFFICES ASSUME ~faulted' PROVE Tracked'
  BY DEF Tracked
<1>1. /\ net \in Seq(Datagrams) /\ Len(net) \in Nat /\ i \in 1 .. Len(net)
      /\ net[i] \in Datagrams
  BY DEF IInv, NetTyped
<1>2. Len(net[i]) = 2
  BY <1>1 DEF Datagrams
<1>3. PICK n \in Readable(net[i]) :
        /\ faulted' = (faulted \/ i > 1 \/ net' = net \/ n < Len(net[i]))
        /\ n >= 1 => key_device' = Keyboard(net[i][1]).device
  BY DEF HandleInputs
<1>4. n \in 0 .. 2
  BY <1>2, <1>3 DEF Readable
<1>5. ~faulted /\ i = 1 /\ net' # net /\ n >= 1
  <2>1. ~faulted /\ ~(i > 1) /\ net' # net /\ ~(n < Len(net[i]))
    BY <1>3, Zenon
  <2> QED BY <1>1, <1>2, <1>4, <2>1
<1>6. /\ Len(net') = Len(net) - 1
      /\ \A j \in 1 .. Len(net) - 1 : net'[j] = net[j + 1]
  <2>1. net' = RemoveAt(net, 1) /\ net # <<>>
    BY <1>1, <1>5 DEF HandleInputs
  <2> QED BY <1>1, <2>1, TakeOldest
<1>7. held' = held
  BY DEF HandleInputs, userVars
<1>8. PICK h \in [0 .. Len(net) -> SUBSET Keys] :
        /\ Follows(key_device, h[0])
        /\ \A j \in 1 .. Len(net) : Reports(net[j], h[j - 1], h[j])
        /\ h[Len(net)] = held
  BY <1>5 DEF Tracked
<1>9. Follows(key_device', h[1])
  <2>1. Reports(net[1], h[0], h[1]) /\ h[0] \in SUBSET Keys /\ h[1] \in SUBSET Keys
        /\ net[1] \in Datagrams
    BY <1>1, <1>5, <1>8
  <2>2. Mapped(net[1][1].pressed) \subseteq Codes
    <3>1. net[1][1].pressed \in SUBSET Keys
      BY <2>1 DEF Datagrams
    <3> QED BY <3>1, MappedCodes
  <2>3. key_device' = (key_device \cup Mapped(net[1][1].pressed))
                        \ Mapped(net[1][1].released)
    BY <1>3, <1>5, <2>2, KeyboardDevice
  <2> QED BY <1>8, <2>1, <2>3, FollowsOn
<1> DEFINE g == [j \in 0 .. Len(net) - 1 |-> h[j + 1]]
<1>10. /\ g \in [0 .. Len(net') -> SUBSET Keys] /\ g[0] = h[1] /\ g[Len(net')] = held
       /\ \A j \in 0 .. Len(net) - 1 : g[j] = h[j + 1]
  BY <1>1, <1>6, <1>8
<1> HIDE DEF g
<1>11. ASSUME NEW j \in 1 .. Len(net') PROVE Reports(net'[j], g[j - 1], g[j])
  <2>1. /\ j \in 1 .. Len(net) - 1 /\ j - 1 \in 0 .. Len(net) - 1 /\ j \in 0 .. Len(net) - 1
        /\ j + 1 \in 1 .. Len(net)
    BY <1>1, <1>6
  <2>2. net'[j] = net[j + 1] /\ g[j - 1] = h[j] /\ g[j] = h[j + 1]
    BY <1>6, <1>10, <2>1
  <2> QED BY <1>8, <2>1, <2>2
<1> QED BY <1>7, <1>9, <1>10, <1>11 DEF Tracked

\* Every step of user, network and session keeps track of the keys.
LEMMA NextTracked == IInv /\ Tracked /\ [Next]_vars => Tracked'
<1> SUFFICES ASSUME IInv, Tracked, [Next]_vars PROVE Tracked'
  OBVIOUS
<1>1. ASSUME UNCHANGED <<held, net, faulted, key_device>> PROVE Tracked'
  BY <1>1 DEF Tracked
<1>2. CASE \E now \in SUBSET Keys, repeat \in BOOLEAN, d \in Pads, mask \in SUBSET Buttons :
             Report(now, repeat, d, mask)
  BY <1>2, ReportTracked
<1>3. CASE \E i \in DOMAIN net : Lose(i)
  BY <1>3 DEF Lose, Tracked
<1>4. CASE Destroy
  <2>1. held' = {} /\ net' = <<>> /\ key_device' = {}
    BY <1>4 DEF Destroy
  <2> DEFINE h == [i \in {0} |-> {}]
  <2>2. h \in [0 .. Len(net') -> SUBSET Keys] /\ h[0] = {} /\ Len(net') = 0
    BY <2>1
  <2>3. Follows({}, {})
    BY DEF Follows
  <2> HIDE DEF h
  <2> QED BY <2>1, <2>2, <2>3 DEF Tracked
<1>5. CASE Leave \/ InitDevices \/ Start \/ UNCHANGED vars
  BY <1>1, <1>5 DEF Leave, InitDevices, Start, vars, userVars, deviceVars
<1>6. CASE \E i \in DOMAIN net : HandleInputs(i)
  BY <1>6, HandleInputsTracked
<1> QED BY <1>2, <1>3, <1>4, <1>5, <1>6 DEF Next

-----------------------------------------------------------------------------
\* The inductive invariant of the devices: the records agree with the kernel.
THEOREM DevicesCorrect == Spec => []IInv
BY InitIInv, NextIInv, PTL DEF Spec

\* The devices keep their types, and no release thread ever starts (startRelease).
THEOREM TypeCorrect == Spec => []TypeOK
<1>1. IInv => TypeOK
  BY DEF IInv
<1> QED BY <1>1, DevicesCorrect, PTL

\* The last word counts, whatever the network did before (setKeyState,
\* setButtonStates, handleInputs).
THEOREM LastWordCorrect == Spec => []LastWordCounts
<1>1. IInv => LastWordCounts
  BY DEF IInv
<1> QED BY <1>1, DevicesCorrect, PTL

\* While no datagram was lost, repeated, overtaken or cut short, the keyboard and the
\* datagrams on their way tell together what the user holds (handleInputs).
THEOREM TrackingCorrect == Spec => []Tracked
<1>1. Init => Tracked
  BY TrackedAtRest DEF Init, Blank
<1> QED BY <1>1, NextTracked, DevicesCorrect, PTL DEF Spec

\* Then a keyboard that has handled all of them follows the user (setKeyState).
THEOREM KeyboardFollows == Spec => []InSync
<1>1. IInv /\ Tracked => InSync
  BY DEF InSync, Tracked
<1> QED BY <1>1, DevicesCorrect, TrackingCorrect, PTL
=============================================================================
