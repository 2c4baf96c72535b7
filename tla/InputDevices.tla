---------------------------- MODULE InputDevices ----------------------------
(***************************************************************************)
(* The three virtual devices of a session: a keyboard, a mouse and a       *)
(* gamepad, fed by the datagrams of the client. The keyboard is told of    *)
(* changes, key by key; the mouse and the gamepad are told which of their  *)
(* buttons are down. Datagrams may be lost, duplicated and reordered.      *)
(*                                                                         *)
(* The kernel's view of a device is the set of codes that are down there,  *)
(* changed by the events written to it; the code keeps its own record      *)
(* (pressed_keys, pressed_buttons) and writes an event only for a change.  *)
(*                                                                         *)
(* release(), the thread that times keys and buttons out, is not modelled: *)
(* startRelease starts it only for a device that is initialized, a flag    *)
(* nothing sets (see Start and TypeOK).                                    *)
(***************************************************************************)
EXTENDS Naturals, Sequences, SequencesExt

CONSTANTS
  Keys,          \* scancodes
  Codes,         \* key codes of the kernel
  Code,          \* SDL2LINUX_KEYBOARD: a function from some of the keys to Codes
  Buttons,       \* the bits of a button mask
  MaxInFlight,   \* datagrams on their way
  MaxReports,    \* datagrams the client sends in a session
  Faults         \* "loss", "duplicate", "reorder", "json"

ASSUME InputDevicesAssumption ==
  /\ DOMAIN Code \subseteq Keys
  /\ \A k \in DOMAIN Code : Code[k] \in Codes
  /\ MaxInFlight \in Nat /\ MaxReports \in Nat
  /\ Faults \subseteq {"loss", "duplicate", "reorder", "json"}

Pads == {"mouse", "gamepad"}
Devices == Pads \cup {"keyboard"}

VARIABLES
  session,         \* "none", "ready" (devices exist) or "running"
  held,            \* keys the user holds, as the client last saw them
  present,         \* the client still reports
  reports,         \* datagrams sent in this session
  net,             \* datagrams on their way, oldest first
  pressed_keys, key_device,      \* the keyboard: its record, the kernel's state
  pressed_buttons, pad_device,   \* the pads: likewise
  last_key,        \* what the last setKeyState for each code said (history)
  last_mask,       \* the last mask handed to each pad (history)
  faulted,         \* a datagram was lost, repeated, reordered or half read (history)
  initialized, release_stop_condition

vars == <<session, held, present, reports, net, pressed_keys,
          key_device, pressed_buttons, pad_device, last_key, last_mask,
          faulted, initialized, release_stop_condition>>

userVars == <<held, present>>
deviceVars == <<pressed_keys, key_device, pressed_buttons, pad_device, last_key, last_mask>>
releaseVars == <<initialized, release_stop_condition>>

Blank ==
  /\ pressed_keys = {} /\ key_device = {}
  /\ pressed_buttons = [d \in Pads |-> {}] /\ pad_device = [d \in Pads |-> {}]
  /\ last_key = [c \in Codes |-> FALSE] /\ last_mask = [d \in Pads |-> {}]

Init ==
  /\ session = "none"
  /\ held = {} /\ present = TRUE
  /\ reports = 0 /\ net = <<>> /\ faulted = FALSE
  /\ Blank
  /\ initialized = [d \in Devices |-> FALSE]
  /\ release_stop_condition = [d \in Devices |-> TRUE]

-----------------------------------------------------------------------------
(* The user, the client and the network.                                   *)

\* The client sees the keys now held and the buttons now down on one pad, and
\* sends a datagram: the keys that went down, or all that are down, the keys that
\* went up, and the mask of the pad.
Report(now, repeat, d, mask) ==
  /\ present /\ session = "running"
  /\ Len(net) < MaxInFlight /\ reports < MaxReports
  /\ reports' = reports + 1
  /\ held' = now
  /\ net' = Append(net, <<[kind |-> "k", pressed |-> IF repeat THEN now ELSE now \ held,
                                        released |-> held \ now],
                          [kind |-> d, down |-> mask]>>)
  /\ UNCHANGED <<session, present, deviceVars, faulted, releaseVars>>

Leave ==
  /\ present
  /\ present' = FALSE
  /\ UNCHANGED <<session, held, reports, net, deviceVars, faulted, releaseVars>>

Lose(i) ==
  /\ "loss" \in Faults
  /\ net' = RemoveAt(net, i)
  /\ faulted' = TRUE
  /\ UNCHANGED <<session, userVars, reports, deviceVars, releaseVars>>

-----------------------------------------------------------------------------
(* The life of the session's devices.                                      *)

\* init: the three devices are created with nothing down.
InitDevices ==
  /\ session = "none" /\ present
  /\ session' = "ready"
  /\ UNCHANGED <<userVars, reports, net, deviceVars, faulted, releaseVars>>

\* Mutant: startRelease does not ask whether the device is initialized.
StartAlways ==
  /\ session = "ready"
  /\ session' = "running"
  /\ release_stop_condition' = [d \in Devices |-> FALSE]
  /\ UNCHANGED <<userVars, reports, net, deviceVars, faulted, initialized>>

\* start: the three startRelease, each of which starts its thread only when the
\* device is initialized and the thread does not run already.
Start ==
  /\ session = "ready"
  /\ session' = "running"
  /\ release_stop_condition' =
       [d \in Devices |-> release_stop_condition[d] /\ ~initialized[d]]
  /\ UNCHANGED <<userVars, reports, net, deviceVars, faulted, initialized>>

\* The purge removes the session of a client that was not heard of for long: its
\* devices are destroyed, and what was down goes up. The user has let go before
\* another session starts.
Destroy ==
  /\ session = "running"
  /\ session' = "none"
  /\ held' = {} /\ net' = <<>> /\ reports' = 0 /\ faulted' = FALSE
  /\ pressed_keys' = {} /\ key_device' = {}
  /\ pressed_buttons' = [d \in Pads |-> {}] /\ pad_device' = [d \in Pads |-> {}]
  /\ last_key' = [c \in Codes |-> FALSE] /\ last_mask' = [d \in Pads |-> {}]
  /\ release_stop_condition' = [d \in Devices |-> TRUE]
  /\ UNCHANGED <<present, initialized>>

-----------------------------------------------------------------------------
(* The handling of a datagram by the session thread.                       *)

\* setKeyState for each of a set of mapped codes: they touch different codes, so
\* their order does not matter. Only a change of the record writes an event.
SetCodes(kb, codes, pressed) ==
  LET changes == {c \in codes : pressed # (c \in kb.record)}
  IN [record |-> IF pressed THEN kb.record \cup codes ELSE kb.record \ codes,
      device |-> IF pressed THEN kb.device \cup changes ELSE kb.device \ changes,
      last   |-> [c \in Codes |-> IF c \in codes THEN pressed ELSE kb.last[c]]]

\* Keys that are not in SDL2LINUX_KEYBOARD are skipped.
Mapped(ks) == {Code[k] : k \in ks \cap DOMAIN Code}

\* Mutant: the keys released are never looked at.
KeyboardPressOnly(item) ==
  SetCodes([record |-> pressed_keys, device |-> key_device, last |-> last_key],
           Mapped(item.pressed), TRUE)

\* The keys that went down are handled before those that went up.
Keyboard(item) ==
  SetCodes(SetCodes([record |-> pressed_keys, device |-> key_device, last |-> last_key],
                    Mapped(item.pressed), TRUE),
           Mapped(item.released), FALSE)

\* setButtonStates: the bits that differ from the record become events.
PadDevice(d, down) ==
  {b \in Buttons : IF (b \in down) # (b \in pressed_buttons[d])
                   THEN b \in down ELSE b \in pad_device[d]}

\* Mutant: the buttons that are up are not erased from the record.
SetButtonStatesKeeping(d, down) ==
  /\ pressed_buttons' = [pressed_buttons EXCEPT ![d] = @ \cup down]
  /\ pad_device' = [pad_device EXCEPT ![d] = PadDevice(d, down)]
  /\ last_mask' = [last_mask EXCEPT ![d] = down]

SetButtonStates(d, down) ==
  /\ pressed_buttons' = [pressed_buttons EXCEPT ![d] = down]
  /\ pad_device' = [pad_device EXCEPT ![d] = PadDevice(d, down)]
  /\ last_mask' = [last_mask EXCEPT ![d] = down]

\* The items of a datagram before its first one the parser cannot read: all of
\* them, unless the datagram is malformed.
Readable(datagram) == IF "json" \in Faults THEN 0 .. Len(datagram) ELSE {Len(datagram)}

HandleInputs(i) ==
  LET datagram == net[i]
  IN
  /\ session = "running"
  /\ i = 1 \/ "reorder" \in Faults
  /\ net' = RemoveAt(net, i) \/ ("duplicate" \in Faults /\ net' = net)
  /\ \E n \in Readable(datagram) :
       /\ faulted' = (faulted \/ i > 1 \/ net' = net \/ n < Len(datagram))
       /\ IF n >= 1
          THEN /\ pressed_keys' = Keyboard(datagram[1]).record
               /\ key_device' = Keyboard(datagram[1]).device
               /\ last_key' = Keyboard(datagram[1]).last
          ELSE UNCHANGED <<pressed_keys, key_device, last_key>>
       /\ IF n >= 2
          THEN SetButtonStates(datagram[2].kind, datagram[2].down)
          ELSE UNCHANGED <<pressed_buttons, pad_device, last_mask>>
  /\ UNCHANGED <<session, userVars, reports, releaseVars>>

Next ==
  \/ \E now \in SUBSET Keys, repeat \in BOOLEAN, d \in Pads, mask \in SUBSET Buttons :
       Report(now, repeat, d, mask)
  \/ Leave
  \/ \E i \in DOMAIN net : Lose(i)
  \/ InitDevices \/ Start \/ Destroy
  \/ \E i \in DOMAIN net : HandleInputs(i)

Spec == Init /\ [][Next]_vars

\* The session thread handles what arrives, and the purge removes the session of
\* a client that is gone (DeadSessionsRemoved of SocketServer). Users, clients
\* and the network owe nothing.
FairSpec ==
  /\ Spec
  /\ WF_vars(Start)
  /\ WF_vars(\E i \in DOMAIN net : HandleInputs(i))
  /\ WF_vars(~present /\ Destroy)

-----------------------------------------------------------------------------
(* Properties.                                                             *)

\* The type invariant of a session's devices (the members of VirtualKeyboard,
\* VirtualMouse and VirtualGamepad). That initialized is never set is why
\* release() is left out of Next.
TypeOK ==
  /\ session \in {"none", "ready", "running"}
  /\ held \subseteq Keys
  /\ present \in BOOLEAN /\ faulted \in BOOLEAN
  /\ reports \in 0 .. MaxReports /\ Len(net) <= MaxInFlight
  /\ pressed_keys \subseteq Codes /\ key_device \subseteq Codes
  /\ pressed_buttons \in [Pads -> SUBSET Buttons]
  /\ pad_device \in [Pads -> SUBSET Buttons]
  /\ initialized = [d \in Devices |-> FALSE]
  /\ release_stop_condition = [d \in Devices |-> TRUE]

\* The devices hold down what was last said of each key and of each pad among the
\* datagrams handled: a datagram that is lost, repeated, reordered or half read
\* spoils no later one. An event is written only where the record differs, so that
\* one swallowed because record and kernel disagree would show here.
LastWordCounts ==
  /\ \A c \in Codes : c \in key_device <=> last_key[c]
  /\ pad_device = last_mask

\* The codes down are codes of keys held, and among them is every code that has but
\* one key, if that one is held. (With two keys of one code, letting go of the first
\* releases the second.)
Follows(codes, keys) ==
  /\ codes \subseteq Mapped(keys)
  /\ \A k \in keys \cap DOMAIN Code :
       (\A j \in DOMAIN Code \ {k} : Code[j] # Code[k]) => Code[k] \in codes

\* As long as every datagram came, once, whole and in its turn, the keyboard
\* follows the user whenever all were handled.
InSync == session = "running" /\ net = <<>> /\ ~faulted => Follows(key_device, held)

\* A key that the user no longer holds is released in the end, even if the
\* datagram that says so is lost: what release() and INPUT_RELEASE_DELAY are for.
StaleKeyReleased ==
  \A c \in Codes : (c \in key_device /\ c \notin Mapped(held))
                     ~> (c \notin key_device \/ c \in Mapped(held))

=============================================================================
