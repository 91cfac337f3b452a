------------------------------ MODULE Commands ------------------------------
(***************************************************************************)
(* How commands reach ControlTask.  Two tasks put them into commandQueue:  *)
(* CliTask, from the lines it edits (main.cpp, diagnostics.cpp), and       *)
(* NetworkTask, from the messages of the MQTT session (mqtt_manager.cpp,   *)
(* remote_command.cpp).                                                    *)
(*                                                                         *)
(* The serial line, the session and the broker are external.  What         *)
(* ControlTask does with a command is Controller's subject.                *)
(***************************************************************************)
EXTENDS Clock, SequencesExt

CONSTANTS
  Characters,          \* the printable characters
  Vocabulary,          \* the command of each known line
  BufferSize,          \* CLI_BUFFER_SIZE
  MaxKeys,             \* bound on the keys pressed for one line
  Messages,            \* what a command topic may carry
  InboxLength,         \* bound on the messages under way to the device
  CommandQueueLength,  \* COMMAND_QUEUE_LENGTH
  Holdoff,             \* MQTT_COMMAND_HOLDOFF_MS
  MaxDelivery          \* longest delivery of a retained message after subscribing

ASSUME CommandsAssumption ==
  /\ Characters \cap {"erase"} = {}
  /\ BufferSize \in Nat \ {0} /\ MaxKeys \in Nat
  /\ InboxLength \in Nat \ {0} /\ CommandQueueLength \in Nat \ {0}
  /\ Holdoff \in Millis /\ MaxDelivery \in Nat

VARIABLES
  editor,        \* CliTask: its buffer up to index, and the overflow flag
  keys,          \* the keys pressed since the last line ended
  request,       \* the command CliTask is waiting to put into the queue
  commands,      \* commandQueue
  millis,        \* millis()
  session,       \* "down", "subscribing" or "up"
  topics,        \* the command topics the session is subscribed to
  inbox,         \* the messages under way to the device
  subscribedAt,  \* subscribedAtMs
  age            \* real time since subscribedAtMs was stamped, up to Wrap

cli == <<editor, keys, request>>
mqtt == <<session, topics, inbox, subscribedAt>>
time == <<millis, age>>
vars == <<cli, commands, mqtt, time>>

EmptyLine == [line |-> <<>>, overflow |-> FALSE]
CliRequests == {"RESET", "ACK"}
Topics == {"reset", "ack"}

Init ==
  /\ editor = EmptyLine /\ keys = <<>> /\ request = "NONE"
  /\ commands = <<>>
  /\ session = "down" /\ topics = {} /\ inbox = <<>>
  /\ millis = 0 /\ subscribedAt = 0 /\ age = Wrap

-----------------------------------------------------------------------------
(***************************************************************************)
(* CliTask.                                                                *)
(***************************************************************************)

\* Faulty variant: erasing a character makes the line fit again.
PressBug(e, key) ==
  IF key = "erase"
    THEN IF e.line = <<>> THEN e ELSE [line |-> Front(e.line), overflow |-> FALSE]
    ELSE IF Len(e.line) < BufferSize - 1
           THEN [e EXCEPT !.line = Append(@, key)] ELSE [e EXCEPT !.overflow = TRUE]

\* Faulty variant: a line may fill the buffer, without room for the NUL.
PressBugTerminator(e, key) ==
  IF key = "erase"
    THEN IF e.line = <<>> THEN e ELSE [e EXCEPT !.line = Front(@)]
    ELSE IF Len(e.line) < BufferSize
           THEN [e EXCEPT !.line = Append(@, key)] ELSE [e EXCEPT !.overflow = TRUE]

\* Erasing shortens the line, a character that does not fit is lost and remembered
\* as an overflow.  Other control characters are ignored.
Press(e, key) ==
  IF key = "erase"
    THEN IF e.line = <<>> THEN e ELSE [e EXCEPT !.line = Front(@)]
    ELSE IF Len(e.line) < BufferSize - 1
           THEN [e EXCEPT !.line = Append(@, key)] ELSE [e EXCEPT !.overflow = TRUE]

PressKey(key) ==
  /\ request = "NONE" /\ Len(keys) < MaxKeys
  /\ editor' = Press(editor, key)
  /\ keys' = Append(keys, key)
  /\ UNCHANGED <<request, commands, mqtt, time>>

\* diagnosticsParseCommand()
ParseCommand(line) ==
  IF line \in DOMAIN Vocabulary THEN Vocabulary[line] ELSE "NONE"

\* CR or LF.  On an empty line it does nothing; the commands that print a report
\* are Reporting's subject.
EndLine ==
  /\ request = "NONE" /\ keys # <<>>
  /\ request' = IF ~editor.overflow /\ ParseCommand(editor.line) \in CliRequests
                  THEN ParseCommand(editor.line) ELSE "NONE"
  /\ editor' = EmptyLine
  /\ keys' = <<>>
  /\ UNCHANGED <<commands, mqtt, time>>

\* requestCommand(): waits for room in the queue, for a while.
SendRequest ==
  /\ request # "NONE" /\ Len(commands) < CommandQueueLength
  /\ commands' = Append(commands, request)
  /\ request' = "NONE"
  /\ UNCHANGED <<editor, keys, mqtt, time>>

RequestTimeout ==
  /\ request # "NONE" /\ Len(commands) = CommandQueueLength
  /\ request' = "NONE"
  /\ UNCHANGED <<editor, keys, commands, mqtt, time>>

-----------------------------------------------------------------------------
(***************************************************************************)
(* NetworkTask and the broker.                                             *)
(***************************************************************************)

\* A message that was retained by the broker, and is still to be handled.
RetainedPending ==
  session = "subscribing" \/ \E i \in DOMAIN inbox : inbox[i].retained

Advance ==
  /\ RetainedPending => age < MaxDelivery
  /\ millis' = Later(millis)
  /\ age' = IF age < Wrap THEN age + 1 ELSE age
  /\ UNCHANGED <<cli, commands, mqtt>>

\* Faulty variant: the time of an earlier session is kept.
OpenSessionBug ==
  /\ session = "down"
  /\ session' = "subscribing"
  /\ age' = 0
  /\ UNCHANGED <<cli, commands, topics, inbox, subscribedAt, millis>>

\* mqttManagerConnect() up to its SUBSCRIBEs; Network says when it is called.
OpenSession ==
  /\ session = "down"
  /\ session' = "subscribing"
  /\ subscribedAt' = millis /\ age' = 0
  /\ UNCHANGED <<cli, commands, topics, inbox, millis>>

\* A failed subscription is only logged; the broker delivers what it retained.
Subscribe ==
  /\ session = "subscribing"
  /\ session' = "up"
  /\ topics' \in SUBSET Topics
  /\ inbox' \in {<<>>} \cup
       {<<[message |-> m, retained |-> TRUE]>> : m \in {n \in Messages : n.topic \in topics'}}
  /\ UNCHANGED <<cli, commands, subscribedAt, time>>

DropSession ==
  /\ session # "down"
  /\ session' = "down" /\ topics' = {} /\ inbox' = <<>>
  /\ UNCHANGED <<cli, commands, subscribedAt, time>>

\* An operator publishes on a command topic.
Publish(m) ==
  /\ session = "up" /\ m.topic \in topics /\ Len(inbox) < InboxLength
  /\ inbox' = Append(inbox, [message |-> m, retained |-> FALSE])
  /\ UNCHANGED <<cli, commands, session, topics, subscribedAt, time>>

\* parseRemoteCommand(): the topic and exactly its own word.
Accepted(m) == m.topic \in Topics /\ m.payload = m.topic

\* The types of the commands that came over MQTT.
RemoteType(m) == IF m.topic = "reset" THEN "REMOTE_RESET" ELSE "REMOTE_ACK"

\* Faulty variant: the end of the window is computed, and may overflow.
InHoldoffBug(now) == now < subscribedAt + Holdoff

\* commandInHoldoff()
InHoldoff(now) == Elapsed(now, subscribedAt) < Holdoff

\* mqttManagerLoop() runs mqttCallback() on a message, which does not wait for room.
HandleMessage ==
  /\ session = "up" /\ inbox # <<>>
  /\ LET message == Head(inbox).message
         room == Len(commands) < CommandQueueLength
     IN  commands' = IF Accepted(message) /\ ~InHoldoff(millis) /\ room
                       THEN Append(commands, RemoteType(message)) ELSE commands
  /\ inbox' = Tail(inbox)
  /\ UNCHANGED <<cli, session, topics, subscribedAt, time>>

\* ControlTask takes a command.
TakeCommand ==
  /\ commands # <<>>
  /\ commands' = Tail(commands)
  /\ UNCHANGED <<cli, mqtt, time>>

-----------------------------------------------------------------------------
Next ==
  \/ \E key \in Characters \cup {"erase"} : PressKey(key)
  \/ EndLine \/ SendRequest \/ RequestTimeout
  \/ Advance
  \/ OpenSession \/ Subscribe \/ DropSession
  \/ \E m \in Messages : Publish(m)
  \/ HandleMessage \/ TakeCommand

Spec == Init /\ [][Next]_vars

-----------------------------------------------------------------------------
(***************************************************************************)
(* Properties.                                                             *)
(***************************************************************************)

\* The variables hold what the code's types and buffer lengths allow.
TypeOK ==
  /\ editor \in [line : Seq(Characters), overflow : BOOLEAN]
  /\ Len(editor.line) < BufferSize
  /\ keys \in Seq(Characters \cup {"erase"})
  /\ request \in CliRequests \cup {"NONE"}
  /\ commands \in Seq({"RESET", "ACK", "REMOTE_RESET", "REMOTE_ACK"})
  /\ Len(commands) <= CommandQueueLength
  /\ session \in {"down", "subscribing", "up"} /\ topics \subseteq Topics
  /\ inbox \in Seq([message : Messages, retained : BOOLEAN]) /\ Len(inbox) <= InboxLength
  /\ {millis, subscribedAt} \subseteq Millis /\ age \in 0 .. Wrap

\* The lines these keys write on paper, where there is room: after none of them,
\* after the first, and so on.
Edit(line, key) ==
  IF key # "erase" THEN Append(line, key)
  ELSE IF line = <<>> THEN line ELSE Front(line)

Drafts(pressed) ==
  LET draft[n \in 0 .. Len(pressed)] ==
        IF n = 0 THEN <<>> ELSE Edit(draft[n - 1], pressed[n])
  IN  draft

\* Whether the line ever outgrew the buffer.
Outgrown(pressed) ==
  \E n \in 1 .. Len(pressed) : Len(Drafts(pressed)[n]) >= BufferSize

\* What the operator asked for: nothing if the line was ever too long.
Meant(pressed) ==
  IF Outgrown(pressed) THEN "NONE" ELSE ParseCommand(Drafts(pressed)[Len(pressed)])

\* At the end of a line CliTask requests the reset or acknowledgement that the
\* operator typed and edited, and nothing else: a line that was too long at any
\* time requests nothing, whatever was erased later.
RequestsWhatWasMeant ==
  keys # <<>> /\ keys' = <<>> =>
    request' = IF Meant(keys) \in CliRequests THEN Meant(keys) ELSE "NONE"

CliRequestsWhatWasTyped == [][RequestsWhatWasMeant]_vars

\* A command the broker had retained is dropped when the device subscribes
\* (mqttCallback).
RetainedIsDropped ==
  Len(commands') > Len(commands) /\ request' = request => ~Head(inbox).retained

RetainedCommandsAreDropped == [][RetainedIsDropped]_vars

\* A well-formed command that arrives later than the hold-off after subscribing,
\* across the wrap of millis() and up to its whole range, is queued if there is
\* room (commandInHoldoff).
LiveIsQueued ==
  inbox # <<>> /\ inbox' = Tail(inbox) /\ session' = "up" =>
    LET message == Head(inbox).message
    IN  /\ Accepted(message) /\ Len(commands) < CommandQueueLength
        /\ Holdoff <= age /\ age < Wrap
        => commands' = Append(commands, RemoteType(message))

LiveCommandsAct == [][LiveIsQueued]_vars

-----------------------------------------------------------------------------
(***************************************************************************)
(* The inductive invariant behind these properties.                        *)
(***************************************************************************)

\* The buffer holds what is on paper, until that outgrows it.
EditorFollows ==
  /\ editor.overflow <=> Outgrown(keys)
  /\ ~editor.overflow => editor.line = Drafts(keys)[Len(keys)]

\* Messages are under way only to a session that is up.
InboxIsOfSession == session # "up" => inbox = <<>>

\* What the broker retained comes in time.
RetainedComesSoon == RetainedPending => age <= MaxDelivery

\* The unsigned subtraction is the real time, until that is the whole range.
HoldoffIsReal == age < Wrap => Elapsed(millis, subscribedAt) = age

IInv == TypeOK /\ EditorFollows /\ InboxIsOfSession /\ RetainedComesSoon /\ HoldoffIsReal
=============================================================================
