--------------------------- MODULE CommandsProofs ---------------------------
(***************************************************************************)
(* Proofs about Commands, for every vocabulary, buffer, queue, set of      *)
(* messages, hold-off and range of millis() that its assumptions allow.    *)
(***************************************************************************)
EXTENDS Commands, BasicLemmas, SequenceTheorems

USE DEF cli, mqtt, time

CommandTypes == {"RESET", "ACK", "REMOTE_RESET", "REMOTE_ACK"}

\* A key leaves a line that fits the buffer, its terminator included.
LEMMA PressType ==
  ASSUME NEW e \in [line : Seq(Characters), overflow : BOOLEAN],
         Len(e.line) < BufferSize, NEW key \in Characters \cup {"erase"}
  PROVE  /\ Press(e, key) \in [line : Seq(Characters), overflow : BOOLEAN]
         /\ Len(Press(e, key).line) < BufferSize
<1>1. BufferSize \in Nat /\ e.line \in Seq(Characters) /\ Len(e.line) \in Nat
  BY CommandsAssumption
<1>2. CASE key = "erase" /\ e.line = <<>>
  BY <1>2 DEF Press
<1>3. CASE key = "erase" /\ e.line # <<>>
  <2>1. /\ Front(e.line) \in Seq(Characters)
        /\ Len(Front(e.line)) = Len(e.line) - 1
    <3> DEFINE n == Len(e.line) - 1
    <3>1. n \in Nat /\ \A i \in 1 .. n : e.line[i] \in Characters
      BY <1>1, <1>3
    <3> HIDE DEF n
    <3>2. /\ SubSeq(e.line, 1, n) \in Seq(Characters)
          /\ Len(SubSeq(e.line, 1, n)) = n
      <4>1. 1 \in Int /\ n \in Int
        BY <3>1
      <4>2. /\ SubSeq(e.line, 1, n) \in Seq(Characters)
            /\ Len(SubSeq(e.line, 1, n)) = IF 1 <= n THEN n - 1 + 1 ELSE 0
        BY <3>1, <4>1, SubSeqProperties
      <4> QED
        BY <3>1, <4>2
    <3> QED
      BY <3>2 DEF Front, n
  <2>2. Press(e, key) = [e EXCEPT !.line = Front(e.line)]
    BY <1>3 DEF Press
  <2> QED
    BY <1>1, <2>1, <2>2
<1>4. CASE key # "erase" /\ Len(e.line) < BufferSize - 1
  <2>1. key \in Characters
    BY <1>4
  <2>2. Press(e, key) = [e EXCEPT !.line = Append(e.line, key)]
    BY <1>4 DEF Press
  <2>3. Append(e.line, key) \in Seq(Characters) /\ Len(Append(e.line, key)) = Len(e.line) + 1
    BY <1>1, <2>1
  <2> QED
    BY <1>1, <1>4, <2>2, <2>3
<1>5. CASE key # "erase" /\ ~(Len(e.line) < BufferSize - 1)
  BY <1>5 DEF Press
<1> QED
  BY <1>2, <1>3, <1>4, <1>5

-----------------------------------------------------------------------------
(***************************************************************************)
(* The line on paper, by induction over the keys.                          *)
(***************************************************************************)

AreDrafts(draft, pressed, last) ==
  draft = [n \in 0 .. last |-> IF n = 0 THEN <<>> ELSE Edit(draft[n - 1], pressed[n])]

\* The recursive function exists: it is built up key by key.
LEMMA DraftsExist ==
  ASSUME NEW pressed, Len(pressed) \in Nat
  PROVE  AreDrafts(Drafts(pressed), pressed, Len(pressed))
<1> DEFINE Built == {last \in Nat : \E draft : AreDrafts(draft, pressed, last)}
<1>1. 0 \in Built
  <2>1. AreDrafts([n \in 0 .. 0 |-> <<>>], pressed, 0)
    BY DEF AreDrafts
  <2> QED
    BY <2>1
<1>2. ASSUME NEW last \in Nat, last \in Built PROVE last + 1 \in Built
  <2>1. PICK draft : AreDrafts(draft, pressed, last)
    BY <1>2
  <2> DEFINE longer == [n \in 0 .. last + 1 |->
                          IF n <= last THEN draft[n] ELSE Edit(draft[last], pressed[n])]
  <2>2. \A n \in 0 .. last + 1 :
          longer[n] = IF n = 0 THEN <<>> ELSE Edit(longer[n - 1], pressed[n])
    <3>1. \A n \in 0 .. last : longer[n] = draft[n]
      OBVIOUS
    <3>2. longer[last + 1] = Edit(draft[last], pressed[last + 1])
      OBVIOUS
    <3>3. \A n \in 0 .. last : n # 0 => n - 1 \in 0 .. last
      OBVIOUS
    <3>4. \A n \in 0 .. last :
            draft[n] = IF n = 0 THEN <<>> ELSE Edit(draft[n - 1], pressed[n])
      BY <2>1 DEF AreDrafts
    <3> HIDE DEF longer
    <3>5. /\ last + 1 # 0 /\ (last + 1) - 1 = last /\ last \in 0 .. last
          /\ \A n \in 0 .. last + 1 : n \in 0 .. last \/ n = last + 1
      OBVIOUS
    <3> QED
      BY <3>1, <3>2, <3>3, <3>4, <3>5
  <2>3. longer = [n \in 0 .. last + 1 |-> longer[n]]
    OBVIOUS
  <2> HIDE DEF longer
  <2>4. AreDrafts(longer, pressed, last + 1)
    BY <2>2, <2>3 DEF AreDrafts
  <2> QED
    BY <2>4
<1> HIDE DEF Built
<1>3. \A last \in Nat : last \in Built
  BY <1>1, <1>2, Induction
<1>4. \E draft : AreDrafts(draft, pressed, Len(pressed))
  BY <1>3 DEF Built
<1> QED
  BY <1>4 DEF Drafts, AreDrafts

\* One more key leaves what was written before it, and edits the last of it.
LEMMA DraftsExtend ==
  ASSUME NEW S, NEW pressed \in Seq(S), NEW key \in S
  PROVE  LET longer == Append(pressed, key)
         IN  /\ \A n \in 0 .. Len(pressed) : Drafts(longer)[n] = Drafts(pressed)[n]
             /\ Drafts(longer)[Len(longer)] = Edit(Drafts(pressed)[Len(pressed)], key)
<1> DEFINE longer == Append(pressed, key)
<1>1. /\ Len(pressed) \in Nat /\ Len(longer) = Len(pressed) + 1
      /\ longer[Len(longer)] = key
      /\ \A n \in 1 .. Len(pressed) : longer[n] = pressed[n]
  OBVIOUS
<1>2. /\ AreDrafts(Drafts(pressed), pressed, Len(pressed))
      /\ AreDrafts(Drafts(longer), longer, Len(pressed) + 1)
  <2> HIDE DEF longer
  <2>1. Len(pressed) \in Nat /\ Len(longer) \in Nat
    BY <1>1
  <2> QED
    BY <1>1, <2>1, DraftsExist
<1> HIDE DEF longer
<1> DEFINE old == Drafts(pressed)
           new == Drafts(longer)
           Same == {n \in Nat : n <= Len(pressed) => new[n] = old[n]}
<1>3. \A n \in 0 .. Len(pressed) :
        old[n] = IF n = 0 THEN <<>> ELSE Edit(old[n - 1], pressed[n])
  BY <1>2 DEF AreDrafts
<1>4. \A n \in 0 .. Len(pressed) + 1 :
        new[n] = IF n = 0 THEN <<>> ELSE Edit(new[n - 1], longer[n])
  BY <1>2 DEF AreDrafts
<1> HIDE DEF old, new
<1>5. 0 \in Same
  BY <1>1, <1>3, <1>4
<1>6. ASSUME NEW n \in Nat, n \in Same PROVE n + 1 \in Same
  <2> SUFFICES ASSUME n + 1 <= Len(pressed) PROVE new[n + 1] = old[n + 1]
    OBVIOUS
  <2>1. n + 1 \in 1 .. Len(pressed) /\ n + 1 # 0 /\ (n + 1) - 1 = n
    BY <1>1
  <2>2. new[n] = old[n]
    BY <1>1, <1>6
  <2>3. old[n + 1] = Edit(old[n], pressed[n + 1])
    BY <1>1, <1>3, <2>1
  <2>4. new[n + 1] = Edit(new[n], longer[n + 1])
    BY <1>1, <1>4, <2>1
  <2> QED
    BY <1>1, <2>1, <2>2, <2>3, <2>4
<1> HIDE DEF Same
<1>7. \A n \in Nat : n \in Same
  BY <1>5, <1>6, Induction
<1>8. \A n \in 0 .. Len(pressed) : new[n] = old[n]
  BY <1>7 DEF Same
<1>9. new[Len(longer)] = Edit(old[Len(pressed)], key)
  <2>1. new[Len(pressed) + 1] = Edit(new[Len(pressed)], longer[Len(pressed) + 1])
    BY <1>1, <1>4
  <2> QED
    BY <1>1, <1>8, <2>1
<1> QED
  BY <1>8, <1>9 DEF longer, old, new

\* No key, no line.
LEMMA DraftsOfNothing == ~Outgrown(<<>>) /\ Drafts(<<>>)[Len(<<>>)] = <<>>
<1>1. Len(<<>>) = 0
  OBVIOUS
<1>2. AreDrafts(Drafts(<<>>), <<>>, 0)
  BY <1>1, DraftsExist
<1>3. Drafts(<<>>)[0] = <<>>
  BY <1>2 DEF AreDrafts
<1> QED
  BY <1>1, <1>3 DEF Outgrown

\* The buffer follows the paper with every key.
LEMMA EditorFollowsKey ==
  ASSUME TypeOK, EditorFollows, NEW key \in Characters \cup {"erase"}, PressKey(key)
  PROVE  EditorFollows'
<1>1. /\ keys \in Seq(Characters \cup {"erase"}) /\ keys' = Append(keys, key)
      /\ editor \in [line : Seq(Characters), overflow : BOOLEAN]
      /\ Len(editor.line) < BufferSize /\ BufferSize \in Nat
      /\ editor' = Press(editor, key)
  BY CommandsAssumption DEF TypeOK, PressKey
<1>2. /\ \A n \in 0 .. Len(keys) : Drafts(keys')[n] = Drafts(keys)[n]
      /\ Drafts(keys')[Len(keys')] = Edit(Drafts(keys)[Len(keys)], key)
      /\ Len(keys') = Len(keys) + 1 /\ Len(keys) \in Nat
  BY <1>1, DraftsExtend
<1> DEFINE draft == Drafts(keys')[Len(keys')]
<1>3. Outgrown(keys') <=> Outgrown(keys) \/ Len(draft) >= BufferSize
  <2>1. \A n \in 1 .. Len(keys') : n \in 1 .. Len(keys) \/ n = Len(keys')
    BY <1>2
  <2>2. \A n \in 1 .. Len(keys) : n \in 1 .. Len(keys') /\ n \in 0 .. Len(keys)
    BY <1>2
  <2>3. Len(keys') \in 1 .. Len(keys')
    BY <1>2
  <2> QED
    BY <1>2, <2>1, <2>2, <2>3 DEF Outgrown
<1>4. CASE editor.overflow
  <2>1. editor'.overflow
    BY <1>1, <1>4 DEF Press
  <2> QED
    BY <1>3, <1>4, <2>1 DEF EditorFollows
<1>5. CASE ~editor.overflow
  <2>1. ~Outgrown(keys) /\ draft = Edit(editor.line, key)
    BY <1>2, <1>5 DEF EditorFollows
  <2> HIDE DEF draft
  <2>2. /\ editor'.overflow <=> Len(draft) >= BufferSize
        /\ ~editor'.overflow => editor'.line = draft
    <3>1. CASE key = "erase" /\ editor.line = <<>>
      BY <1>1, <1>5, <2>1, <3>1 DEF Press, Edit
    <3>2. CASE key = "erase" /\ editor.line # <<>>
      <4>1. editor'.line = draft /\ ~editor'.overflow /\ draft = Front(editor.line)
        BY <1>1, <1>5, <2>1, <3>2 DEF Press, Edit
      <4>2. Len(Front(editor.line)) < BufferSize
        BY <1>1, <3>2, PressType, <4>1
      <4>3. Len(draft) < BufferSize /\ Len(draft) \in Nat
        BY <1>1, <4>1, <4>2, PressType
      <4> QED
        BY <1>1, <4>1, <4>3
    <3>3. CASE key # "erase"
      <4>1. draft = Append(editor.line, key) /\ Len(draft) = Len(editor.line) + 1
        BY <1>1, <2>1, <3>3 DEF Edit
      <4>2. CASE Len(editor.line) < BufferSize - 1
        BY <1>1, <1>5, <3>3, <4>1, <4>2 DEF Press
      <4>3. CASE ~(Len(editor.line) < BufferSize - 1)
        BY <1>1, <3>3, <4>1, <4>3 DEF Press
      <4> QED
        BY <4>2, <4>3
    <3> QED
      BY <3>1, <3>2, <3>3
  <2> QED
    BY <1>3, <2>1, <2>2 DEF EditorFollows, draft
<1> QED
  BY <1>4, <1>5

-----------------------------------------------------------------------------
(***************************************************************************)
(* The inductive invariant.                                                *)
(***************************************************************************)

LEMMA InitInvariant == Init => IInv
<1> SUFFICES ASSUME Init PROVE IInv
  OBVIOUS
<1>1. millis \in Millis /\ subscribedAt \in Millis /\ age \in 0 .. Wrap /\ age = Wrap
  BY ZeroIsMillis, ClockAssumption DEF Init
<1>2. TypeOK
  BY <1>1, CommandsAssumption DEF Init, EmptyLine, TypeOK
<1>3. InboxIsOfSession /\ ~RetainedPending
  BY DEF Init, InboxIsOfSession, RetainedPending
<1>4. HoldoffIsReal
  BY <1>1, ClockAssumption DEF HoldoffIsReal
<1>5. EditorFollows
  BY DraftsOfNothing DEF Init, EmptyLine, EditorFollows
<1> QED
  BY <1>2, <1>3, <1>4, <1>5 DEF IInv, RetainedComesSoon

\* What CliTask and ControlTask do concerns neither the session nor the clock.
LEMMA CliStep ==
  ASSUME IInv,
         \/ \E key \in Characters \cup {"erase"} : PressKey(key)
         \/ EndLine
         \/ SendRequest
         \/ RequestTimeout
         \/ TakeCommand
         \/ UNCHANGED vars
  PROVE  IInv'
<1>1. TypeOK
  BY DEF IInv
<1>2. /\ session' = session /\ topics' = topics /\ inbox' = inbox
      /\ subscribedAt' = subscribedAt /\ millis' = millis /\ age' = age
  BY DEF PressKey, EndLine, SendRequest, RequestTimeout, TakeCommand, vars
<1>3. InboxIsOfSession' /\ RetainedComesSoon' /\ HoldoffIsReal'
  BY <1>2 DEF IInv, InboxIsOfSession, RetainedComesSoon, RetainedPending, HoldoffIsReal
<1>9. EditorFollows'
  <2>1. EditorFollows
    BY DEF IInv
  <2>2. CASE \E key \in Characters \cup {"erase"} : PressKey(key)
    BY <1>1, <2>1, <2>2, EditorFollowsKey
  <2>3. CASE EndLine
    BY <2>3, DraftsOfNothing DEF EndLine, EmptyLine, EditorFollows
  <2>4. CASE SendRequest \/ RequestTimeout \/ TakeCommand \/ UNCHANGED vars
    <3>1. editor' = editor /\ keys' = keys
      BY <2>4 DEF SendRequest, RequestTimeout, TakeCommand, vars
    <3> QED
      BY <2>1, <3>1 DEF EditorFollows
  <2> QED
    BY <2>2, <2>3, <2>4
<1> SUFFICES TypeOK'
  BY <1>3, <1>9 DEF IInv
<1>4. ASSUME NEW key \in Characters \cup {"erase"}, PressKey(key) PROVE TypeOK'
  <2>1. /\ editor' \in [line : Seq(Characters), overflow : BOOLEAN]
        /\ Len(editor'.line) < BufferSize
    BY <1>1, <1>4, PressType DEF PressKey, TypeOK
  <2>2. keys' \in Seq(Characters \cup {"erase"})
    BY <1>1, <1>4 DEF PressKey, TypeOK
  <2> QED
    BY <1>1, <1>2, <1>4, <2>1, <2>2 DEF PressKey, TypeOK
<1>5. CASE EndLine
  <2>1. /\ editor' \in [line : Seq(Characters), overflow : BOOLEAN]
        /\ Len(editor'.line) < BufferSize
    BY <1>5, CommandsAssumption DEF EndLine, EmptyLine
  <2>2. request' \in CliRequests \cup {"NONE"} /\ keys' \in Seq(Characters \cup {"erase"})
    BY <1>5 DEF EndLine
  <2> QED
    BY <1>1, <1>2, <1>5, <2>1, <2>2 DEF EndLine, TypeOK
<1>6. CASE SendRequest
  <2>1. request \in CommandTypes
    BY <1>1, <1>6 DEF SendRequest, TypeOK, CliRequests, CommandTypes
  <2>2. commands' \in Seq(CommandTypes) /\ Len(commands') <= CommandQueueLength
    BY <1>1, <1>6, <2>1, CommandsAssumption DEF SendRequest, TypeOK, CommandTypes
  <2> QED
    BY <1>1, <1>2, <1>6, <2>2 DEF SendRequest, TypeOK, CommandTypes
<1>7. CASE RequestTimeout \/ UNCHANGED vars
  BY <1>1, <1>2, <1>7 DEF RequestTimeout, TypeOK, vars
<1>8. CASE TakeCommand
  <2>1. commands' \in Seq(CommandTypes) /\ Len(commands') <= CommandQueueLength
    BY <1>1, <1>8, CommandsAssumption DEF TakeCommand, TypeOK, CommandTypes
  <2> QED
    BY <1>1, <1>2, <1>8, <2>1 DEF TakeCommand, TypeOK, CommandTypes
<1> QED
  BY <1>4, <1>5, <1>6, <1>7, <1>8

\* Time passes, while nothing retained is overdue.
LEMMA AdvanceStep ==
  ASSUME IInv, Advance
  PROVE  IInv'
<1>1. /\ TypeOK /\ millis \in Millis /\ subscribedAt \in Millis
      /\ age \in 0 .. Wrap /\ Wrap \in Nat /\ MaxDelivery \in Nat
  BY ClockAssumption, CommandsAssumption DEF IInv, TypeOK
<1>2. millis' \in Millis /\ age' \in 0 .. Wrap
  BY <1>1, LaterType DEF Advance
<1>3. TypeOK'
  BY <1>1, <1>2 DEF Advance, TypeOK
<1>4. InboxIsOfSession' /\ RetainedPending' = RetainedPending
  BY DEF IInv, InboxIsOfSession, Advance, RetainedPending
<1>5. RetainedComesSoon'
  BY <1>1, <1>4 DEF RetainedComesSoon, Advance
<1>6. HoldoffIsReal'
  <2>1. SUFFICES ASSUME age' < Wrap PROVE Elapsed(millis', subscribedAt) = age'
    BY DEF HoldoffIsReal, Advance
  <2>2. age < Wrap - 1 /\ age' = age + 1
    BY <1>1, <2>1 DEF Advance
  <2>3. Elapsed(millis, subscribedAt) = age
    BY <1>1, <2>2 DEF IInv, HoldoffIsReal
  <2> QED
    BY <1>1, <2>2, <2>3, ElapsedLater DEF Advance
<1>7. EditorFollows'
  BY DEF IInv, Advance, EditorFollows
<1> QED
  BY <1>3, <1>4, <1>5, <1>6, <1>7 DEF IInv

\* The session opens, subscribes and drops.
LEMMA SessionStep ==
  ASSUME IInv, OpenSession \/ Subscribe \/ DropSession
  PROVE  IInv'
<1>1. TypeOK /\ millis \in Millis /\ MaxDelivery \in Nat /\ InboxLength \in Nat \ {0}
  BY CommandsAssumption DEF IInv, TypeOK
<1>5. EditorFollows'
  BY DEF IInv, OpenSession, Subscribe, DropSession, EditorFollows
<1>2. CASE OpenSession
  <2>1. TypeOK'
    BY <1>1, <1>2, ClockAssumption DEF OpenSession, TypeOK
  <2>2. InboxIsOfSession'
    BY <1>2 DEF IInv, InboxIsOfSession, OpenSession
  <2>3. age' = 0 /\ Elapsed(millis', subscribedAt') = 0
    BY <1>1, <1>2, ElapsedNow DEF OpenSession
  <2> QED
    BY <1>1, <1>5, <2>1, <2>2, <2>3 DEF IInv, RetainedComesSoon, HoldoffIsReal
<1>3. CASE Subscribe
  <2>1. \/ inbox' = <<>>
        \/ \E m \in Messages : inbox' = <<[message |-> m, retained |-> TRUE]>>
    BY <1>3 DEF Subscribe
  <2>2. ASSUME NEW m \in Messages
        PROVE  /\ <<[message |-> m, retained |-> TRUE]>>
                    \in Seq([message : Messages, retained : BOOLEAN])
               /\ Len(<<[message |-> m, retained |-> TRUE]>>) = 1
    OBVIOUS
  <2>5. inbox' \in Seq([message : Messages, retained : BOOLEAN]) /\ Len(inbox') <= InboxLength
    <3>1. CASE inbox' = <<>>
      BY <1>1, <3>1
    <3>2. ASSUME NEW m \in Messages, inbox' = <<[message |-> m, retained |-> TRUE]>>
          PROVE  /\ inbox' \in Seq([message : Messages, retained : BOOLEAN])
                 /\ Len(inbox') <= InboxLength
      BY <1>1, <2>2, <3>2
    <3> QED
      BY <2>1, <3>1, <3>2
  <2>3. TypeOK'
    BY <1>1, <1>3, <2>5 DEF Subscribe, TypeOK
  <2>4. age <= MaxDelivery
    BY <1>3 DEF Subscribe, IInv, RetainedComesSoon, RetainedPending
  <2> QED
    BY <1>3, <1>5, <2>3, <2>4 DEF Subscribe, IInv, InboxIsOfSession, RetainedComesSoon,
                            HoldoffIsReal
<1>4. CASE DropSession
  <2>1. TypeOK'
    BY <1>1, <1>4 DEF DropSession, TypeOK
  <2>2. ~RetainedPending'
    BY <1>4 DEF DropSession, RetainedPending
  <2> QED
    BY <1>4, <1>5, <2>1, <2>2 DEF DropSession, IInv, InboxIsOfSession, RetainedComesSoon,
                            HoldoffIsReal
<1> QED
  BY <1>2, <1>3, <1>4

\* A published message is not retained, and a handled one is gone.
LEMMA MessageStep ==
  ASSUME IInv, (\E m \in Messages : Publish(m)) \/ HandleMessage
  PROVE  IInv'
<1>1. /\ TypeOK /\ inbox \in Seq([message : Messages, retained : BOOLEAN])
      /\ Len(inbox) <= InboxLength /\ InboxLength \in Nat
      /\ commands \in Seq(CommandTypes) /\ Len(commands) <= CommandQueueLength
      /\ CommandQueueLength \in Nat
  BY CommandsAssumption DEF IInv, TypeOK, CommandTypes
<1>2. UNCHANGED <<cli, session, topics, subscribedAt, time>> /\ session = "up"
  BY DEF Publish, HandleMessage
<1>3. /\ inbox' \in Seq([message : Messages, retained : BOOLEAN])
      /\ Len(inbox') <= InboxLength
      /\ RetainedPending' => RetainedPending
  <2>1. ASSUME NEW m \in Messages, Publish(m)
        PROVE  /\ inbox' \in Seq([message : Messages, retained : BOOLEAN])
               /\ Len(inbox') <= InboxLength
               /\ RetainedPending' => RetainedPending
    <3>1. [message |-> m, retained |-> FALSE] \in [message : Messages, retained : BOOLEAN]
      OBVIOUS
    <3>2. inbox' = Append(inbox, [message |-> m, retained |-> FALSE])
      BY <2>1 DEF Publish
    <3>3. \A i \in DOMAIN inbox' : inbox'[i].retained => i \in DOMAIN inbox /\ inbox[i].retained
      BY <1>1, <3>2
    <3> QED
      BY <1>1, <1>2, <2>1, <3>1, <3>2, <3>3 DEF Publish, RetainedPending
  <2>2. ASSUME HandleMessage
        PROVE  /\ inbox' \in Seq([message : Messages, retained : BOOLEAN])
               /\ Len(inbox') <= InboxLength
               /\ RetainedPending' => RetainedPending
    <3>1. inbox # <<>> /\ inbox' = Tail(inbox)
      BY <2>2 DEF HandleMessage
    <3>2. \A i \in DOMAIN inbox' : i + 1 \in DOMAIN inbox /\ inbox'[i] = inbox[i + 1]
      BY <1>1, <3>1
    <3> QED
      BY <1>1, <1>2, <3>1, <3>2 DEF RetainedPending
  <2> QED
    BY <2>1, <2>2
<1>4. commands' \in Seq(CommandTypes) /\ Len(commands') <= CommandQueueLength
  <2>1. \/ commands' = commands
        \/ /\ Len(commands) < CommandQueueLength
           /\ \E c \in CommandTypes : commands' = Append(commands, c)
    BY DEF Publish, HandleMessage, RemoteType, CommandTypes
  <2> QED
    BY <1>1, <2>1
<1>5. TypeOK'
  BY <1>1, <1>2, <1>3, <1>4 DEF TypeOK, CommandTypes
<1>6. EditorFollows'
  BY <1>2 DEF IInv, EditorFollows
<1> QED
  BY <1>2, <1>3, <1>5, <1>6 DEF IInv, InboxIsOfSession, RetainedComesSoon, HoldoffIsReal

THEOREM Invariance == Spec => []IInv
<1>1. IInv /\ [Next]_vars => IInv'
  BY CliStep, AdvanceStep, SessionStep, MessageStep DEF Next
<1> QED
  BY <1>1, InitInvariant, PTL DEF Spec

\* The line fits its buffer, and the command queue holds what it has room for, of
\* the types ControlTask knows.
THEOREM TypeCorrect == Spec => []TypeOK
<1>1. IInv => TypeOK
  BY DEF IInv
<1> QED
  BY <1>1, Invariance, PTL

\* Where the broker delivers what it had retained within the hold-off, it is dropped.
THEOREM RetainedIsHeldOff ==
  ASSUME MaxDelivery < Holdoff
  PROVE  Spec => RetainedCommandsAreDropped
<1>1. ASSUME IInv, Next PROVE RetainedIsDropped
  <2>1. /\ commands \in Seq(CommandTypes) /\ millis \in Millis /\ subscribedAt \in Millis
        /\ inbox \in Seq([message : Messages, retained : BOOLEAN])
        /\ age \in Nat /\ MaxDelivery \in Nat /\ Holdoff \in 0 .. Wrap - 1 /\ Wrap \in Nat
    BY <1>1, ClockAssumption, CommandsAssumption DEF IInv, TypeOK, CommandTypes, Millis
  <2> SUFFICES ASSUME Len(commands') > Len(commands), request' = request,
                      Head(inbox).retained
               PROVE  FALSE
    BY DEF RetainedIsDropped
  <2>2. CASE HandleMessage
    <3>1. ~InHoldoff(millis) /\ inbox # <<>>
      BY <2>1, <2>2 DEF HandleMessage
    <3>2. RetainedPending
      BY <2>1, <3>1 DEF RetainedPending
    <3>3. age <= MaxDelivery
      BY <1>1, <3>2 DEF IInv, RetainedComesSoon
    <3>4. Elapsed(millis, subscribedAt) = age
      BY <1>1, <2>1, <3>3 DEF IInv, HoldoffIsReal
    <3> QED
      BY <2>1, <3>1, <3>3, <3>4 DEF InHoldoff
  <2>3. CASE SendRequest
    BY <2>3 DEF SendRequest
  <2>4. CASE TakeCommand
    BY <2>1, <2>4 DEF TakeCommand
  <2>5. CASE \/ \E key \in Characters \cup {"erase"} : PressKey(key)
             \/ EndLine \/ RequestTimeout \/ Advance
             \/ OpenSession \/ Subscribe \/ DropSession
             \/ \E m \in Messages : Publish(m)
    <3>1. commands' = commands
      BY <2>5 DEF PressKey, EndLine, RequestTimeout, Advance, OpenSession, Subscribe,
                  DropSession, Publish
    <3> QED
      BY <2>1, <3>1
  <2> QED
    BY <1>1, <2>2, <2>3, <2>4, <2>5 DEF Next
<1> QED
  BY <1>1, Invariance, PTL DEF Spec, RetainedCommandsAreDropped

\* A command an operator sends after the hold-off acts, however long the session has
\* been up and wherever millis() wrapped: the hold-off never comes back.
THEOREM HoldoffEnds == Spec => LiveCommandsAct
<1>1. ASSUME IInv, Next PROVE LiveIsQueued
  <2>1. /\ inbox \in Seq([message : Messages, retained : BOOLEAN])
        /\ age \in Nat /\ Holdoff \in Nat /\ Wrap \in Nat
    BY <1>1, ClockAssumption, CommandsAssumption DEF IInv, TypeOK, Millis
  <2> SUFFICES ASSUME inbox # <<>>, inbox' = Tail(inbox), session' = "up",
                      Accepted(Head(inbox).message), Len(commands) < CommandQueueLength,
                      Holdoff <= age, age < Wrap
               PROVE  commands' = Append(commands, RemoteType(Head(inbox).message))
    BY DEF LiveIsQueued
  <2>2. Len(inbox') < Len(inbox)
    BY <2>1
  <2>3. CASE HandleMessage
    <3>1. Elapsed(millis, subscribedAt) = age
      BY <1>1 DEF IInv, HoldoffIsReal
    <3>2. ~InHoldoff(millis)
      BY <2>1, <3>1 DEF InHoldoff
    <3> QED
      BY <2>3, <3>2 DEF HandleMessage
  <2>4. CASE Subscribe
    BY <1>1, <2>4 DEF Subscribe, IInv, InboxIsOfSession
  <2>5. CASE DropSession
    BY <2>5 DEF DropSession
  <2>6. ASSUME NEW m \in Messages, Publish(m) PROVE FALSE
    BY <2>1, <2>2, <2>6 DEF Publish
  <2>7. CASE \/ \E key \in Characters \cup {"erase"} : PressKey(key)
             \/ EndLine \/ SendRequest \/ RequestTimeout \/ TakeCommand
             \/ Advance \/ OpenSession
    <3>1. inbox' = inbox
      BY <2>7 DEF PressKey, EndLine, SendRequest, RequestTimeout, TakeCommand, Advance,
                  OpenSession
    <3> QED
      BY <2>1, <2>2, <3>1
  <2> QED
    BY <1>1, <2>3, <2>4, <2>5, <2>6, <2>7 DEF Next
<1> QED
  BY <1>1, Invariance, PTL DEF Spec, LiveCommandsAct

\* What the operator typed and edited is requested, and nothing when the line was ever
\* too long, for lines of every length.
THEOREM LinesAreMeant == Spec => CliRequestsWhatWasTyped
<1>1. ASSUME IInv, Next PROVE RequestsWhatWasMeant
  <2> SUFFICES ASSUME keys # <<>>, keys' = <<>>
               PROVE  request' = IF Meant(keys) \in CliRequests THEN Meant(keys) ELSE "NONE"
    BY DEF RequestsWhatWasMeant
  <2>1. EditorFollows /\ keys \in Seq(Characters \cup {"erase"})
    BY <1>1 DEF IInv, TypeOK
  <2>2. CASE EndLine
    <3>1. request' = IF ~editor.overflow /\ ParseCommand(editor.line) \in CliRequests
                       THEN ParseCommand(editor.line) ELSE "NONE"
      BY <2>2 DEF EndLine
    <3>2. "NONE" \notin CliRequests
      BY DEF CliRequests
    <3> QED
      BY <2>1, <3>1, <3>2 DEF EditorFollows, Meant
  <2>3. ASSUME NEW key \in Characters \cup {"erase"}, PressKey(key) PROVE FALSE
    <3>1. keys' = Append(keys, key)
      BY <2>3 DEF PressKey
    <3> QED
      BY <2>1, <3>1
  <2>4. CASE \/ SendRequest \/ RequestTimeout \/ TakeCommand
             \/ Advance \/ OpenSession \/ Subscribe \/ DropSession
             \/ (\E m \in Messages : Publish(m)) \/ HandleMessage
    BY <2>4 DEF SendRequest, RequestTimeout, TakeCommand, Advance, OpenSession, Subscribe,
                DropSession, Publish, HandleMessage
  <2> QED
    BY <1>1, <2>2, <2>3, <2>4 DEF Next
<1> QED
  BY <1>1, Invariance, PTL DEF Spec, CliRequestsWhatWasTyped
=============================================================================
