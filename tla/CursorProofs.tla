---------------------------- MODULE CursorProofs ----------------------------
(***************************************************************************)
(* Proofs about Cursor, for any modes, positions, panned origins, size of  *)
(* the queue, and any number of waits given up and of failures.            *)
(*                                                                         *)
(* Four facts carry them.  Until a wait is given up the queue holds at     *)
(* most the one entry of the task that waits (OneEntry).  Once nothing is  *)
(* left to take up the device is where the buffer says (Followed).  The    *)
(* driver has recorded that place or a call is about to, and a callback    *)
(* that is alone records what it wrote (Alone, Placed).  A picture that    *)
(* has been drawn is shown unless its call still has to transfer or send   *)
(* it (Painted).                                                           *)
(***************************************************************************)
EXTENDS Cursor, SequenceTheorems, TLAPS

Types == {"MOVE", "UPDATE"}
Commands == [type : Types, pos : Nat]
Entries == [by : Tasks, intact : BOOLEAN]

\* In chip_cursor_send: with the lock, and with an entry published.
Sent == {"arm", "look", "sleep", "poll"}
Holding == Sent \cup {"fill"}
SendPcs == Holding \cup {"lock"}
PainterPcs == SendPcs \cup {"idle", "create", "draw", "update", "record"}
MoverPcs == SendPcs \cup {"idle", "move", "moved"}
Pcs == PainterPcs \cup MoverPcs

\* What a task sends, and where it goes on.
TypeOf(t) == IF t = Painter THEN "UPDATE" ELSE "MOVE"
NextOf(t) == IF t = Painter THEN "record" ELSE "moved"

BoardInfos == [width : Modes, xoff : Offsets, mouse : Positions]
States == [created : BOOLEAN, buf : BOOLEAN, x : Int, last_sent : Int,
           needs_refresh : BOOLEAN]
Frames == [pc : Pcs, type : Types, pos : Nat, vx : Int, next : Pcs]
Devices == [res : {"none", "bare", "backed"}, image : {"last", "old"}, pos : Nat,
            shown : {"last", "old"}]
Histories == [dropped : BOOLEAN, overlap : BOOLEAN, drift : BOOLEAN]

Records ==
    /\ bi \in BoardInfos /\ gs \in States /\ task \in [Tasks -> Frames]
    /\ cmdbuf \in Commands
    /\ avail \in Seq(Entries) /\ Len(avail) <= QueueNum /\ used \in Seq(Tasks)
    /\ host \in Devices /\ hist \in Histories
    /\ gaveUp \in Nat /\ failed \in Nat

\* Only the painter is in the picture calls and only the mover in the move
\* calls; the lock is held by the task that sends.
Callers ==
    /\ task[Painter].pc \in PainterPcs /\ task[Mover].pc \in MoverPcs
    /\ \A t \in Tasks : task[t].pc \in {"lock", "fill"} => task[t].type = TypeOf(t)
    /\ \A t \in Tasks : task[t].pc \in SendPcs => task[t].next = NextOf(t)
    /\ lock \in Tasks \cup {None}
    /\ \A t \in Tasks : lock = t <=> task[t].pc \in Holding

\* Until a wait is given up there is at most one entry, that of the task that
\* waits, and it is not taken for completed before it is.
OneEntry ==
    gaveUp = 0 =>
        /\ avail # <<>> =>
              \E t \in Tasks : /\ task[t].pc \in Sent
                               /\ avail = <<[by |-> t, intact |-> TRUE]>>
                               /\ cmdbuf.type = TypeOf(t)
                               /\ used = <<>>
        /\ \A t \in Tasks : At(t, "fill") => used = <<>>
        /\ ~hist.dropped

\* With nothing left to take up the device is where the buffer says.
Followed == ~hist.dropped /\ avail = <<>> => host.pos = cmdbuf.pos

\* While no callbacks have overlapped only one is in progress, and what it
\* records is what it has sent.
AboutToSend(t) == task[t].pc \in {"lock", "fill"}
Recording(t) == task[t].pc \in Sent \cup {"record", "moved"}
Alone ==
    ~hist.overlap =>
        /\ At(Painter, "idle") \/ At(Mover, "idle")
        /\ AboutToSend(Painter) => task[Painter].pos = Unsigned(gs.x)
        /\ AboutToSend(Mover) => task[Mover].pos = Unsigned(task[Mover].vx)
        /\ Recording(Painter) => cmdbuf.pos = Unsigned(gs.x)
        /\ Recording(Mover) => cmdbuf.pos = Unsigned(task[Mover].vx)

\* The driver has recorded the place in the buffer, or is about to record one.
Placed ==
    ~hist.drift =>
        Unsigned(gs.last_sent) = cmdbuf.pos \/ \E t \in Tasks : Recording(t)

\* What may still be behind of the picture, by how far its call is.
Painted ==
    gaveUp = 0 /\ failed = 0 =>
        /\ host.image = "last" \/ At(Painter, "update")
        /\ \/ host.shown = "last"
           \/ At(Painter, "update") \/ AboutToSend(Painter)
           \/ task[Painter].pc \in Sent /\ avail # <<>>

IInv ==
    /\ Records /\ Callers /\ CreatedMeansBacked /\ OneEntry
    /\ Followed /\ Alone /\ Placed /\ Painted

USE CursorAssumption DEF Types, Commands, Entries

\* There is no cursor to start with.
LEMMA InitIInv == Init => IInv
<1> SUFFICES ASSUME Init PROVE IInv
  OBVIOUS
<1> USE DEF Init, NoCall, At
<1>1. Records
  BY DEF Records, BoardInfos, States, Frames, Devices, Histories, Pcs, PainterPcs,
         MoverPcs
<1>2. Callers /\ CreatedMeansBacked
  BY DEF Callers, PainterPcs, MoverPcs, SendPcs, Holding, Sent, CreatedMeansBacked
<1>3. OneEntry /\ Followed /\ Painted
  BY DEF OneEntry, Followed, Painted
<1>4. Alone /\ Placed
  BY DEF Alone, Placed, Recording, AboutToSend, Sent, Unsigned, Larger
<1> QED BY <1>1, <1>2, <1>3, <1>4 DEF IInv

\* A position as it is sent is a natural number.
LEMMA UnsignedNat ==
    ASSUME NEW p \in Int
    PROVE  Unsigned(p) \in Nat
BY DEF Unsigned, Larger

\* The constants are numbers, and so is what is computed from them.
LEMMA ConstantNumbers ==
    /\ \A w \in Modes : w \in Int
    /\ \A o \in Offsets : o \in Int
    /\ \A x \in Positions : x \in Int
    /\ 1 - MouseWidth \in Int
OBVIOUS

\* A position on the screen, panned or clamped, is a number.
LEMMA Numbers ==
    ASSUME Records
    PROVE  \A x \in Positions : x - bi.xoff \in Int /\ Clamp(x - bi.xoff) \in Int
<1>1. bi.width \in Modes /\ bi.xoff \in Offsets
  BY DEF Records, BoardInfos
<1>2. bi.width \in Int /\ bi.xoff \in Int /\ 1 - MouseWidth \in Int
  BY <1>1, ConstantNumbers
<1>3. \A a, b \in Int : Larger(a, b) \in Int
  BY DEF Larger
<1>4. \A p \in Int : Clamp(p) \in Int
  <2>1. \A p \in Int : (IF p > bi.width THEN bi.width ELSE p) \in Int
    BY <1>2
  <2> QED BY <1>2, <1>3, <2>1 DEF Clamp
<1>5. ASSUME NEW x \in Positions PROVE x - bi.xoff \in Int
  <2>1. x \in Int
    BY ConstantNumbers, ZenonT(60)
  <2> QED BY <1>2, <2>1
<1> QED BY <1>4, <1>5

\* Assigning a field keeps the type of a record.
LEMMA Fields ==
    /\ \A s \in States, x \in Int, b \in BOOLEAN :
          /\ s.x \in Int /\ s.last_sent \in Int
          /\ [s EXCEPT !.x = x] \in States
          /\ [s EXCEPT !.last_sent = x] \in States
          /\ [s EXCEPT !.last_sent = x, !.needs_refresh = FALSE] \in States
          /\ [s EXCEPT !.needs_refresh = TRUE] \in States
          /\ [s EXCEPT !.buf = TRUE, !.created = TRUE] \in States
          /\ [s EXCEPT !.buf = b] \in States
    /\ \A h \in Devices, n \in Nat, p, q \in {"last", "old"} :
          /\ h.pos \in Nat /\ h.image \in {"last", "old"} /\ h.shown \in {"last", "old"}
          /\ [h EXCEPT !.pos = n, !.shown = p] \in Devices
          /\ [h EXCEPT !.image = p, !.shown = q] \in Devices
          /\ [h EXCEPT !.image = p] \in Devices
          /\ [h EXCEPT !.res = "backed"] \in Devices
          /\ [h EXCEPT !.res = "bare"] \in Devices
    /\ \A h \in Histories, b \in BOOLEAN :
          /\ h.overlap \in BOOLEAN
          /\ [h EXCEPT !.dropped = b] \in Histories
          /\ [h EXCEPT !.overlap = b] \in Histories
          /\ [h EXCEPT !.drift = b] \in Histories
<1>1. \A s \in States, x \in Int, b \in BOOLEAN :
          /\ s.x \in Int /\ s.last_sent \in Int
          /\ [s EXCEPT !.x = x] \in States
          /\ [s EXCEPT !.last_sent = x] \in States
          /\ [s EXCEPT !.last_sent = x, !.needs_refresh = FALSE] \in States
          /\ [s EXCEPT !.needs_refresh = TRUE] \in States
          /\ [s EXCEPT !.buf = TRUE, !.created = TRUE] \in States
          /\ [s EXCEPT !.buf = b] \in States
  BY DEF States
<1>2. \A h \in Devices, n \in Nat, p, q \in {"last", "old"} :
          /\ h.pos \in Nat /\ h.image \in {"last", "old"} /\ h.shown \in {"last", "old"}
          /\ [h EXCEPT !.pos = n, !.shown = p] \in Devices
          /\ [h EXCEPT !.image = p, !.shown = q] \in Devices
          /\ [h EXCEPT !.image = p] \in Devices
          /\ [h EXCEPT !.res = "backed"] \in Devices
          /\ [h EXCEPT !.res = "bare"] \in Devices
  BY ZenonT(60) DEF Devices
<1>3. \A h \in Histories, b \in BOOLEAN :
          /\ h.overlap \in BOOLEAN
          /\ [h EXCEPT !.dropped = b] \in Histories
          /\ [h EXCEPT !.overlap = b] \in Histories
          /\ [h EXCEPT !.drift = b] \in Histories
  BY DEF Histories
<1> QED BY <1>1, <1>2, <1>3

\* Leaving chip_cursor_send: the call goes on where it was entered from.
LEMMA ResumeEffect ==
    ASSUME Records, Callers, NEW t \in Tasks, task[t].pc \in SendPcs, Resume(t)
    PROVE  /\ task' \in [Tasks -> Frames]
           /\ task'[t].pc = NextOf(t) /\ task'[t].vx = task[t].vx
           /\ \A u \in Tasks \ {t} : task'[u] = task[u]
<1>1. task \in [Tasks -> Frames] /\ task[t] \in Frames /\ task[t].next = NextOf(t)
  BY DEF Records, Callers
<1> DEFINE f == [NoCall EXCEPT !.pc = task[t].next, !.vx = task[t].vx]
<1>2. f \in Frames /\ f.pc = NextOf(t) /\ f.vx = task[t].vx
  BY <1>1 DEF NoCall, Frames, Pcs, PainterPcs, MoverPcs
<1>3. task' = [task EXCEPT ![t] = f]
  BY DEF Resume
<1> HIDE DEF f
<1> QED BY <1>1, <1>2, <1>3

\* Publishing an entry: the call goes on with the lock.
LEMMA SubmitEffect ==
    ASSUME Records, Callers, NEW t \in Tasks, At(t, "fill"),
           task' = [task EXCEPT ![t] = [NoCall EXCEPT !.pc = "arm", !.next = task[t].next,
                                                      !.vx = task[t].vx]]
    PROVE  /\ task' \in [Tasks -> Frames]
           /\ task'[t].pc = "arm" /\ task'[t].next = NextOf(t) /\ task'[t].vx = task[t].vx
           /\ \A u \in Tasks \ {t} : task'[u] = task[u]
<1>1. task \in [Tasks -> Frames] /\ task[t] \in Frames /\ task[t].next = NextOf(t)
  BY DEF Records, Callers, At, SendPcs, Holding
<1> DEFINE f == [NoCall EXCEPT !.pc = "arm", !.next = task[t].next, !.vx = task[t].vx]
<1>2. f \in Frames /\ f.pc = "arm" /\ f.next = NextOf(t) /\ f.vx = task[t].vx
  BY <1>1 DEF NoCall, Frames, Pcs, PainterPcs, MoverPcs, SendPcs, Holding, Sent
<1>3. task' = [task EXCEPT ![t] = f]
  OBVIOUS
<1> HIDE DEF f
<1> QED BY <1>1, <1>2, <1>3

\* Entering chip_cursor_send.
LEMMA SendingEffect ==
    ASSUME Records, NEW t \in Tasks, NEW type \in Types, NEW pos \in Nat,
           Sending(t, type, pos, NextOf(t))
    PROVE  /\ task' \in [Tasks -> Frames]
           /\ task'[t].pc = "lock" /\ task'[t].next = NextOf(t)
           /\ task'[t].type = type /\ task'[t].pos = pos /\ task'[t].vx = task[t].vx
           /\ \A u \in Tasks \ {t} : task'[u] = task[u]
<1>1. task \in [Tasks -> Frames] /\ task[t] \in Frames
  BY DEF Records
<1> DEFINE f == [task[t] EXCEPT !.pc = "lock", !.type = type, !.pos = pos,
                                !.next = NextOf(t)]
<1>2. /\ f \in Frames /\ f.pc = "lock" /\ f.next = NextOf(t) /\ f.type = type
      /\ f.pos = pos /\ f.vx = task[t].vx
  BY <1>1 DEF Frames, NextOf, Pcs, PainterPcs, MoverPcs, SendPcs
<1>3. task' = [task EXCEPT ![t] = f]
  BY DEF Sending
<1> HIDE DEF f
<1> QED BY <1>1, <1>2, <1>3

\* A plain jump keeps the locals.
LEMMA GotoEffect ==
    ASSUME Records, NEW t \in Tasks, NEW l \in Pcs, Goto(t, l)
    PROVE  /\ task' \in [Tasks -> Frames]
           /\ task'[t].pc = l
           /\ task'[t].type = task[t].type /\ task'[t].next = task[t].next
           /\ task'[t].pos = task[t].pos /\ task'[t].vx = task[t].vx
           /\ \A u \in Tasks \ {t} : task'[u] = task[u]
<1>1. task \in [Tasks -> Frames] /\ task[t] \in Frames
  BY DEF Records
<1> DEFINE f == [task[t] EXCEPT !.pc = l]
<1>2. /\ f \in Frames /\ f.pc = l /\ f.type = task[t].type /\ f.next = task[t].next
      /\ f.pos = task[t].pos /\ f.vx = task[t].vx
  BY <1>1 DEF Frames
<1>3. task' = [task EXCEPT ![t] = f]
  BY DEF Goto
<1> HIDE DEF f
<1> QED BY <1>1, <1>2, <1>3

\* The end of a callback.
LEMMA ReturnEffect ==
    ASSUME Records, NEW t \in Tasks, Return(t)
    PROVE  /\ task' \in [Tasks -> Frames]
           /\ task'[t].pc = "idle"
           /\ \A u \in Tasks \ {t} : task'[u] = task[u]
<1>1. task \in [Tasks -> Frames]
  BY DEF Records
<1>2. NoCall \in Frames /\ NoCall.pc = "idle"
  BY DEF NoCall, Frames, Pcs, PainterPcs, MoverPcs
<1>3. task' = [task EXCEPT ![t] = NoCall]
  BY DEF Return
<1> HIDE DEF NoCall
<1> QED BY <1>1, <1>2, <1>3

\* Entries that are overwritten are as many as before.
LEMMA OverwrittenEntries ==
    ASSUME Records
    PROVE  /\ Overwritten \in Seq(Entries) /\ Len(Overwritten) = Len(avail)
           /\ avail = <<>> => Overwritten = <<>>
<1>1. avail \in Seq(Entries) /\ Len(avail) \in Nat
  BY DEF Records
<1>2. \A i \in 1..Len(avail) : [avail[i] EXCEPT !.intact = FALSE] \in Entries
  <2>1. \A e \in Entries : [e EXCEPT !.intact = FALSE] \in Entries
    OBVIOUS
  <2>2. \A i \in 1..Len(avail) : avail[i] \in Entries
    BY <1>1, ElementOfSeq
  <2> QED BY <2>1, <2>2, Zenon
<1>3. Overwritten \in [1..Len(avail) -> Entries]
  BY <1>2 DEF Overwritten
<1>4. Overwritten \in Seq(Entries)
  BY <1>1, <1>3
<1>5. DOMAIN Overwritten = 1..Len(avail)
  BY DEF Overwritten
<1>6. Len(Overwritten) = Len(avail)
  BY <1>1, <1>4, <1>5
<1>7. avail = <<>> => Overwritten = <<>>
  BY <1>4, <1>6
<1> QED BY <1>4, <1>6, <1>7

\* Looking, sleeping and waking: the call stays where its entry is published.
Looks(t) == SendArm(t) \/ SendMiss(t) \/ SendWake(t)
LEMMA LooksEffect ==
    ASSUME Records, Callers, NEW t \in Tasks, Looks(t)
    PROVE  /\ task' \in [Tasks -> Frames]
           /\ task[t].pc \in Sent /\ task'[t].pc \in Sent
           /\ task'[t].next = task[t].next /\ task'[t].vx = task[t].vx
           /\ \A u \in Tasks \ {t} : task'[u] = task[u]
           /\ used' \in Seq(Tasks) /\ (used = <<>> => used' = <<>>)
           /\ UNCHANGED <<bi, gs, lock, cmdbuf, avail, host, gaveUp, failed, hist>>
<1>1. task[t].pc \in Sent
  BY DEF Looks, SendArm, SendMiss, SendWake, At, Sent
<1>2. \E l \in Sent : Goto(t, l)
  BY DEF Looks, SendArm, SendMiss, SendWake, FirstLooks, Sent
<1>3. PICK l \in Sent : Goto(t, l)
  BY <1>2
<1>4. l \in Pcs
  BY DEF Pcs, PainterPcs, SendPcs, Holding
<1>5. /\ task' \in [Tasks -> Frames] /\ task'[t].pc = l
      /\ task'[t].next = task[t].next /\ task'[t].vx = task[t].vx
      /\ \A u \in Tasks \ {t} : task'[u] = task[u]
  BY <1>3, <1>4, GotoEffect
<1>6. used' \in Seq(Tasks) /\ (used = <<>> => used' = <<>>)
  <2>1. used \in Seq(Tasks)
    BY DEF Records
  <2>2. used' = used \/ (used # <<>> /\ used' = Tail(used))
    BY Zenon DEF Looks, SendArm, SendMiss, SendWake
  <2> QED BY <2>1, <2>2, HeadTailProperties
<1>7. UNCHANGED <<bi, gs, lock, cmdbuf, avail, host, gaveUp, failed, hist>>
  BY Zenon DEF Looks, SendArm, SendMiss, SendWake
<1> QED BY <1>1, <1>3, <1>5, <1>6, <1>7

\* Leaving with the answer, which was in the ring, or without it.
Leaves(t) == SendDone(t) \/ SendTimeout(t)
LEMMA LeavesEffect ==
    ASSUME Records, Callers, NEW t \in Tasks, Leaves(t)
    PROVE  /\ task' \in [Tasks -> Frames]
           /\ task[t].pc \in Sent /\ task'[t].pc = NextOf(t) /\ task'[t].vx = task[t].vx
           /\ \A u \in Tasks \ {t} : task'[u] = task[u]
           /\ lock' = None /\ used' \in Seq(Tasks)
           /\ \/ gaveUp' = gaveUp /\ used # <<>>
              \/ gaveUp' = gaveUp + 1
           /\ UNCHANGED <<bi, gs, cmdbuf, avail, host, failed, hist>>
<1>1. task[t].pc \in Sent /\ Resume(t) /\ lock' = None
  BY DEF Leaves, SendDone, SendTimeout, At, Sent
<1>2. task[t].pc \in SendPcs
  BY <1>1 DEF SendPcs, Holding
<1>3. /\ task' \in [Tasks -> Frames] /\ task'[t].pc = NextOf(t) /\ task'[t].vx = task[t].vx
      /\ \A u \in Tasks \ {t} : task'[u] = task[u]
  BY <1>1, <1>2, ResumeEffect
<1>4. used' \in Seq(Tasks)
  <2>1. used \in Seq(Tasks)
    BY DEF Records
  <2>2. used' = <<>> \/ (used # <<>> /\ used' = Tail(used))
    BY Zenon DEF Leaves, SendDone, SendTimeout, Answered
  <2>3. used # <<>> => Tail(used) \in Seq(Tasks)
    BY <2>1, HeadTailProperties
  <2>4. <<>> \in Seq(Tasks)
    OBVIOUS
  <2> QED BY <2>2, <2>3, <2>4, Zenon
<1>5. \/ gaveUp' = gaveUp /\ used # <<>>
      \/ gaveUp' = gaveUp + 1
  BY Zenon DEF Leaves, SendDone, SendTimeout, Answered
<1>6. UNCHANGED <<bi, gs, cmdbuf, avail, host, failed, hist>>
  BY Zenon DEF Leaves, SendDone, SendTimeout
<1> QED BY <1>1, <1>3, <1>4, <1>5, <1>6

\* Filling in the buffer, with what becomes of the command.
LEMMA SubmitCases ==
    ASSUME Records, Callers, NEW t \in Tasks, SendSubmit(t)
    PROVE  /\ At(t, "fill") /\ lock = t
           /\ cmdbuf' \in Commands /\ cmdbuf'.pos = task[t].pos /\ cmdbuf'.type = TypeOf(t)
           /\ task' \in [Tasks -> Frames] /\ task'[t].vx = task[t].vx
           /\ \A u \in Tasks \ {t} : task'[u] = task[u]
           /\ UNCHANGED <<bi, gs, used, host, gaveUp, failed>>
           /\ avail' \in Seq(Entries) /\ Len(avail') <= QueueNum
           /\ \/ /\ task'[t].pc = "arm" /\ task'[t].next = NextOf(t) /\ lock' = t
                 /\ hist' = [hist EXCEPT !.dropped = FALSE]
                 /\ avail' = Append(Overwritten, [by |-> t, intact |-> TRUE])
                 /\ avail' # <<>>
              \/ /\ task'[t].pc = NextOf(t) /\ lock' = None
                 /\ hist' = [hist EXCEPT !.dropped = TRUE]
                 /\ Len(avail) + Len(used) >= QueueNum
<1>1. At(t, "fill") /\ lock = t /\ task[t] \in Frames /\ task[t].type = TypeOf(t)
  BY DEF SendSubmit, Callers, Records, At, Holding
<1>2. cmdbuf' \in Commands /\ cmdbuf'.pos = task[t].pos /\ cmdbuf'.type = TypeOf(t)
  <2>1. task[t].type \in Types /\ task[t].pos \in Nat
    BY <1>1 DEF Frames
  <2> QED BY <1>1, <2>1 DEF SendSubmit
<1>3. UNCHANGED <<bi, gs, used, host, gaveUp, failed>>
  BY DEF SendSubmit
<1>4. /\ Overwritten \in Seq(Entries) /\ Len(Overwritten) = Len(avail)
      /\ Len(avail) <= QueueNum /\ Len(avail) \in Nat /\ Len(used) \in Nat
      /\ QueueNum \in Nat
  BY OverwrittenEntries DEF Records
<1>5. ASSUME Len(avail) + Len(used) < QueueNum,
             avail' = Append(Overwritten, [by |-> t, intact |-> TRUE]),
             task' = [task EXCEPT ![t] = [NoCall EXCEPT !.pc = "arm", !.next = task[t].next,
                                                        !.vx = task[t].vx]]
      PROVE  /\ task' \in [Tasks -> Frames] /\ task'[t].vx = task[t].vx
             /\ \A u \in Tasks \ {t} : task'[u] = task[u]
             /\ avail' \in Seq(Entries) /\ Len(avail') <= QueueNum
             /\ task'[t].pc = "arm" /\ task'[t].next = NextOf(t) /\ avail' # <<>>
  <2>1. [by |-> t, intact |-> TRUE] \in Entries
    OBVIOUS
  <2>2. avail' \in Seq(Entries) /\ Len(avail') = Len(avail) + 1
    BY <1>4, <1>5, <2>1, AppendProperties
  <2>3. avail' # <<>>
    BY <1>4, <2>2
  <2>4. Len(avail') <= QueueNum
    BY <1>4, <1>5, <2>2
  <2>5. /\ task' \in [Tasks -> Frames] /\ task'[t].vx = task[t].vx
        /\ \A u \in Tasks \ {t} : task'[u] = task[u]
        /\ task'[t].pc = "arm" /\ task'[t].next = NextOf(t)
    BY <1>1, <1>5, SubmitEffect
  <2> QED BY <2>2, <2>3, <2>4, <2>5
<1>6. ASSUME avail' = Overwritten, Resume(t)
      PROVE  /\ task' \in [Tasks -> Frames] /\ task'[t].vx = task[t].vx
             /\ \A u \in Tasks \ {t} : task'[u] = task[u]
             /\ avail' \in Seq(Entries) /\ Len(avail') <= QueueNum
             /\ task'[t].pc = NextOf(t)
  <2>1. task[t].pc \in SendPcs
    BY <1>1 DEF At, SendPcs, Holding
  <2> QED BY <1>4, <1>6, <2>1, ResumeEffect
<1>7. CASE /\ Len(avail) + Len(used) < QueueNum
           /\ avail' = Append(Overwritten, [by |-> t, intact |-> TRUE])
           /\ task' = [task EXCEPT ![t] = [NoCall EXCEPT !.pc = "arm", !.next = task[t].next,
                                                          !.vx = task[t].vx]]
           /\ hist' = [hist EXCEPT !.dropped = FALSE]
           /\ UNCHANGED lock
  BY <1>1, <1>2, <1>3, <1>5, <1>7
<1>8. CASE /\ Len(avail) + Len(used) >= QueueNum
           /\ lock' = None
           /\ Resume(t)
           /\ hist' = [hist EXCEPT !.dropped = TRUE]
           /\ avail' = Overwritten
  BY <1>1, <1>2, <1>3, <1>6, <1>8
<1> QED BY <1>7, <1>8, Zenon DEF SendSubmit

\* Interrupts change nothing that is stated here.
Silent ==
    UNCHANGED <<bi, gs, task, lock, cmdbuf, avail, used, host, gaveUp, failed, hist>>

\* The kinds of steps there are.
LEMMA Steps ==
    ASSUME [Next]_vars
    PROVE  \/ \E t \in Tasks : SendBegin(t) \/ SendSubmit(t) \/ Looks(t) \/ Leaves(t)
           \/ chip_CursorCreate \/ Draw \/ chip_CursorUpdate \/ CursorUpdateRecord
           \/ chip_CursorMove \/ Moved
           \/ SetSpriteImage \/ SetGC \/ SetPanning \/ SetSpritePosition
           \/ DeviceCursor \/ Silent
<1>1. UNCHANGED vars \/ DeviceControl \/ chip_InterruptHandler => Silent
  BY DEF vars, ring, DeviceControl, chip_InterruptHandler, Silent
<1> QED BY <1>1, Zenon DEF Next, InCall, Send, Looks, Leaves

\* Every step keeps the types.
LEMMA RecordsNext ==
    ASSUME IInv, [Next]_vars
    PROVE  Records'
<1> USE DEF IInv, Records
<1>1. ASSUME NEW t \in Tasks, SendBegin(t) PROVE Records'
  <2>1. task' \in [Tasks -> Frames]
    BY <1>1, GotoEffect DEF SendBegin, Pcs, PainterPcs, SendPcs, Holding
  <2> QED BY <1>1, <2>1 DEF SendBegin
<1>2. ASSUME NEW t \in Tasks, SendSubmit(t) PROVE Records'
  <2>1. hist' \in Histories
    BY <1>2, SubmitCases, Fields
  <2> QED BY <1>2, <2>1, SubmitCases
<1>3. ASSUME NEW t \in Tasks, Looks(t) PROVE Records'
  BY <1>3, LooksEffect
<1>4. ASSUME NEW t \in Tasks, Leaves(t) PROVE Records'
  BY <1>4, LeavesEffect
<1>5. ASSUME chip_CursorCreate PROVE Records'
  <2>1. task' \in [Tasks -> Frames]
    BY <1>5, GotoEffect, ReturnEffect DEF chip_CursorCreate, Pcs, PainterPcs
  <2>2. gs' \in States
    BY <1>5, Fields, ZenonT(60) DEF chip_CursorCreate, FreedOnRefusal
  <2>3. host' \in Devices
    BY <1>5, Fields, ZenonT(60) DEF chip_CursorCreate
  <2>4. failed' \in Nat
    BY <1>5 DEF chip_CursorCreate
  <2> QED BY <1>5, <2>1, <2>2, <2>3, <2>4 DEF chip_CursorCreate, ring
<1>6. ASSUME Draw PROVE Records'
  <2>1. task' \in [Tasks -> Frames]
    BY <1>6, GotoEffect, ReturnEffect DEF Draw, Pcs, PainterPcs
  <2>2. bi.mouse - bi.xoff \in Int
    <3>1. bi.mouse \in Positions
      BY DEF BoardInfos
    <3> QED BY <3>1, Numbers
  <2>3. gs' \in States
    <3> DEFINE p == bi.mouse - bi.xoff
    <3>1. gs' = gs \/ gs' = [gs EXCEPT !.x = p]
      BY <1>6, Zenon DEF Draw
    <3>2. p \in Int
      BY <2>2, Zenon
    <3> HIDE DEF p
    <3>3. [gs EXCEPT !.x = p] \in States
      BY <3>2, Fields
    <3> QED BY <3>1, <3>3, ZenonT(60)
  <2>4. host' \in Devices
    BY <1>6, Fields, ZenonT(60) DEF Draw
  <2> QED BY <1>6, <2>1, <2>3, <2>4 DEF Draw, ring
<1>7. ASSUME chip_CursorUpdate PROVE Records'
  <2>1. gs.x \in Int
    BY Fields
  <2>2. task' \in [Tasks -> Frames]
    BY <1>7, <2>1, UnsignedNat, SendingEffect DEF chip_CursorUpdate, NextOf
  <2>3. host' \in Devices
    BY <1>7, Fields, ZenonT(60) DEF chip_CursorUpdate, Transferred
  <2> QED BY <1>7, <2>2, <2>3 DEF chip_CursorUpdate, ring
<1>8. ASSUME CursorUpdateRecord PROVE Records'
  <2>1. task' \in [Tasks -> Frames]
    BY <1>8, ReturnEffect DEF CursorUpdateRecord
  <2>2. gs' \in States
    BY <1>8, Fields, ZenonT(60) DEF CursorUpdateRecord
  <2>3. hist' \in Histories
    BY <1>8, Fields DEF CursorUpdateRecord
  <2> QED BY <1>8, <2>1, <2>2, <2>3 DEF CursorUpdateRecord, ring
<1>9. ASSUME chip_CursorMove PROVE Records'
  <2>1. task[Mover].vx \in Int
    BY DEF Frames
  <2>2. task' \in [Tasks -> Frames]
    BY <1>9, <2>1, UnsignedNat, SendingEffect DEF chip_CursorMove, NextOf
  <2>3. gs' \in States
    BY <1>9, <2>1, Fields DEF chip_CursorMove
  <2> QED BY <1>9, <2>2, <2>3 DEF chip_CursorMove, ring
<1>10. ASSUME Moved PROVE Records'
  <2>1. task[Mover].vx \in Int
    BY DEF Frames
  <2>2. task' \in [Tasks -> Frames]
    BY <1>10, ReturnEffect DEF Moved
  <2>3. gs' \in States
    BY <1>10, <2>1, Fields, ZenonT(60) DEF Moved, Recorded
  <2>4. hist' \in Histories
    BY <1>10, Fields DEF Moved
  <2> QED BY <1>10, <2>2, <2>3, <2>4 DEF Moved, ring
<1>11. ASSUME SetSpriteImage PROVE Records'
  <2>1. task' \in [Tasks -> Frames]
    BY <1>11, GotoEffect DEF SetSpriteImage, Pcs, PainterPcs
  <2>2. hist' \in Histories
    BY <1>11, Fields DEF SetSpriteImage, Overlaps
  <2> QED BY <1>11, <2>1, <2>2 DEF SetSpriteImage, ring
<1>12. ASSUME SetGC \/ SetPanning PROVE Records'
  <2>1. bi' \in BoardInfos
    BY <1>12 DEF SetGC, SetPanning, BoardInfos
  <2>2. gs' \in States
    BY <1>12, Fields, ZenonT(60) DEF SetGC, SetPanning
  <2> QED BY <1>12, <2>1, <2>2 DEF SetGC, SetPanning, ring
<1>13. ASSUME SetSpritePosition PROVE Records'
  <2>1. PICK x \in Positions :
           LET vx == Clamp(x - bi.xoff)
           IN /\ bi' = [bi EXCEPT !.mouse = x]
              /\ gs' = [gs EXCEPT !.x = vx]
              /\ IF MustMove(vx)
                 THEN task' = [task EXCEPT ![Mover].pc = "move", ![Mover].vx = vx]
                 ELSE UNCHANGED task
    BY <1>13 DEF SetSpritePosition
  <2> DEFINE vx == Clamp(x - bi.xoff)
  <2>2. vx \in Int
    BY Numbers
  <2>3. bi' \in BoardInfos
    BY <2>1 DEF BoardInfos
  <2>4. gs' \in States
    BY <2>1, <2>2, Fields
  <2>5. task' \in [Tasks -> Frames]
    <3>1. [task[Mover] EXCEPT !.pc = "move", !.vx = vx] \in Frames
      <4>1. \A f \in Frames, v \in Int : [f EXCEPT !.pc = "move", !.vx = v] \in Frames
        BY DEF Frames, Pcs, MoverPcs
      <4> QED BY <2>2, <4>1
    <3>2. \/ task' = [task EXCEPT ![Mover] = [task[Mover] EXCEPT !.pc = "move", !.vx = vx]]
          \/ task' = task
      BY <2>1
    <3> HIDE DEF vx
    <3> QED BY <3>1, <3>2
  <2>6. hist' \in Histories
    BY <1>13, Fields DEF SetSpritePosition, Overlaps
  <2> QED BY <1>13, <2>3, <2>4, <2>5, <2>6 DEF SetSpritePosition, ring
<1>14. ASSUME DeviceCursor PROVE Records'
  <2>1. avail' \in Seq(Entries) /\ Len(avail') = Len(avail) - 1
    BY <1>14, HeadTailProperties DEF DeviceCursor
  <2>2. used' \in Seq(Tasks)
    <3>1. Head(avail).by \in Tasks
      <4>1. avail # <<>> /\ avail \in Seq(Entries)
        BY <1>14 DEF DeviceCursor
      <4>2. Head(avail) \in Entries
        BY <4>1, HeadTailProperties
      <4> QED BY <4>2
    <3> QED BY <1>14, <3>1, AppendProperties DEF DeviceCursor
  <2>3. host' \in Devices
    BY <1>14, Fields DEF DeviceCursor
  <2> QED BY <1>14, <2>1, <2>2, <2>3, SMTT(60) DEF DeviceCursor
<1>15. CASE Silent
  BY <1>15 DEF Silent
<1> QED BY <1>1, <1>2, <1>3, <1>4, <1>5, <1>6, <1>7, <1>8, <1>9, <1>10, <1>11, <1>12,
           <1>13, <1>14, <1>15, Steps

\* Where a callback goes on, by the kind of step.
LEMMA PainterStep ==
    ASSUME IInv, chip_CursorCreate \/ Draw \/ chip_CursorUpdate \/ CursorUpdateRecord
    PROVE  /\ task'[Mover] = task[Mover] /\ UNCHANGED <<bi, lock, cmdbuf, avail, used, gaveUp>>
           /\ \/ /\ chip_CursorCreate /\ At(Painter, "create")
                 /\ task'[Painter].pc \in {"draw", "idle"}
              \/ /\ Draw /\ At(Painter, "draw") /\ task'[Painter].pc \in {"update", "idle"}
              \/ /\ chip_CursorUpdate /\ At(Painter, "update") /\ task'[Painter].pc = "lock"
                 /\ task'[Painter].type = "UPDATE" /\ task'[Painter].next = "record"
                 /\ task'[Painter].pos = Unsigned(gs.x)
              \/ /\ CursorUpdateRecord /\ At(Painter, "record") /\ task'[Painter].pc = "idle"
<1>1. Records /\ Mover \in Tasks \ {Painter} /\ Painter \in Tasks
  BY DEF IInv
<1>2. ASSUME chip_CursorCreate
      PROVE  /\ At(Painter, "create") /\ task'[Painter].pc \in {"draw", "idle"}
             /\ task'[Mover] = task[Mover] /\ UNCHANGED <<bi, lock, cmdbuf, avail, used, gaveUp>>
  BY <1>1, <1>2, GotoEffect, ReturnEffect DEF chip_CursorCreate, ring, Pcs, PainterPcs
<1>3. ASSUME Draw
      PROVE  /\ At(Painter, "draw") /\ task'[Painter].pc \in {"update", "idle"}
             /\ task'[Mover] = task[Mover] /\ UNCHANGED <<bi, lock, cmdbuf, avail, used, gaveUp>>
  BY <1>1, <1>3, GotoEffect, ReturnEffect DEF Draw, ring, Pcs, PainterPcs
<1>4. ASSUME chip_CursorUpdate
      PROVE  /\ At(Painter, "update") /\ task'[Painter].pc = "lock"
             /\ task'[Painter].type = "UPDATE" /\ task'[Painter].next = "record"
             /\ task'[Painter].pos = Unsigned(gs.x)
             /\ task'[Mover] = task[Mover] /\ UNCHANGED <<bi, lock, cmdbuf, avail, used, gaveUp>>
  <2>1. gs.x \in Int
    BY <1>1, Fields DEF Records
  <2> QED BY <1>1, <1>4, <2>1, UnsignedNat, SendingEffect DEF chip_CursorUpdate, ring, NextOf
<1>5. ASSUME CursorUpdateRecord
      PROVE  /\ At(Painter, "record") /\ task'[Painter].pc = "idle"
             /\ task'[Mover] = task[Mover] /\ UNCHANGED <<bi, lock, cmdbuf, avail, used, gaveUp>>
  BY <1>1, <1>5, ReturnEffect DEF CursorUpdateRecord, ring
<1> QED BY <1>2, <1>3, <1>4, <1>5

LEMMA MoverStep ==
    ASSUME IInv, chip_CursorMove \/ Moved
    PROVE  /\ task'[Painter] = task[Painter]
           /\ UNCHANGED <<bi, lock, cmdbuf, avail, used, host, gaveUp, failed>>
           /\ \/ /\ chip_CursorMove /\ At(Mover, "move") /\ task'[Mover].pc = "lock"
                 /\ task'[Mover].type = "MOVE" /\ task'[Mover].next = "moved"
                 /\ task'[Mover].pos = Unsigned(task[Mover].vx)
                 /\ task'[Mover].vx = task[Mover].vx
              \/ /\ Moved /\ At(Mover, "moved") /\ task'[Mover].pc = "idle"
<1>1. Records /\ Painter \in Tasks \ {Mover} /\ Mover \in Tasks
  BY DEF IInv
<1>2. ASSUME chip_CursorMove
      PROVE  /\ task'[Painter] = task[Painter]
             /\ UNCHANGED <<bi, lock, cmdbuf, avail, used, host, gaveUp, failed>>
             /\ At(Mover, "move") /\ task'[Mover].pc = "lock"
             /\ task'[Mover].type = "MOVE" /\ task'[Mover].next = "moved"
             /\ task'[Mover].pos = Unsigned(task[Mover].vx)
             /\ task'[Mover].vx = task[Mover].vx
  <2>1. task[Mover].vx \in Int
    BY <1>1 DEF Records, Frames
  <2> QED BY <1>1, <1>2, <2>1, UnsignedNat, SendingEffect DEF chip_CursorMove, ring, NextOf
<1>3. ASSUME Moved
      PROVE  /\ task'[Painter] = task[Painter]
             /\ UNCHANGED <<bi, lock, cmdbuf, avail, used, host, gaveUp, failed>>
             /\ At(Mover, "moved") /\ task'[Mover].pc = "idle"
  BY <1>1, <1>3, ReturnEffect DEF Moved, ring
<1> QED BY <1>2, <1>3

\* A callback begins.
LEMMA BeginStep ==
    ASSUME IInv, SetSpriteImage \/ SetSpritePosition
    PROVE  /\ UNCHANGED <<lock, cmdbuf, avail, used, host, gaveUp, failed>>
           /\ hist'.dropped = hist.dropped /\ hist'.drift = hist.drift
           /\ gs'.created = gs.created /\ gs'.buf = gs.buf /\ gs'.last_sent = gs.last_sent
           /\ \/ /\ SetSpriteImage /\ task'[Mover] = task[Mover] /\ gs' = gs
                 /\ At(Painter, "idle") /\ task'[Painter].pc \in {"draw", "create"}
                 /\ hist'.overlap = ~At(Mover, "idle")
              \/ /\ SetSpritePosition /\ task'[Painter] = task[Painter]
                 /\ At(Mover, "idle") /\ task'[Mover].pc \in {"move", "idle"}
                 /\ hist'.overlap = ~At(Painter, "idle")
<1>1. Records /\ Painter \in Tasks /\ Mover \in Tasks /\ Painter # Mover
  BY DEF IInv
<1>2. UNCHANGED <<lock, cmdbuf, avail, used, host, gaveUp, failed>>
  BY DEF SetSpriteImage, SetSpritePosition, ring
<1>3. /\ hist'.dropped = hist.dropped /\ hist'.drift = hist.drift
      /\ SetSpriteImage => hist'.overlap = ~At(Mover, "idle")
      /\ SetSpritePosition => hist'.overlap = ~At(Painter, "idle")
  BY <1>1 DEF SetSpriteImage, SetSpritePosition, Overlaps, Records, Histories
<1>4. gs'.created = gs.created /\ gs'.buf = gs.buf /\ gs'.last_sent = gs.last_sent
  BY <1>1 DEF SetSpriteImage, SetSpritePosition, Records, States
<1>5. ASSUME SetSpriteImage
      PROVE  /\ task'[Mover] = task[Mover] /\ gs' = gs
             /\ At(Painter, "idle") /\ task'[Painter].pc \in {"draw", "create"}
  BY <1>1, <1>5, GotoEffect DEF SetSpriteImage, Pcs, PainterPcs
<1>6. ASSUME SetSpritePosition
      PROVE  /\ task'[Painter] = task[Painter]
             /\ At(Mover, "idle") /\ task'[Mover].pc \in {"move", "idle"}
  <2>1. At(Mover, "idle") /\ task \in [Tasks -> Frames]
    BY <1>1, <1>6 DEF SetSpritePosition, Records
  <2>2. \/ \E v : task' = [task EXCEPT ![Mover].pc = "move", ![Mover].vx = v]
        \/ task' = task
    BY <1>6 DEF SetSpritePosition
  <2>3. CASE task' = task
    BY <2>1, <2>3 DEF At
  <2>4. ASSUME NEW v, task' = [task EXCEPT ![Mover].pc = "move", ![Mover].vx = v]
        PROVE  task'[Mover].pc = "move" /\ task'[Painter] = task[Painter]
    <3>1. [task EXCEPT ![Mover].pc = "move", ![Mover].vx = v][Mover].pc = "move"
      BY <1>1, <2>1 DEF Frames
    <3>2. [task EXCEPT ![Mover].pc = "move", ![Mover].vx = v][Painter] = task[Painter]
      BY <1>1, <2>1
    <3> QED BY <2>4, <3>1, <3>2
  <2> QED BY <2>1, <2>2, <2>3, <2>4
<1> QED BY <1>2, <1>3, <1>4, <1>5, <1>6, Zenon

\* Every call goes its own way and holds the lock only while it sends.
LEMMA CallersNext ==
    ASSUME IInv, [Next]_vars
    PROVE  Callers'
<1>0. Records /\ Callers /\ Painter \in Tasks /\ Mover \in Tasks
  BY DEF IInv
<1> USE DEF Callers, Pcs, PainterPcs, MoverPcs, SendPcs, Holding, Sent, TypeOf, NextOf
<1>1. ASSUME NEW t \in Tasks, SendBegin(t) PROVE Callers'
  <2>1. /\ task'[t].pc = "fill" /\ task'[t].type = task[t].type /\ task'[t].next = task[t].next
        /\ \A u \in Tasks \ {t} : task'[u] = task[u]
    BY <1>0, <1>1, GotoEffect DEF SendBegin
  <2>2. task[t].pc = "lock" /\ lock = None /\ lock' = t
    BY <1>1 DEF SendBegin, At
  <2> QED BY <1>0, <2>1, <2>2
<1>2. ASSUME NEW t \in Tasks, SendSubmit(t) PROVE Callers'
  <2>1. /\ task[t].pc = "fill" /\ \A u \in Tasks \ {t} : task'[u] = task[u]
        /\ lock = t
        /\ \/ task'[t].pc = "arm" /\ task'[t].next = NextOf(t) /\ lock' = t
           \/ task'[t].pc = NextOf(t) /\ lock' = None
    BY <1>0, <1>2, SubmitCases DEF At
  <2> QED BY <1>0, <2>1
<1>3. ASSUME NEW t \in Tasks, Looks(t) PROVE Callers'
  <2>1. /\ task[t].pc \in Sent /\ task'[t].pc \in Sent /\ task'[t].next = task[t].next
        /\ \A u \in Tasks \ {t} : task'[u] = task[u]
        /\ lock' = lock
    BY <1>0, <1>3, LooksEffect
  <2> QED BY <1>0, <2>1
<1>4. ASSUME NEW t \in Tasks, Leaves(t) PROVE Callers'
  <2>1. /\ task[t].pc \in Sent /\ task'[t].pc = NextOf(t)
        /\ \A u \in Tasks \ {t} : task'[u] = task[u]
        /\ lock' = None
    BY <1>0, <1>4, LeavesEffect
  <2>2. lock = t
    BY <1>0, <2>1
  <2> QED BY <1>0, <2>1, <2>2
<1>5. ASSUME chip_CursorCreate \/ Draw \/ chip_CursorUpdate \/ CursorUpdateRecord
      PROVE  Callers'
  BY <1>0, <1>5, PainterStep DEF At
<1>6. ASSUME chip_CursorMove \/ Moved PROVE Callers'
  BY <1>0, <1>6, MoverStep DEF At
<1>7. ASSUME SetSpriteImage \/ SetSpritePosition PROVE Callers'
  BY <1>0, <1>7, BeginStep DEF At
<1>8. ASSUME SetGC \/ SetPanning PROVE Callers'
  BY <1>0, <1>8 DEF SetGC, SetPanning, At
<1>9. ASSUME DeviceCursor PROVE Callers'
  BY <1>0, <1>9 DEF DeviceCursor, At
<1>10. CASE Silent
  BY <1>0, <1>10 DEF Silent
<1> QED BY <1>1, <1>2, <1>3, <1>4, <1>5, <1>6, <1>7, <1>8, <1>9, <1>10, Steps

\* Every outcome of chip_CursorCreate keeps driver and device in agreement.
LEMMA CreatedNext ==
    ASSUME IInv, [Next]_vars
    PROVE  CreatedMeansBacked'
<1>0. Records /\ Callers /\ CreatedMeansBacked /\ gs \in States /\ host \in Devices
  BY DEF IInv, Records
<1> USE DEF CreatedMeansBacked
<1>1. ASSUME NEW t \in Tasks, SendBegin(t) PROVE CreatedMeansBacked'
  BY <1>0, <1>1 DEF SendBegin
<1>2. ASSUME NEW t \in Tasks, SendSubmit(t) PROVE CreatedMeansBacked'
  BY <1>0, <1>2 DEF SendSubmit
<1>3. ASSUME NEW t \in Tasks, Looks(t) PROVE CreatedMeansBacked'
  BY <1>0, <1>3, LooksEffect
<1>4. ASSUME NEW t \in Tasks, Leaves(t) PROVE CreatedMeansBacked'
  BY <1>0, <1>4, LeavesEffect
<1>5. ASSUME chip_CursorCreate \/ Draw \/ chip_CursorUpdate \/ CursorUpdateRecord
      PROVE  CreatedMeansBacked'
  <2>1. ASSUME chip_CursorCreate PROVE CreatedMeansBacked'
    BY <1>0, <2>1 DEF chip_CursorCreate, States, Devices, CreateRefused, FreedOnRefusal
  <2>2. ASSUME Draw \/ chip_CursorUpdate \/ CursorUpdateRecord PROVE CreatedMeansBacked'
    BY <1>0, <2>2 DEF Draw, chip_CursorUpdate, CursorUpdateRecord, States, Devices
  <2> QED BY <1>5, <2>1, <2>2
<1>6. ASSUME chip_CursorMove \/ Moved PROVE CreatedMeansBacked'
  BY <1>0, <1>6 DEF chip_CursorMove, Moved, States
<1>7. ASSUME SetSpriteImage \/ SetSpritePosition PROVE CreatedMeansBacked'
  BY <1>0, <1>7, BeginStep
<1>8. ASSUME SetGC \/ SetPanning PROVE CreatedMeansBacked'
  BY <1>0, <1>8 DEF SetGC, SetPanning, States
<1>9. ASSUME DeviceCursor PROVE CreatedMeansBacked'
  BY <1>0, <1>9 DEF DeviceCursor, Devices
<1>10. CASE Silent
  BY <1>0, <1>10 DEF Silent
<1> QED BY <1>1, <1>2, <1>3, <1>4, <1>5, <1>6, <1>7, <1>8, <1>9, <1>10, Steps

\* An entry is taken off before the lock is passed on, unless a wait is given up.
LEMMA OneEntryNext ==
    ASSUME IInv, [Next]_vars
    PROVE  OneEntry'
<1>0. Records /\ Callers /\ OneEntry /\ avail \in Seq(Entries) /\ used \in Seq(Tasks)
  BY DEF IInv, Records
<1>00. /\ hist \in Histories /\ gaveUp \in Nat
       /\ \A t, u \in Tasks : task[t].pc \in Holding /\ task[u].pc \in Holding => t = u
  BY <1>0 DEF Records, Callers
<1> USE DEF OneEntry
<1>1. ASSUME NEW t \in Tasks, SendBegin(t) PROVE OneEntry'
  <2>1. /\ task'[t].pc = "fill" /\ \A u \in Tasks \ {t} : task'[u] = task[u]
    BY <1>0, <1>1, GotoEffect DEF SendBegin, Pcs, PainterPcs, SendPcs, Holding
  <2>2. /\ task[t].pc = "lock" /\ lock = None /\ used' = <<>>
        /\ UNCHANGED <<avail, cmdbuf, gaveUp, hist>>
    BY <1>1 DEF SendBegin, At
  <2>3. \A u \in Tasks : task[u].pc \notin Sent
    BY <1>0, <2>2 DEF Callers, Holding
  <2>4. gaveUp' = 0 => avail' = <<>>
    BY <1>0, <2>2, <2>3
  <2> QED BY <1>0, <2>2, <2>4
<1>2. ASSUME NEW t \in Tasks, SendSubmit(t) PROVE OneEntry'
  <2> SUFFICES ASSUME gaveUp' = 0 PROVE OneEntry'
    BY Zenon
  <2>1. /\ task[t].pc = "fill" /\ gaveUp = 0 /\ used' = used /\ cmdbuf'.type = TypeOf(t)
        /\ lock = t /\ \A u \in Tasks \ {t} : task'[u] = task[u]
        /\ \/ /\ task'[t].pc = "arm" /\ hist' = [hist EXCEPT !.dropped = FALSE]
              /\ avail' = Append(Overwritten, [by |-> t, intact |-> TRUE])
           \/ Len(avail) + Len(used) >= QueueNum
    BY <1>0, <1>2, SubmitCases DEF At
  <2>2. used = <<>>
    BY <1>0, <2>1 DEF At
  <2>3. \A u \in Tasks : task[u].pc \notin Sent
    BY <1>00, <2>1 DEF Holding, Sent
  <2>4. avail = <<>>
    BY <1>0, <2>1, <2>3
  <2>5. ~(Len(avail) + Len(used) >= QueueNum)
    BY <2>2, <2>4
  <2>6. Overwritten = <<>>
    BY <1>0, <2>4, OverwrittenEntries
  <2>7. avail' = <<[by |-> t, intact |-> TRUE]>>
    BY <2>1, <2>5, <2>6
  <2>8. ~hist'.dropped
    BY <1>00, <2>1, <2>5 DEF Histories
  <2>9. task'[t].pc \in Sent
    BY <2>1, <2>5 DEF Sent
  <2> QED BY <2>1, <2>2, <2>7, <2>8, <2>9
<1>3. ASSUME NEW t \in Tasks, Looks(t) PROVE OneEntry'
  <2>1. /\ task[t].pc \in Sent /\ task'[t].pc \in Sent
        /\ \A u \in Tasks \ {t} : task'[u] = task[u]
        /\ used = <<>> => used' = <<>>
        /\ UNCHANGED <<cmdbuf, avail, gaveUp, hist>>
    BY <1>0, <1>3, LooksEffect
  <2>2. \A u \in Tasks : task'[u].pc = "fill" => FALSE
    BY <1>00, <2>1 DEF Holding, Sent
  <2> QED BY <1>0, <2>1, <2>2 DEF At
<1>4. ASSUME NEW t \in Tasks, Leaves(t) PROVE OneEntry'
  <2> SUFFICES ASSUME gaveUp' = 0 PROVE OneEntry'
    BY Zenon
  <2>1. /\ task[t].pc \in Sent /\ task'[t].pc = NextOf(t)
        /\ \A u \in Tasks \ {t} : task'[u] = task[u]
        /\ gaveUp' = gaveUp /\ used # <<>>
        /\ UNCHANGED <<avail, hist>>
    BY <1>0, <1>00, <1>4, LeavesEffect
  <2>2. avail = <<>> /\ ~hist.dropped
    BY <1>0, <2>1
  <2>3. \A u \in Tasks : task'[u].pc # "fill"
    BY <1>00, <2>1 DEF Holding, Sent, NextOf
  <2> QED BY <2>1, <2>2, <2>3 DEF At
<1>5. ASSUME chip_CursorCreate \/ Draw \/ chip_CursorUpdate \/ CursorUpdateRecord
      PROVE  OneEntry'
  <2>1. hist'.dropped = hist.dropped
    BY <1>00, <1>5 DEF chip_CursorCreate, Draw, chip_CursorUpdate, CursorUpdateRecord, Histories
  <2>2. /\ task[Painter].pc \notin Holding /\ task'[Painter].pc \notin Holding
        /\ task'[Mover] = task[Mover] /\ UNCHANGED <<cmdbuf, avail, used, gaveUp>>
    BY <1>5, PainterStep DEF At, Holding, Sent
  <2> QED BY <1>0, <2>1, <2>2 DEF At, Holding
<1>6. ASSUME chip_CursorMove \/ Moved PROVE OneEntry'
  <2>1. hist'.dropped = hist.dropped
    BY <1>00, <1>6 DEF chip_CursorMove, Moved, Histories
  <2>2. /\ task[Mover].pc \notin Holding /\ task'[Mover].pc \notin Holding
        /\ task'[Painter] = task[Painter] /\ UNCHANGED <<cmdbuf, avail, used, gaveUp>>
    BY <1>6, MoverStep DEF At, Holding, Sent
  <2> QED BY <1>0, <2>1, <2>2 DEF At, Holding
<1>7. ASSUME SetSpriteImage \/ SetSpritePosition PROVE OneEntry'
  <2>1. /\ hist'.dropped = hist.dropped /\ UNCHANGED <<cmdbuf, avail, used, gaveUp>>
        /\ \E t \in Tasks : /\ task[t].pc \notin Holding /\ task'[t].pc \notin Holding
                            /\ \A u \in Tasks \ {t} : task'[u] = task[u]
    BY <1>7, BeginStep DEF At, Holding, Sent
  <2> QED BY <1>0, <2>1 DEF At, Holding
<1>8. ASSUME SetGC \/ SetPanning PROVE OneEntry'
  BY <1>0, <1>8 DEF SetGC, SetPanning, ring, At
<1>9. ASSUME DeviceCursor PROVE OneEntry'
  <2> SUFFICES ASSUME gaveUp = 0 PROVE OneEntry'
    BY <1>9 DEF DeviceCursor
  <2>1. avail # <<>> /\ avail' = Tail(avail) /\ UNCHANGED <<task, gaveUp, hist>>
    BY <1>9 DEF DeviceCursor
  <2>2. avail' = <<>> /\ ~hist'.dropped
    BY <1>0, <2>1
  <2>3. PICK t \in Tasks : task[t].pc \in Sent
    BY <1>0, <2>1
  <2>4. \A u \in Tasks : task'[u].pc # "fill"
    BY <1>00, <2>1, <2>3 DEF Holding, Sent
  <2> QED BY <2>2, <2>4 DEF At
<1>10. CASE Silent
  BY <1>0, <1>10 DEF Silent, At
<1> QED BY <1>1, <1>2, <1>3, <1>4, <1>5, <1>6, <1>7, <1>8, <1>9, <1>10, Steps

\* The device follows the buffer.
LEMMA FollowedNext ==
    ASSUME IInv, [Next]_vars
    PROVE  Followed'
<1>0. Records /\ Callers /\ Followed /\ host \in Devices /\ hist \in Histories
  BY DEF IInv, Records
<1> USE DEF Followed
<1>1. ASSUME NEW t \in Tasks, SendBegin(t) PROVE Followed'
  BY <1>0, <1>1 DEF SendBegin
<1>2. ASSUME NEW t \in Tasks, SendSubmit(t) PROVE Followed'
  <2>1. avail' # <<>> \/ hist' = [hist EXCEPT !.dropped = TRUE]
    BY <1>0, <1>2, SubmitCases
  <2>2. avail' # <<>> \/ hist'.dropped
    BY <1>0, <2>1 DEF Histories
  <2> QED BY <2>2
<1>3. ASSUME NEW t \in Tasks, Looks(t) PROVE Followed'
  BY <1>0, <1>3, LooksEffect
<1>4. ASSUME NEW t \in Tasks, Leaves(t) PROVE Followed'
  BY <1>0, <1>4, LeavesEffect
<1>5. ASSUME chip_CursorCreate \/ Draw \/ chip_CursorUpdate \/ CursorUpdateRecord
      PROVE  Followed'
  <2>1. hist'.dropped = hist.dropped /\ host'.pos = host.pos
    BY <1>0, <1>5 DEF chip_CursorCreate, Draw, chip_CursorUpdate, CursorUpdateRecord,
                      Histories, Devices
  <2> QED BY <1>0, <1>5, <2>1, PainterStep
<1>6. ASSUME chip_CursorMove \/ Moved PROVE Followed'
  <2>1. hist'.dropped = hist.dropped
    BY <1>0, <1>6 DEF chip_CursorMove, Moved, Histories
  <2> QED BY <1>0, <1>6, <2>1, MoverStep
<1>7. ASSUME SetSpriteImage \/ SetSpritePosition PROVE Followed'
  BY <1>0, <1>7, BeginStep
<1>8. ASSUME SetGC \/ SetPanning PROVE Followed'
  BY <1>0, <1>8 DEF SetGC, SetPanning, ring
<1>9. ASSUME DeviceCursor PROVE Followed'
  BY <1>0, <1>9 DEF DeviceCursor, Devices
<1>10. CASE Silent
  BY <1>0, <1>10 DEF Silent
<1> QED BY <1>1, <1>2, <1>3, <1>4, <1>5, <1>6, <1>7, <1>8, <1>9, <1>10, Steps

\* A callback that is alone sends what it will record.
LEMMA AloneNext ==
    ASSUME IInv, [Next]_vars
    PROVE  Alone'
<1>0. Records /\ Callers /\ Alone /\ hist \in Histories /\ gs \in States
  BY DEF IInv, Records
<1>00. Painter \in Tasks /\ Mover \in Tasks /\ Painter # Mover /\ Tasks = {Painter, Mover}
  OBVIOUS
<1> USE DEF Alone, AboutToSend, Recording, Sent
<1>1. ASSUME NEW t \in Tasks, SendBegin(t) PROVE Alone'
  <2>1. /\ task'[t].pc = "fill" /\ task'[t].pos = task[t].pos /\ task'[t].vx = task[t].vx
        /\ \A u \in Tasks \ {t} : task'[u] = task[u]
        /\ task[t].pc = "lock"
    BY <1>0, <1>1, GotoEffect DEF SendBegin, At, Pcs, PainterPcs, SendPcs, Holding
  <2>2. UNCHANGED <<gs, cmdbuf, hist>>
    BY <1>1 DEF SendBegin
  <2> QED BY <1>0, <1>00, <2>1, <2>2 DEF At
<1>2. ASSUME NEW t \in Tasks, SendSubmit(t) PROVE Alone'
  <2>1. /\ task[t].pc = "fill" /\ cmdbuf'.pos = task[t].pos /\ task'[t].vx = task[t].vx
        /\ \A u \in Tasks \ {t} : task'[u] = task[u]
        /\ gs' = gs /\ task'[t].pc \in {"arm", NextOf(t)}
    BY <1>0, <1>2, SubmitCases DEF At
  <2>2. hist'.overlap = hist.overlap
    BY <1>0, <1>2 DEF SendSubmit, Histories
  <2> QED BY <1>0, <1>00, <2>1, <2>2 DEF At, NextOf
<1>3. ASSUME NEW t \in Tasks, Looks(t) PROVE Alone'
  <2>1. /\ task[t].pc \in Sent /\ task'[t].pc \in Sent /\ task'[t].vx = task[t].vx
        /\ \A u \in Tasks \ {t} : task'[u] = task[u]
        /\ UNCHANGED <<gs, cmdbuf, hist>>
    BY <1>0, <1>3, LooksEffect
  <2> QED BY <1>0, <1>00, <2>1 DEF At
<1>4. ASSUME NEW t \in Tasks, Leaves(t) PROVE Alone'
  <2>1. /\ task[t].pc \in Sent /\ task'[t].pc = NextOf(t) /\ task'[t].vx = task[t].vx
        /\ \A u \in Tasks \ {t} : task'[u] = task[u]
        /\ UNCHANGED <<gs, cmdbuf, hist>>
    BY <1>0, <1>4, LeavesEffect
  <2> QED BY <1>0, <1>00, <2>1 DEF At, NextOf
<1>5. ASSUME chip_CursorCreate \/ Draw \/ chip_CursorUpdate \/ CursorUpdateRecord
      PROVE  Alone'
  <2>1. hist'.overlap = hist.overlap
    BY <1>0, <1>5 DEF chip_CursorCreate, Draw, chip_CursorUpdate, CursorUpdateRecord, Histories
  <2>2. chip_CursorUpdate => gs' = gs
    BY DEF chip_CursorUpdate
  <2>3. task[Mover].pc \in MoverPcs
    BY <1>0 DEF Callers
  <2> QED BY <1>0, <1>00, <1>5, <2>1, <2>2, <2>3, PainterStep DEF At
<1>6. ASSUME chip_CursorMove \/ Moved PROVE Alone'
  <2>1. hist'.overlap = hist.overlap
    BY <1>0, <1>6 DEF chip_CursorMove, Moved, Histories
  <2> QED BY <1>0, <1>00, <1>6, <2>1, MoverStep DEF At
<1>7. ASSUME SetSpriteImage \/ SetSpritePosition PROVE Alone'
  BY <1>0, <1>00, <1>7, BeginStep DEF At
<1>8. ASSUME SetGC \/ SetPanning PROVE Alone'
  <2>1. gs'.x = gs.x /\ UNCHANGED <<task, cmdbuf, hist>>
    BY <1>0, <1>8 DEF SetGC, SetPanning, States
  <2> QED BY <1>0, <2>1 DEF At
<1>9. ASSUME DeviceCursor PROVE Alone'
  BY <1>0, <1>9 DEF DeviceCursor, At
<1>10. CASE Silent
  BY <1>0, <1>10 DEF Silent, At
<1> QED BY <1>1, <1>2, <1>3, <1>4, <1>5, <1>6, <1>7, <1>8, <1>9, <1>10, Steps

\* A callback records the place it sent unless others have overlapped.
LEMMA PlacedNext ==
    ASSUME IInv, [Next]_vars
    PROVE  Placed'
<1>0. Records /\ Callers /\ Alone /\ Placed /\ hist \in Histories /\ gs \in States
  BY DEF IInv, Records
<1>00. Painter \in Tasks /\ Mover \in Tasks /\ Painter # Mover /\ Tasks = {Painter, Mover}
  OBVIOUS
<1> USE DEF Placed, Recording, Sent
<1>1. ASSUME NEW t \in Tasks, SendBegin(t) PROVE Placed'
  <2>1. /\ task[t].pc = "lock" /\ \A u \in Tasks \ {t} : task'[u] = task[u]
        /\ UNCHANGED <<gs, cmdbuf, hist>>
    BY <1>0, <1>1, GotoEffect DEF SendBegin, At, Pcs, PainterPcs, SendPcs, Holding
  <2> QED BY <1>0, <2>1
<1>2. ASSUME NEW t \in Tasks, SendSubmit(t) PROVE Placed'
  <2>1. task'[t].pc \in {"arm", NextOf(t)}
    BY <1>0, <1>2, SubmitCases
  <2> QED BY <2>1 DEF NextOf
<1>3. ASSUME NEW t \in Tasks, Looks(t) PROVE Placed'
  <2>1. task'[t].pc \in Sent
    BY <1>0, <1>3, LooksEffect
  <2> QED BY <2>1
<1>4. ASSUME NEW t \in Tasks, Leaves(t) PROVE Placed'
  <2>1. task'[t].pc = NextOf(t)
    BY <1>0, <1>4, LeavesEffect
  <2> QED BY <2>1 DEF NextOf
<1>5. ASSUME chip_CursorCreate \/ Draw \/ chip_CursorUpdate \/ CursorUpdateRecord
      PROVE  Placed'
  <2>1. CASE CursorUpdateRecord
    <3>1. /\ gs'.last_sent = gs.x /\ hist'.drift = hist.overlap /\ cmdbuf' = cmdbuf
          /\ Recording(Painter)
      BY <1>0, <2>1 DEF CursorUpdateRecord, States, Histories, At
    <3> QED BY <1>0, <3>1 DEF Alone
  <2>2. CASE chip_CursorCreate \/ Draw \/ chip_CursorUpdate
    <3>1. gs'.last_sent = gs.last_sent /\ hist' = hist
      BY <1>0, <2>2 DEF chip_CursorCreate, Draw, chip_CursorUpdate, States
    <3>2. task[Painter].pc \in {"create", "draw", "update"}
      BY <2>2 DEF chip_CursorCreate, Draw, chip_CursorUpdate, At
    <3> QED BY <1>0, <1>00, <1>5, <3>1, <3>2, PainterStep
  <2> QED BY <1>5, <2>1, <2>2
<1>6. ASSUME chip_CursorMove \/ Moved PROVE Placed'
  <2>1. CASE Moved
    <3>1. /\ gs'.last_sent = task[Mover].vx /\ hist'.drift = hist.overlap /\ cmdbuf' = cmdbuf
          /\ Recording(Mover)
      BY <1>0, <2>1 DEF Moved, Recorded, States, Histories, At
    <3> QED BY <1>0, <3>1 DEF Alone
  <2>2. CASE chip_CursorMove
    <3>1. gs'.last_sent = gs.last_sent /\ hist' = hist /\ task[Mover].pc = "move"
      BY <1>0, <2>2 DEF chip_CursorMove, States, At
    <3> QED BY <1>0, <1>00, <1>6, <3>1, MoverStep
  <2> QED BY <1>6, <2>1, <2>2
<1>7. ASSUME SetSpriteImage \/ SetSpritePosition PROVE Placed'
  BY <1>0, <1>00, <1>7, BeginStep DEF At
<1>8. ASSUME SetGC \/ SetPanning PROVE Placed'
  <2>1. gs'.last_sent = gs.last_sent /\ UNCHANGED <<task, cmdbuf, hist>>
    BY <1>0, <1>8 DEF SetGC, SetPanning, States
  <2> QED BY <1>0, <2>1
<1>9. ASSUME DeviceCursor PROVE Placed'
  BY <1>0, <1>9 DEF DeviceCursor
<1>10. CASE Silent
  BY <1>0, <1>10 DEF Silent
<1> QED BY <1>1, <1>2, <1>3, <1>4, <1>5, <1>6, <1>7, <1>8, <1>9, <1>10, Steps

\* A picture that is drawn is on its way to the device until it is shown.
LEMMA PaintedNext ==
    ASSUME IInv, [Next]_vars
    PROVE  Painted'
<1>0. Records /\ Callers /\ OneEntry /\ Painted /\ host \in Devices /\ failed \in Nat
      /\ gaveUp \in Nat /\ avail \in Seq(Entries)
  BY DEF IInv, Records
<1>00. Painter \in Tasks /\ Mover \in Tasks /\ Painter # Mover /\ Tasks = {Painter, Mover}
  OBVIOUS
<1> USE DEF Painted, AboutToSend
<1>1. ASSUME NEW t \in Tasks, SendBegin(t) PROVE Painted'
  <2>1. /\ task[t].pc = "lock" /\ task'[t].pc = "fill"
        /\ \A u \in Tasks \ {t} : task'[u] = task[u]
        /\ UNCHANGED <<host, avail, gaveUp, failed>>
    BY <1>0, <1>1, GotoEffect DEF SendBegin, At, Pcs, PainterPcs, SendPcs, Holding
  <2> QED BY <1>0, <1>00, <2>1 DEF At, Sent
<1>2. ASSUME NEW t \in Tasks, SendSubmit(t) PROVE Painted'
  <2> SUFFICES ASSUME gaveUp' = 0, failed' = 0 PROVE Painted'
    BY Zenon
  <2>1. /\ task[t].pc = "fill" /\ \A u \in Tasks \ {t} : task'[u] = task[u]
        /\ UNCHANGED <<host, gaveUp, failed, used>>
        /\ \/ task'[t].pc = "arm" /\ avail' # <<>>
           \/ hist' = [hist EXCEPT !.dropped = TRUE]
    BY <1>0, <1>2, SubmitCases DEF At
  <2>2. ~hist'.dropped
    BY <2>1, OneEntryNext DEF OneEntry
  <2>3. task'[t].pc = "arm" /\ avail' # <<>>
    BY <2>1, <2>2 DEF IInv, Records, Histories
  <2> QED BY <1>0, <1>00, <2>1, <2>3 DEF At, Sent
<1>3. ASSUME NEW t \in Tasks, Looks(t) PROVE Painted'
  <2>1. /\ task[t].pc \in Sent /\ task'[t].pc \in Sent
        /\ \A u \in Tasks \ {t} : task'[u] = task[u]
        /\ UNCHANGED <<host, avail, gaveUp, failed>>
    BY <1>0, <1>3, LooksEffect
  <2> QED BY <1>0, <1>00, <2>1 DEF At, Sent
<1>4. ASSUME NEW t \in Tasks, Leaves(t) PROVE Painted'
  <2> SUFFICES ASSUME gaveUp' = 0 PROVE Painted'
    BY Zenon
  <2>1. /\ task[t].pc \in Sent /\ task'[t].pc = NextOf(t)
        /\ \A u \in Tasks \ {t} : task'[u] = task[u]
        /\ gaveUp' = gaveUp /\ used # <<>>
        /\ UNCHANGED <<host, avail, failed>>
    BY <1>0, <1>4, LeavesEffect
  <2>2. avail = <<>>
    BY <1>0, <2>1 DEF OneEntry
  <2> QED BY <1>0, <1>00, <2>1, <2>2 DEF At, Sent
<1>5. ASSUME chip_CursorCreate \/ Draw \/ chip_CursorUpdate \/ CursorUpdateRecord
      PROVE  Painted'
  <2>1. CASE chip_CursorCreate
    <3>1. /\ host'.image = host.image /\ host'.shown = host.shown
          /\ failed' \in {failed, failed + 1} /\ task[Painter].pc = "create"
      BY <1>0, <2>1 DEF chip_CursorCreate, Devices, At
    <3> QED BY <1>0, <1>5, <3>1, PainterStep DEF At, Sent
  <2>2. CASE Draw
    <3>1. task[Painter].pc = "draw" /\ failed' = failed /\ gaveUp' = gaveUp
      BY <2>2 DEF Draw, At
    <3>2. CASE Return(Painter) /\ host' = host
      BY <1>0, <3>1, <3>2 DEF At, Sent
    <3>3. CASE Goto(Painter, "update")
      <4>1. task'[Painter].pc = "update"
        BY <1>0, <1>00, <3>3, GotoEffect DEF Pcs, PainterPcs
      <4> QED BY <4>1 DEF At
    <3> QED BY <2>2, <3>2, <3>3 DEF Draw
  <2>3. CASE chip_CursorUpdate
    <3>1. /\ task[Painter].pc = "update"
          /\ \/ host'.image = "last" /\ host'.shown = host.shown /\ failed' = failed
             \/ failed' = failed + 1
      BY <1>0, <2>3 DEF chip_CursorUpdate, Transferred, Devices, At
    <3>2. task'[Painter].pc = "lock"
      BY <2>3, <3>1, PainterStep DEF At
    <3> QED BY <1>0, <3>1, <3>2
  <2>4. CASE CursorUpdateRecord
    <3>1. task[Painter].pc = "record" /\ UNCHANGED <<host, failed, gaveUp>>
      BY <2>4 DEF CursorUpdateRecord, At
    <3> QED BY <1>0, <3>1 DEF At, Sent
  <2> QED BY <1>5, <2>1, <2>2, <2>3, <2>4
<1>6. ASSUME chip_CursorMove \/ Moved PROVE Painted'
  BY <1>0, <1>00, <1>6, MoverStep DEF At
<1>7. ASSUME SetSpriteImage \/ SetSpritePosition PROVE Painted'
  BY <1>0, <1>00, <1>7, BeginStep DEF At, Sent
<1>8. ASSUME SetGC \/ SetPanning PROVE Painted'
  BY <1>0, <1>8 DEF SetGC, SetPanning, ring, At
<1>9. ASSUME DeviceCursor PROVE Painted'
  <2> SUFFICES ASSUME gaveUp = 0, failed = 0 PROVE Painted'
    BY <1>9 DEF DeviceCursor
  <2>1. /\ avail # <<>> /\ task' = task
        /\ host' = [host EXCEPT !.pos = cmdbuf.pos,
                                !.shown = IF cmdbuf.type = "UPDATE" THEN host.image ELSE @]
    BY <1>9 DEF DeviceCursor
  <2>2. /\ host'.image = host.image
        /\ host'.shown = IF cmdbuf.type = "UPDATE" THEN host.image ELSE host.shown
    BY <1>0, <2>1 DEF Devices
  <2>3. PICK t \in Tasks : task[t].pc \in Sent /\ cmdbuf.type = TypeOf(t)
    BY <1>0, <2>1 DEF OneEntry
  <2>4. CASE t = Painter
    BY <1>0, <2>1, <2>2, <2>3, <2>4 DEF TypeOf, At, Sent
  <2>5. CASE t = Mover
    <3>1. task[Painter].pc \notin Sent
      BY <1>0, <1>00, <2>3, <2>5 DEF Callers, Holding
    <3> QED BY <1>0, <1>00, <2>1, <2>2, <2>3, <2>5, <3>1 DEF TypeOf, At
  <2> QED BY <1>00, <2>4, <2>5
<1>10. CASE Silent
  BY <1>0, <1>10 DEF Silent, At
<1> QED BY <1>1, <1>2, <1>3, <1>4, <1>5, <1>6, <1>7, <1>8, <1>9, <1>10, Steps

\* The invariant is inductive.
LEMMA NextIInv == IInv /\ [Next]_vars => IInv'
BY RecordsNext, CallersNext, CreatedNext, OneEntryNext, FollowedNext, AloneNext,
   PlacedNext, PaintedNext DEF IInv

\* It implies the parts of CursorKnown.
LEMMA IInvKnown == IInv => CursorKnown
<1> SUFFICES ASSUME IInv PROVE CursorKnown
  OBVIOUS
<1> USE DEF IInv
<1>1. TypeOK
  BY DEF TypeOK, Records, Callers, BoardInfos, States, Frames, Devices, Pcs, PainterPcs,
         MoverPcs, SendPcs, Holding, Sent
<1>2. CommandIntact
  BY DEF CommandIntact, OneEntry
<1> QED BY <1>1, <1>2 DEF CursorKnown

\* It implies ShowsLast.
LEMMA IInvShows == IInv => ShowsLast
<1> SUFFICES ASSUME IInv, Quiet, ~hist.dropped PROVE
       /\ host.pos = cmdbuf.pos
       /\ ~hist.drift => host.pos = Unsigned(gs.last_sent)
       /\ gaveUp = 0 /\ failed = 0 => host.shown = "last"
  BY DEF ShowsLast
<1>1. \A t \in Tasks : At(t, "idle") /\ ~Recording(t)
  BY DEF Quiet, At, Recording, Sent
<1>2. host.pos = cmdbuf.pos
  BY DEF IInv, Followed, Quiet
<1>3. ~hist.drift => host.pos = Unsigned(gs.last_sent)
  BY <1>1, <1>2 DEF IInv, Placed
<1>4. gaveUp = 0 /\ failed = 0 => host.shown = "last"
  BY <1>1 DEF IInv, Painted, Quiet, At, AboutToSend, Sent
<1> QED BY <1>2, <1>3, <1>4

\* So it holds throughout.
LEMMA IInvAlways == Spec => []IInv
BY InitIInv, NextIInv, PTL DEF Spec

\* The types, and two facts chip_CursorCreate and chip_cursor_send rest on: the
\* cursor counts as created exactly when the device has its resource with
\* backing and the driver its memory, and until a wait is given up the command
\* buffer is not filled again before the device has taken the command up.
THEOREM CursorAlwaysKnown == Spec => []CursorKnown
BY IInvAlways, IInvKnown, PTL

\* When no sprite callback is in progress and the last command was not dropped,
\* the device shows the cursor where that command said; that is where
\* cursor_last_sent says unless callbacks overlapped when it was recorded; and
\* the picture is the one drawn last unless a wait was given up or a transfer
\* failed.
THEOREM CursorShowsLast == Spec => []ShowsLast
BY IInvAlways, IInvShows, PTL
=============================================================================
