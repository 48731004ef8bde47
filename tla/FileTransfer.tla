---------------------------- MODULE FileTransfer -----------------------------
(***************************************************************************)
(* One file goes from a slave that serves CLIP_DATA or BACKUP (the sender, *)
(* SendFile) to the slave that called it (the receiver, CommunicateToSlave *)
(* and RecvFile), over a connection of their own (server/slave.c).         *)
(*                                                                         *)
(* The sender announces the length and then sends blocks of at most        *)
(* APPENDSIZE bytes; both sides exchange packets in turn.  The receiver    *)
(* sends FILETRANS_R before each block and once more at the end, so that   *)
(* each one acknowledges what came before it: the announcement, or a       *)
(* block.  Workers of the sender may write to the file all the time.       *)
(*                                                                         *)
(* A packet arrives whole or not at all.  recv on a connection that the    *)
(* other side has closed returns 0, and the buffer still holds the packet  *)
(* that was sent from it.                                                  *)
(*                                                                         *)
(* RecvFile does not look at the result of fopen: it meets the null        *)
(* pointer at the first fwrite, or, when the file is empty, in fclose,     *)
(* after its last packet.  A write that fails only when fclose flushes it  *)
(* is left out: fclose's result is not looked at, and such a copy is short *)
(* although both sides return 0.                                           *)
(***************************************************************************)
EXTENDS Integers, Sequences

CONSTANTS Bytes,        \* the values of a byte
          APPENDSIZE,   \* the bytes that fit a packet
          MaxLen        \* bound: length of a file

ASSUME TransferAssumption == /\ APPENDSIZE \in Nat \ {0}
                             /\ MaxLen \in Nat

VARIABLES
    exists,     \* whether the sender finds the file
    file,       \* its contents
    touched,    \* whether it was written to since the transfer began
    spc,        \* sender: open, info, loop, block, done, failed
    flen,       \* the length it announced
    finish,     \* its finish_size
    rpc,        \* receiver: call, loop, wait, close, done, failed, aborted
    opened,     \* whether its fopen of the copy succeeded
    total,      \* its total_size
    copy,       \* the file it writes; its finish_size is the length
    toReceiver, \* packets under way
    toSender

senderVars == <<spc, flen, finish>>
receiverVars == <<rpc, opened, total, copy>>
vars == <<exists, file, touched, senderVars, receiverVars, toReceiver, toSender>>

SmallFiles == UNION {[1..n -> Bytes] : n \in 0..MaxLen}

\* The receiver has connected and sent its request, and waits in recv.
Init == /\ exists \in BOOLEAN
        /\ file \in SmallFiles
        /\ touched = FALSE
        /\ spc = "open" /\ flen = 0 /\ finish = 0
        /\ rpc = "call" /\ opened = FALSE /\ total = 0 /\ copy = <<>>
        /\ toReceiver = <<>> /\ toSender = <<>>

\* A side that has ended its part has closed the connection, or will close it
\* before it sends anything else.
SenderClosed == spc \in {"done", "failed"}
ReceiverClosed == rpc \in {"done", "failed", "aborted"}

-----------------------------------------------------------------------------
(* SendFile.                                                               *)

\* fopen, and the announcement of the length; without a file SendFile returns
\* and HandleSlaveRequest closes the connection.
Announce ==
    /\ spc = "open"
    /\ \/ /\ ~exists
          /\ spc' = "failed"
          /\ UNCHANGED <<flen, toReceiver>>
       \/ /\ exists
          /\ spc' = "info"
          /\ flen' = Len(file)
          /\ toReceiver' = Append(toReceiver,
                               [cmd |-> "INFO", key |-> Len(file), data |-> <<>>])
    /\ UNCHANGED <<exists, file, touched, finish, receiverVars, toSender>>

\* Mutant: the packet of a block goes out without its length, so that the
\* receiver writes nothing.
SendBlockNoLength ==
    LET len == IF Len(file) - finish < APPENDSIZE THEN Len(file) - finish
               ELSE APPENDSIZE
    IN  /\ spc = "loop" /\ finish < flen
        /\ toReceiver' = Append(toReceiver,
                             [cmd |-> "FILETRANS", key |-> 0, data |-> <<>>])
        /\ finish' = finish + len
        /\ spc' = "block"
        /\ UNCHANGED <<exists, file, touched, flen, receiverVars, toSender>>

\* fread and the first half of ExchangePacket.  (finish_size is added to
\* after the reply, which nothing reads in between.)
SendBlock ==
    LET len == IF Len(file) - finish < APPENDSIZE THEN Len(file) - finish
               ELSE APPENDSIZE
    IN  /\ spc = "loop" /\ finish < flen
        /\ toReceiver' = Append(toReceiver,
                             [cmd |-> "FILETRANS", key |-> len,
                              data |-> SubSeq(file, finish + 1, finish + len)])
        /\ finish' = finish + len
        /\ spc' = "block"
        /\ UNCHANGED <<exists, file, touched, flen, receiverVars, toSender>>

\* The second half: the acknowledgement of the announcement or of a block.
RecvAck ==
    /\ spc \in {"info", "block"}
    /\ toSender # <<>>
    /\ toSender' = Tail(toSender)
    /\ spc' = IF Head(toSender).cmd = "FILETRANS_R" THEN "loop" ELSE "failed"
    /\ UNCHANGED <<exists, file, touched, flen, finish, receiverVars, toReceiver>>

\* recv returns 0: the buffer holds the sender's own packet, not FILETRANS_R.
AckLost ==
    /\ spc \in {"info", "block"}
    /\ toSender = <<>> /\ ReceiverClosed
    /\ spc' = "failed"
    /\ UNCHANGED <<exists, file, touched, flen, finish, receiverVars, toReceiver, toSender>>

FinishSending ==
    /\ spc = "loop" /\ finish >= flen
    /\ spc' = "done"
    /\ UNCHANGED <<exists, file, touched, flen, finish, receiverVars, toReceiver, toSender>>

-----------------------------------------------------------------------------
(* CommunicateToSlave and RecvFile.                                        *)

Ack == [cmd |-> "FILETRANS_R", key |-> 0, data |-> <<>>]

\* The reply to the request.  fopen of the copy may fail (there may be no
\* directory for it); RecvFile says so and goes on.
RecvInfo ==
    /\ rpc = "call" /\ toReceiver # <<>>
    /\ toReceiver' = Tail(toReceiver)
    /\ total' = Head(toReceiver).key
    /\ opened' \in BOOLEAN
    /\ rpc' = "loop"
    /\ UNCHANGED <<exists, file, touched, senderVars, copy, toSender>>

\* recv returns 0: the buffer holds the request, and the assertion on rescmd
\* fails.
InfoLost ==
    /\ rpc = "call" /\ toReceiver = <<>> /\ SenderClosed
    /\ rpc' = "aborted"
    /\ UNCHANGED <<exists, file, touched, senderVars, opened, total, copy,
                   toReceiver, toSender>>

AskForBlock ==
    /\ rpc = "loop" /\ Len(copy) < total
    /\ toSender' = Append(toSender, Ack)
    /\ rpc' = "wait"
    /\ UNCHANGED <<exists, file, touched, senderVars, opened, total, copy, toReceiver>>

\* fwrite writes the block, or fails when the disk is full: RecvFile returns,
\* and CommunicateToSlave closes the connection.  On the null pointer fwrite
\* ends the process.
RecvBlock ==
    /\ rpc = "wait" /\ toReceiver # <<>>
    /\ toReceiver' = Tail(toReceiver)
    /\ \/ opened /\ rpc' = "loop" /\ copy' = copy \o Head(toReceiver).data
       \/ opened /\ rpc' = "failed" /\ UNCHANGED copy
       \/ ~opened /\ rpc' = "aborted" /\ UNCHANGED copy
    /\ UNCHANGED <<exists, file, touched, senderVars, opened, total, toSender>>

\* Mutant: the acknowledgement after the last block is left out.
FinishWithoutAck ==
    /\ rpc = "loop" /\ Len(copy) >= total
    /\ rpc' = "close"
    /\ UNCHANGED <<exists, file, touched, senderVars, opened, total, copy,
                   toReceiver, toSender>>

\* Mutant: the acknowledgement after the last block is sent twice, and the
\* file is taken for complete one block early.
FinishEarly ==
    /\ rpc = "loop" /\ Len(copy) + APPENDSIZE >= total
    /\ toSender' = toSender \o <<Ack, Ack>>
    /\ rpc' = "close"
    /\ UNCHANGED <<exists, file, touched, senderVars, opened, total, copy, toReceiver>>

\* The last packet, after which SendFile may return.
FinishReceiving ==
    /\ rpc = "loop" /\ Len(copy) >= total
    /\ toSender' = Append(toSender, Ack)
    /\ rpc' = "close"
    /\ UNCHANGED <<exists, file, touched, senderVars, opened, total, copy, toReceiver>>

\* fclose, and RecvFile returns 0; on the null pointer it ends the process.
CloseFile ==
    /\ rpc = "close"
    /\ rpc' = IF opened THEN "done" ELSE "aborted"
    /\ UNCHANGED <<exists, file, touched, senderVars, opened, total, copy,
                   toReceiver, toSender>>

-----------------------------------------------------------------------------
\* A worker of the sender stores a record: a byte of the open database file
\* changes, or the file grows.  (Only "a.db", which BACKUP sends, is ever
\* written to during a transfer, and it never gets shorter.)
WriteFile ==
    /\ exists /\ ~SenderClosed
    /\ \E b \in Bytes :
          \/ \E i \in DOMAIN file : file' = [file EXCEPT ![i] = b]
          \/ Len(file) < MaxLen /\ file' = Append(file, b)
    /\ touched' = (touched \/ spc # "open")
    /\ UNCHANGED <<exists, senderVars, receiverVars, toReceiver, toSender>>

SenderStep == Announce \/ SendBlock \/ RecvAck \/ AckLost \/ FinishSending

ReceiverStep == \/ RecvInfo \/ InfoLost \/ AskForBlock \/ RecvBlock
                \/ FinishReceiving \/ CloseFile

Next == SenderStep \/ ReceiverStep \/ WriteFile

Spec == Init /\ [][Next]_vars

\* Both processes run when they can; workers need not write.
FairSpec == Spec /\ WF_vars(SenderStep) /\ WF_vars(ReceiverStep)

-----------------------------------------------------------------------------
Packets == [cmd : {"INFO", "FILETRANS", "FILETRANS_R"}, key : Nat, data : Seq(Bytes)]

\* Types; at most one packet is under way in each direction.
TypeOK ==
    /\ exists \in BOOLEAN
    /\ file \in Seq(Bytes)
    /\ touched \in BOOLEAN
    /\ spc \in {"open", "info", "loop", "block", "done", "failed"}
    /\ flen \in Nat /\ finish \in Nat
    /\ rpc \in {"call", "loop", "wait", "close", "done", "failed", "aborted"}
    /\ opened \in BOOLEAN
    /\ total \in Nat
    /\ copy \in Seq(Bytes)
    /\ toReceiver \in Seq(Packets) /\ Len(toReceiver) <= 1
    /\ toSender \in Seq(Packets) /\ Len(toSender) <= 1

\* A file that no worker touched during the transfer arrives byte by byte,
\* whatever its length: empty, a multiple of APPENDSIZE or not.
Intact == rpc = "done" /\ ~touched => copy = file

\* The receiver never waits for a block from a sender that has ended: recv
\* would return 0, finish_size would not grow, and RecvFile would never end.
\* The count of bytes stays in step even if the file grows under the sender.
NeverStarved == rpc = "wait" /\ toReceiver = <<>> => ~SenderClosed

\* When SendFile returns 0 the receiver has written all that was sent, since its
\* last FILETRANS_R acknowledges the last block, or the announcement of an empty
\* file, and only has to close the copy; the one exception is an empty file
\* whose copy could not be opened.  When RecvFile returns 0 SendFile does not
\* fail any more.
SameOutcome ==
    /\ spc = "done" =>
          /\ toSender = <<>> /\ Len(copy) = finish
          /\ \/ rpc \in {"close", "done"}
             \/ rpc = "aborted" /\ ~opened /\ finish = 0
    /\ rpc = "done" => spc # "failed"

\* Without that exception it is false: fclose of the null pointer comes after
\* the FILETRANS_R that lets SendFile return 0 (slave.c:165-167).
SuccessShared == ~(spc = "done" /\ rpc = "aborted")

\* assert(phd->cmd == rescmd) in CommunicateToSlave: the caller gets an answer.
\* Without the file (SendFile, "Open file:%s failed.") this is false.
AnswerAsserted == ~(rpc = "aborted" /\ spc = "failed" /\ ~exists)

\* Both sides come to an end: neither waits for the other for ever.
TransferEnds == <>(SenderClosed /\ ReceiverClosed)
=============================================================================
