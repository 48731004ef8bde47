------------------------- MODULE FileTransferProofs --------------------------
(***************************************************************************)
(* The transfer of a file, proved for every alphabet of bytes, every size  *)
(* of a packet and every length of the file.                               *)
(*                                                                         *)
(* The two sides take turns: Turn lists the positions they can be in       *)
(* together with what is under way between them.  Counted ties the byte    *)
(* counts of the two sides to one another and to the length of the file,   *)
(* which only grows.  Matching says that what has arrived, and what is     *)
(* under way, is a prefix of a file that nobody wrote to.                  *)
(***************************************************************************)
EXTENDS FileTransfer, SequenceTheorems, TLAPS

Quiet == toReceiver = <<>> /\ toSender = <<>>

Acknowledged == toReceiver = <<>> /\ toSender = <<Ack>>

Announced ==
    /\ toReceiver = <<[cmd |-> "INFO", key |-> flen, data |-> <<>>]>>
    /\ toSender = <<>>

\* The data on its way to the receiver.
UnderWay == IF toReceiver = <<>> THEN <<>> ELSE Head(toReceiver).data

BlockSent ==
    /\ UnderWay \in Seq(Bytes)
    /\ toReceiver = <<[cmd |-> "FILETRANS", key |-> Len(UnderWay), data |-> UnderWay]>>
    /\ toSender = <<>>

\* The receiver ended in fclose of the null pointer, after its last packet.
ClosedNull == rpc = "aborted" /\ ~opened /\ total = 0 /\ exists

\* It has told the sender to go on, or that it has everything.
Asked == rpc \in {"wait", "close", "done"} \/ ClosedNull

\* Where the two sides can be together, and what is under way between them.
Turn ==
    \/ spc = "open" /\ rpc = "call" /\ Quiet
    \/ spc = "failed" /\ rpc \in {"call", "aborted"} /\ ~exists /\ Quiet
    \/ spc = "info" /\ rpc = "call" /\ Announced
    \/ spc \in {"info", "block"} /\ rpc = "loop" /\ Quiet
    \/ spc \in {"info", "block"} /\ Asked /\ Acknowledged
    \/ spc = "loop" /\ Asked /\ Quiet
    \/ spc = "block" /\ rpc = "wait" /\ BlockSent
    \/ spc \in {"block", "failed"} /\ rpc = "failed" /\ Quiet
    \/ spc \in {"block", "failed"} /\ rpc = "aborted" /\ total # 0 /\ Quiet
    \/ spc = "done" /\ (rpc \in {"close", "done"} \/ ClosedNull) /\ Quiet

\* The receiver left a block that it did not write.
Dropped == rpc = "failed" \/ (rpc = "aborted" /\ total # 0)

\* Both sides count the same bytes, and never more than the file has.
Counted ==
    /\ finish <= Len(file)
    /\ spc = "open" => finish = 0
    /\ spc # "open" /\ exists => flen <= Len(file)
    /\ spc \notin {"open", "failed"} => exists
    /\ (rpc \notin {"call", "aborted"} \/ ClosedNull) => total = flen /\ exists
    /\ rpc = "call" => total = 0 /\ copy = <<>>
    /\ ~Dropped => finish = Len(copy) + Len(UnderWay)
    /\ rpc = "wait" => Len(copy) < total
    /\ rpc \in {"close", "done"} => Len(copy) >= total
    /\ ~opened => copy = <<>>

\* As long as nobody wrote to the file, the copy and then the data under way
\* repeat it from the start.
Matching ==
    ~touched => /\ spc # "open" /\ exists => flen = Len(file)
                /\ \A i \in 1..Len(copy) : copy[i] = file[i]
                /\ rpc = "wait" => \A i \in 1..Len(UnderWay) :
                                      UnderWay[i] = file[Len(copy) + i]

Types ==
    /\ exists \in BOOLEAN
    /\ touched \in BOOLEAN
    /\ opened \in BOOLEAN
    /\ file \in Seq(Bytes)
    /\ copy \in Seq(Bytes)
    /\ flen \in Nat /\ finish \in Nat /\ total \in Nat

Inv == Types /\ Turn /\ Counted /\ Matching

USE DEF ClosedNull, Asked, Dropped

-----------------------------------------------------------------------------
(* A queue of one packet, and the block that fread takes from the file.    *)

LEMMA OnePacket ==
    ASSUME NEW p
    PROVE  /\ Append(<<>>, p) = <<p>>
           /\ <<p>> # <<>>
           /\ Head(<<p>>) = p
           /\ Tail(<<p>>) = <<>>
    OBVIOUS

\* The length of the block that fread returns at a position inside the file.
BlockLen(len, from) == IF len - from < APPENDSIZE THEN len - from ELSE APPENDSIZE

LEMMA BlockRange ==
    ASSUME NEW s \in Seq(Bytes), NEW from \in Nat, from < Len(s)
    PROVE  /\ BlockLen(Len(s), from) \in Nat
           /\ from + BlockLen(Len(s), from) <= Len(s)
    BY TransferAssumption DEF BlockLen

LEMMA BlockData ==
    ASSUME NEW s \in Seq(Bytes), NEW from \in Nat, NEW len \in Nat,
           from + len <= Len(s)
    PROVE  LET d == SubSeq(s, from + 1, from + len)
           IN  /\ d \in Seq(Bytes)
               /\ Len(d) = len
               /\ \A i \in 1..len : d[i] = s[from + i]
    OBVIOUS

LEMMA FileWritten ==
    ASSUME Types, WriteFile
    PROVE  /\ file' \in Seq(Bytes)
           /\ Len(file') >= Len(file)
    <1>1. PICK b \in Bytes :
             \/ \E i \in DOMAIN file : file' = [file EXCEPT ![i] = b]
             \/ Len(file) < MaxLen /\ file' = Append(file, b)
        BY DEF WriteFile
    <1>2. file \in Seq(Bytes) /\ Len(file) \in Nat
        BY DEF Types
    <1>3. ASSUME NEW i \in DOMAIN file, file' = [file EXCEPT ![i] = b]
          PROVE  file' \in Seq(Bytes) /\ Len(file') = Len(file)
        BY <1>2, <1>3
    <1>4. ASSUME file' = Append(file, b)
          PROVE  file' \in Seq(Bytes) /\ Len(file') = Len(file) + 1
        BY <1>2, <1>4
    <1> QED
        BY <1>1, <1>2, <1>3, <1>4

LEMMA SmallFilesAreFiles == SmallFiles \subseteq Seq(Bytes)
    <1>1. SUFFICES ASSUME NEW n \in 0..MaxLen, NEW f \in [1..n -> Bytes]
                   PROVE  f \in Seq(Bytes)
        BY DEF SmallFiles
    <1>2. n \in Nat
        BY TransferAssumption
    <1> QED
        BY <1>2

-----------------------------------------------------------------------------
LEMMA InitInv == Init => Inv
    <1> SUFFICES ASSUME Init PROVE Inv
        OBVIOUS
    <1>1. Types
        <2>1. file \in Seq(Bytes)
            BY SmallFilesAreFiles DEF Init
        <2>2. copy \in Seq(Bytes)
            BY DEF Init
        <2>3. flen \in Nat /\ finish \in Nat /\ total \in Nat
            BY DEF Init
        <2> QED
            BY <2>1, <2>2, <2>3 DEF Init, Types
    <1>2. Turn
        BY DEF Init, Turn, Quiet
    <1>3. Counted
        BY <1>1 DEF Init, Counted, UnderWay, Types
    <1>4. Matching
        BY DEF Init, Matching
    <1> QED
        BY <1>1, <1>2, <1>3, <1>4 DEF Inv

-----------------------------------------------------------------------------
(* The sender.                                                             *)

LEMMA AnnounceInv == Inv /\ Announce => Inv'
    <1> SUFFICES ASSUME Inv, Announce PROVE Inv'
        OBVIOUS
    <1> USE DEF receiverVars
    <1>1. rpc = "call" /\ Quiet
        BY DEF Inv, Turn, Announce
    <1>2. Len(file) \in Nat
        BY DEF Inv, Types
    <1>3. CASE ~exists
        <2>1. spc' = "failed" /\ UNCHANGED <<flen, toReceiver>>
            BY <1>3 DEF Announce
        <2> QED
            BY <1>1, <1>3, <2>1
            DEF Announce, Inv, Types, Turn, Quiet, Counted, Matching, UnderWay
    <1>4. CASE exists
        <2>1. /\ spc' = "info" /\ flen' = Len(file)
              /\ toReceiver' = <<[cmd |-> "INFO", key |-> flen', data |-> <<>>]>>
            BY <1>1, <1>4, OnePacket DEF Announce, Quiet
        <2>2. UnderWay' = <<>> /\ UnderWay = <<>>
            BY <1>1, <2>1 DEF UnderWay, Quiet
        <2>3. Types'
            BY <1>2, <2>1 DEF Announce, Inv, Types
        <2>4. Turn'
            BY <1>1, <2>1 DEF Announce, Turn, Quiet, Announced
        <2>5. Counted'
            BY <1>1, <1>2, <1>4, <2>1, <2>2 DEF Announce, Inv, Counted
        <2>6. Matching'
            BY <1>1, <2>1, <2>2 DEF Announce, Inv, Matching
        <2> QED
            BY <2>3, <2>4, <2>5, <2>6 DEF Inv
    <1> QED
        BY <1>3, <1>4

LEMMA SendBlockInv == Inv /\ SendBlock => Inv'
    <1> SUFFICES ASSUME Inv, SendBlock PROVE Inv'
        OBVIOUS
    <1> USE DEF receiverVars
    <1> DEFINE len == BlockLen(Len(file), finish)
               d == SubSeq(file, finish + 1, finish + len)
    <1>1. Asked /\ Quiet /\ exists
        BY DEF Inv, Turn, Counted, SendBlock
    <1>2. /\ file \in Seq(Bytes) /\ copy \in Seq(Bytes)
          /\ flen \in Nat /\ finish \in Nat /\ total \in Nat
          /\ Len(file) \in Nat /\ Len(copy) \in Nat
        BY DEF Inv, Types
    <1>3. UnderWay = <<>> /\ finish = Len(copy) /\ total = flen /\ flen <= Len(file)
        BY <1>1, <1>2 DEF Inv, Counted, UnderWay, Quiet, SendBlock
    <1>4. rpc = "wait"
        BY <1>1, <1>2, <1>3 DEF Inv, Counted, SendBlock
    <1>5. len \in Nat /\ finish + len <= Len(file)
        BY <1>2, <1>3, BlockRange DEF SendBlock
    <1>6. d \in Seq(Bytes) /\ Len(d) = len /\ \A i \in 1..len : d[i] = file[finish + i]
        BY <1>2, <1>5, BlockData
    <1>7. /\ toReceiver' = <<[cmd |-> "FILETRANS", key |-> len, data |-> d]>>
          /\ finish' = finish + len
          /\ spc' = "block"
          /\ UNCHANGED <<exists, file, touched, flen, rpc, opened, total, copy, toSender>>
        BY <1>1, OnePacket DEF SendBlock, Quiet, BlockLen
    <1> HIDE DEF len, d
    <1>8. UnderWay' = d
        BY <1>7 DEF UnderWay
    <1>9. Types'
        BY <1>2, <1>5, <1>7 DEF Inv, Types
    <1>10. Turn'
        BY <1>1, <1>4, <1>6, <1>7, <1>8 DEF Turn, Quiet, BlockSent
    <1>11. Counted'
        <2>1. finish' <= Len(file)' /\ finish' = Len(copy)' + Len(UnderWay)'
            BY <1>3, <1>5, <1>6, <1>7, <1>8
        <2>2. /\ exists' /\ flen' <= Len(file)' /\ total' = flen'
              /\ spc' = "block" /\ rpc' = "wait" /\ Len(copy)' < total'
            BY <1>1, <1>3, <1>4, <1>7 DEF SendBlock
        <2> QED
            BY <1>7, <2>1, <2>2 DEF Inv, Counted
    <1>12. Matching'
        BY <1>2, <1>3, <1>4, <1>5, <1>6, <1>7, <1>8 DEF Inv, Matching, SendBlock
    <1> QED
        BY <1>9, <1>10, <1>11, <1>12 DEF Inv

LEMMA RecvAckInv == Inv /\ RecvAck => Inv'
    <1> SUFFICES ASSUME Inv, RecvAck PROVE Inv'
        OBVIOUS
    <1> USE DEF receiverVars
    <1>1. Asked /\ Acknowledged
        BY DEF Inv, Turn, RecvAck, Quiet, Announced, BlockSent
    <1>2. toSender' = <<>> /\ spc' = "loop"
        BY <1>1, OnePacket DEF RecvAck, Acknowledged, Ack
    <1>3. UNCHANGED UnderWay
        BY DEF RecvAck, UnderWay
    <1> QED
        BY <1>1, <1>2, <1>3
        DEF RecvAck, Inv, Types, Turn, Quiet, Acknowledged, Counted, Matching

LEMMA AckLostInv == Inv /\ AckLost => Inv'
    <1> SUFFICES ASSUME Inv, AckLost PROVE Inv'
        OBVIOUS
    <1> USE DEF receiverVars
    <1>1. Dropped /\ Quiet
        BY DEF Inv, Turn, AckLost, ReceiverClosed, Acknowledged, Announced, BlockSent, Quiet
    <1>2. UNCHANGED UnderWay
        BY DEF AckLost, UnderWay
    <1>3. Turn'
        BY <1>1 DEF AckLost, Inv, Turn, Quiet
    <1>4. Types' /\ Counted' /\ Matching'
        BY <1>1, <1>2 DEF AckLost, Inv, Types, Counted, Matching
    <1> QED
        BY <1>3, <1>4 DEF Inv

LEMMA FinishSendingInv == Inv /\ FinishSending => Inv'
    <1> SUFFICES ASSUME Inv, FinishSending PROVE Inv'
        OBVIOUS
    <1> USE DEF receiverVars
    <1>1. Asked /\ Quiet
        BY DEF Inv, Turn, FinishSending
    <1>2. UNCHANGED UnderWay /\ UnderWay = <<>>
        BY <1>1 DEF FinishSending, UnderWay, Quiet
    <1>3. rpc # "wait"
        BY <1>1, <1>2 DEF Inv, Types, Counted, FinishSending
    <1> QED
        BY <1>1, <1>2, <1>3 DEF FinishSending, Inv, Types, Turn, Quiet, Counted, Matching

-----------------------------------------------------------------------------
(* The receiver.                                                           *)

LEMMA RecvInfoInv == Inv /\ RecvInfo => Inv'
    <1> SUFFICES ASSUME Inv, RecvInfo PROVE Inv'
        OBVIOUS
    <1> USE DEF senderVars
    <1>1. spc = "info" /\ Announced
        BY DEF Inv, Turn, RecvInfo, Quiet
    <1>2. toReceiver' = <<>> /\ total' = flen
        BY <1>1, OnePacket DEF RecvInfo, Announced
    <1>3. UnderWay = <<>> /\ UnderWay' = <<>>
        BY <1>1, <1>2 DEF UnderWay, Announced
    <1>4. Types'
        BY <1>2 DEF RecvInfo, Inv, Types
    <1>5. Turn'
        BY <1>1, <1>2 DEF RecvInfo, Turn, Quiet, Announced
    <1>6. Counted'
        BY <1>1, <1>2, <1>3 DEF RecvInfo, Inv, Types, Counted
    <1>7. Matching'
        BY <1>1, <1>2, <1>3 DEF RecvInfo, Inv, Matching
    <1> QED
        BY <1>4, <1>5, <1>6, <1>7 DEF Inv

LEMMA InfoLostInv == Inv /\ InfoLost => Inv'
    <1> SUFFICES ASSUME Inv, InfoLost PROVE Inv'
        OBVIOUS
    <1> USE DEF senderVars
    <1>1. spc = "failed" /\ ~exists /\ Quiet
        BY DEF Inv, Turn, InfoLost, SenderClosed
    <1>2. UNCHANGED UnderWay
        BY DEF InfoLost, UnderWay
    <1> QED
        BY <1>1, <1>2 DEF InfoLost, Inv, Types, Turn, Quiet, Counted, Matching

LEMMA AskForBlockInv == Inv /\ AskForBlock => Inv'
    <1> SUFFICES ASSUME Inv, AskForBlock PROVE Inv'
        OBVIOUS
    <1> USE DEF senderVars
    <1>1. spc \in {"info", "block"} /\ Quiet
        BY DEF Inv, Turn, AskForBlock
    <1>2. toSender' = <<Ack>>
        BY <1>1, OnePacket DEF AskForBlock, Quiet
    <1>3. UNCHANGED UnderWay /\ UnderWay = <<>>
        BY <1>1 DEF AskForBlock, UnderWay, Quiet
    <1> QED
        BY <1>1, <1>2, <1>3
        DEF AskForBlock, Inv, Types, Turn, Quiet, Acknowledged, Counted, Matching

LEMMA RecvBlockInv == Inv /\ RecvBlock => Inv'
    <1> SUFFICES ASSUME Inv, RecvBlock PROVE Inv'
        OBVIOUS
    <1> USE DEF senderVars
    <1> DEFINE d == UnderWay
    <1>1. spc = "block" /\ BlockSent
        BY DEF Inv, Turn, RecvBlock, Quiet, Acknowledged
    <1>2. toReceiver' = <<>> /\ UnderWay' = <<>> /\ Head(toReceiver).data = d
        BY <1>1, OnePacket DEF RecvBlock, BlockSent, UnderWay
    <1>3. /\ file \in Seq(Bytes) /\ copy \in Seq(Bytes) /\ d \in Seq(Bytes)
          /\ Len(file) \in Nat /\ Len(copy) \in Nat /\ Len(d) \in Nat
        BY <1>1 DEF Inv, Types, BlockSent
    <1>4. /\ finish = Len(copy) + Len(d)
          /\ ~touched => /\ \A i \in 1..Len(copy) : copy[i] = file[i]
                         /\ \A i \in 1..Len(d) : d[i] = file[Len(copy) + i]
        BY DEF RecvBlock, Inv, Counted, Matching
    <1>7. total # 0
        BY <1>3 DEF RecvBlock, Inv, Types, Counted
    <1> HIDE DEF d
    <1>5. CASE rpc' = "loop" /\ copy' = copy \o d
        <2>1. copy' \in Seq(Bytes) /\ Len(copy') = finish /\ Len(copy') \in Nat
            BY <1>3, <1>4, <1>5
        <2>2. \A i \in 1..Len(copy') :
                 copy'[i] = IF i <= Len(copy) THEN copy[i] ELSE d[i - Len(copy)]
            BY <1>3, <1>5
        <2>3. ASSUME ~touched, NEW i \in 1..Len(copy')
              PROVE  copy'[i] = file[i]
            <3>1. CASE i <= Len(copy)
                <4>1. i \in 1..Len(copy) /\ copy'[i] = copy[i]
                    BY <1>3, <2>1, <2>2, <3>1
                <4> QED
                    BY <1>4, <2>3, <4>1
            <3>2. CASE i > Len(copy)
                <4>1. i - Len(copy) \in 1..Len(d)
                    BY <1>3, <1>4, <2>1, <3>2
                <4>2. d[i - Len(copy)] = file[Len(copy) + (i - Len(copy))]
                    BY <1>4, <2>3, <4>1
                <4> QED
                    BY <1>3, <2>1, <2>2, <3>2, <4>2
            <3> QED
                BY <1>3, <2>1, <3>1, <3>2
        <2>4. Types'
            BY <2>1 DEF RecvBlock, Inv, Types
        <2>5. Turn'
            BY <1>1, <1>2, <1>5 DEF RecvBlock, Turn, Quiet, BlockSent
        <2>6. Counted'
            BY <1>1, <1>2, <1>5, <2>1 DEF RecvBlock, Inv, Counted
        <2>7. Matching'
            BY <1>1, <1>5, <2>3 DEF RecvBlock, Inv, Matching
        <2> QED
            BY <2>4, <2>5, <2>6, <2>7 DEF Inv
    <1>6. CASE rpc' \in {"failed", "aborted"} /\ UNCHANGED copy
        <2>1. Types' /\ Turn'
            BY <1>1, <1>2, <1>6, <1>7 DEF RecvBlock, Inv, Types, Turn, Quiet, BlockSent
        <2>2. Counted' /\ Matching'
            BY <1>1, <1>2, <1>6, <1>7 DEF RecvBlock, Inv, Counted, Matching
        <2> QED
            BY <2>1, <2>2 DEF Inv
    <1> QED
        BY <1>2, <1>5, <1>6 DEF RecvBlock

LEMMA FinishReceivingInv == Inv /\ FinishReceiving => Inv'
    <1> SUFFICES ASSUME Inv, FinishReceiving PROVE Inv'
        OBVIOUS
    <1> USE DEF senderVars
    <1>1. spc \in {"info", "block"} /\ Quiet
        BY DEF Inv, Turn, FinishReceiving
    <1>2. toSender' = <<Ack>>
        BY <1>1, OnePacket DEF FinishReceiving, Quiet
    <1>3. UNCHANGED UnderWay
        BY DEF FinishReceiving, UnderWay
    <1> QED
        BY <1>1, <1>2, <1>3
        DEF FinishReceiving, Inv, Types, Turn, Quiet, Acknowledged, Counted, Matching

\* fclose of the null pointer happens with an empty file only: a copy that was
\* not opened has no byte, and RecvFile leaves its loop with all of them.
LEMMA CloseFileInv == Inv /\ CloseFile => Inv'
    <1> SUFFICES ASSUME Inv, CloseFile PROVE Inv'
        OBVIOUS
    <1> USE DEF senderVars
    <1>1. UNCHANGED <<exists, file, touched, spc, flen, finish, opened, total, copy,
                      toReceiver, toSender>>
        BY DEF CloseFile
    <1>2. UNCHANGED UnderWay
        BY <1>1 DEF UnderWay
    <1>3. total = flen /\ exists /\ Len(copy) >= total
        BY DEF CloseFile, Inv, Counted
    <1>4. ~opened => total = 0
        BY <1>3 DEF Inv, Types, Counted
    <1>5. IF opened THEN rpc' = "done" ELSE ClosedNull'
        BY <1>1, <1>3, <1>4 DEF CloseFile
    <1>6. Turn'
        BY <1>1, <1>5 DEF CloseFile, Inv, Turn, Quiet, Acknowledged
    <1>7. Types' /\ Counted' /\ Matching'
        BY <1>1, <1>2, <1>3, <1>5 DEF CloseFile, Inv, Types, Counted, Matching
    <1> QED
        BY <1>6, <1>7 DEF Inv

LEMMA WriteFileInv == Inv /\ WriteFile => Inv'
    <1> SUFFICES ASSUME Inv, WriteFile PROVE Inv'
        OBVIOUS
    <1> USE DEF senderVars, receiverVars
    <1>1. file' \in Seq(Bytes) /\ Len(file') >= Len(file)
        BY FileWritten DEF Inv
    <1>2. Len(file) \in Nat /\ Len(file') \in Nat /\ flen \in Nat /\ finish \in Nat
        BY <1>1 DEF Inv, Types
    <1>3. UNCHANGED UnderWay
        BY DEF WriteFile, UnderWay
    <1>4. Types'
        BY <1>1 DEF WriteFile, Inv, Types
    <1>5. Turn'
        BY <1>3 DEF WriteFile, Inv, Turn, Quiet, Announced, Acknowledged, BlockSent
    <1>6. Counted'
        BY <1>1, <1>2, <1>3 DEF WriteFile, Inv, Counted
    <1>7. Matching'
        <2>1. CASE spc = "open"
            <3>1. rpc = "call" /\ UnderWay = <<>>
                BY <2>1 DEF Inv, Turn, Quiet, UnderWay
            <3>2. Len(copy) = 0
                BY <2>1, <3>1 DEF Inv, Types, Counted
            <3> QED
                BY <2>1, <3>1, <3>2 DEF WriteFile, Matching
        <2>2. CASE spc # "open"
            BY <2>2 DEF WriteFile, Matching
        <2> QED
            BY <2>1, <2>2
    <1> QED
        BY <1>4, <1>5, <1>6, <1>7 DEF Inv

-----------------------------------------------------------------------------
(* The theorems.                                                           *)

LEMMA NextInv == Inv /\ [Next]_vars => Inv'
    <1> SUFFICES ASSUME Inv, [Next]_vars PROVE Inv'
        OBVIOUS
    <1>1. CASE SenderStep
        BY <1>1, AnnounceInv, SendBlockInv, RecvAckInv, AckLostInv, FinishSendingInv
        DEF SenderStep
    <1>2. CASE ReceiverStep
        BY <1>2, RecvInfoInv, InfoLostInv, AskForBlockInv, RecvBlockInv,
           FinishReceivingInv, CloseFileInv
        DEF ReceiverStep
    <1>3. CASE WriteFile
        BY <1>3, WriteFileInv
    <1>4. CASE UNCHANGED vars
        BY <1>4
        DEF vars, senderVars, receiverVars, Inv, Types, Turn, Counted, Matching, Quiet,
            Announced, Acknowledged, BlockSent, UnderWay
    <1> QED
        BY <1>1, <1>2, <1>3, <1>4 DEF Next

\* SendFile and RecvFile take turns, and their byte counts stay in step: the
\* inductive invariant of the transfer.
THEOREM TransferInvariant == Spec => []Inv
    BY InitInv, NextInv, PTL DEF Spec

LEMMA InvType == Inv => TypeOK
    <1> SUFFICES ASSUME Inv PROVE TypeOK
        OBVIOUS
    <1>1. /\ spc \in {"open", "info", "loop", "block", "done", "failed"}
          /\ rpc \in {"call", "loop", "wait", "close", "done", "failed", "aborted"}
        BY DEF Inv, Turn
    <1>2. toReceiver \in Seq(Packets) /\ Len(toReceiver) <= 1
        <2>1. CASE toReceiver = <<>>
            BY <2>1
        <2>2. CASE Announced
            BY <2>2 DEF Announced, Packets, Inv, Types
        <2>3. CASE BlockSent
            BY <2>3 DEF BlockSent, Packets
        <2> QED
            BY <2>1, <2>2, <2>3 DEF Inv, Turn, Quiet, Acknowledged
    <1>3. toSender \in Seq(Packets) /\ Len(toSender) <= 1
        <2>1. toSender = <<>> \/ toSender = <<Ack>>
            BY DEF Inv, Turn, Quiet, Announced, Acknowledged, BlockSent
        <2>2. Ack \in Packets
            BY DEF Ack, Packets
        <2>3. CASE toSender = <<>>
            BY <2>3
        <2>4. CASE toSender = <<Ack>>
            BY <2>2, <2>4
        <2> QED
            BY <2>1, <2>3, <2>4
    <1> QED
        BY <1>1, <1>2, <1>3 DEF Inv, Types, TypeOK

\* The types of the transfer's state; the protocol never has more than one
\* packet under way in either direction.
THEOREM TypeCorrect == Spec => []TypeOK
    BY TransferInvariant, InvType, PTL

LEMMA InvIntact == Inv => Intact
    <1> SUFFICES ASSUME Inv, rpc = "done", ~touched PROVE copy = file
        BY DEF Intact
    <1>1. /\ file \in Seq(Bytes) /\ copy \in Seq(Bytes)
          /\ Len(file) \in Nat /\ Len(copy) \in Nat
        BY DEF Inv, Types
    <1>2. toReceiver = <<>> /\ spc # "open" /\ exists
        BY DEF Inv, Turn, Quiet, Acknowledged, Counted
    <1>3. Len(copy) = Len(file)
        <2>1. finish = Len(copy)
            BY <1>1, <1>2 DEF Inv, Counted, UnderWay
        <2>2. Len(copy) >= total /\ total = flen /\ finish <= Len(file)
            BY DEF Inv, Counted
        <2>3. flen = Len(file)
            BY <1>2 DEF Inv, Matching
        <2> QED
            BY <1>1, <2>1, <2>2, <2>3
    <1>4. \A i \in 1..Len(copy) : copy[i] = file[i]
        BY DEF Inv, Matching
    <1> QED
        BY <1>1, <1>3, <1>4, SeqEqual

\* RecvFile has returned 0 and no worker has written to the file: the copy is
\* the file, for every length of the file and every size of a block.
THEOREM WholeFile == Spec => []Intact
    BY TransferInvariant, InvIntact, PTL

\* RecvFile is never left in recv by a sender that has ended.
THEOREM ReceiverServed == Spec => []NeverStarved
    <1>1. Inv => NeverStarved
        BY DEF Inv, Turn, NeverStarved, SenderClosed, BlockSent
    <1> QED
        BY <1>1, TransferInvariant, PTL

\* SendFile returns 0 only when the receiver has written every byte and is at
\* most still to close the copy, and RecvFile returns 0 only when SendFile will,
\* although each of them learns of the other only through the packets.  The one
\* case in which the sender succeeds alone is an empty file whose copy could not
\* be opened.
THEOREM OutcomesAgree == Spec => []SameOutcome
    <1>1. ASSUME Inv PROVE SameOutcome
        <2>1. ASSUME spc = "done"
              PROVE  /\ toSender = <<>> /\ Len(copy) = finish
                     /\ \/ rpc \in {"close", "done"}
                        \/ rpc = "aborted" /\ ~opened /\ finish = 0
            <3>1. (rpc \in {"close", "done"} \/ ClosedNull) /\ Quiet
                BY <1>1, <2>1 DEF Inv, Turn
            <3>2. UnderWay = <<>> /\ finish \in Nat /\ Len(copy) \in Nat
                BY <1>1, <3>1 DEF Inv, Types, UnderWay, Quiet
            <3>3. finish = Len(copy)
                BY <1>1, <3>1, <3>2 DEF Inv, Counted
            <3>4. ~opened => Len(copy) = 0
                BY <1>1 DEF Inv, Counted
            <3> QED
                BY <3>1, <3>3, <3>4 DEF Quiet
        <2>2. rpc = "done" => spc # "failed"
            BY <1>1 DEF Inv, Turn
        <2> QED
            BY <2>1, <2>2 DEF SameOutcome
    <1> QED
        BY <1>1, TransferInvariant, PTL
=============================================================================
