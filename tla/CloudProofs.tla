------------------------------- MODULE CloudProofs -------------------------------
(***************************************************************************)
(* What an upload or a backup to a file has put out while writes fail and  *)
(* fall short, and what a download hands on of whatever the server sent:   *)
(* for any number of blocks, and any answers.                              *)
(***************************************************************************)
EXTENDS Cloud, FiniteSetTheorems, SequenceTheorems, TLAPS

Units == {"data", "len"} \X Nat \X {"whole", "part"}

\* Where a command is that has written nothing, and where it writes.
Before == {"nameservers", "mac", "resolve", "connect", "send", "open"}
Writing == {"write", "block"}

\* Where each command may be, and what the index then runs over.
Control ==
  /\ i \in Nat
  /\ pc \in Writing => i <= NBlocks /\ cmd # "download"
  /\ pc = "block" => i # 0 /\ i < NBlocks
  /\ pc \in {"resolve", "connect", "send"} => cmd # "file"
  /\ pc = "open" => cmd = "file"
  /\ pc = "mac" => cmd # "download"
  /\ pc = "recv" => cmd = "download"
  /\ pc = "connect" => i <= srv
  /\ pc = "resolve" => i <= ns
  /\ pc \in {"nameservers", "mac"} => i = 0

\* The place in the backup of what is written next.
Here == IF pc = "block" THEN 2 * i + 1 ELSE IF i = 0 THEN 1 ELSE 2 * i

\* The data of block n has been taken, at least in part.
Has(n) == \E b \in DOMAIN sent : sent[b][1] = "data" /\ sent[b][2] = n

\* What has been taken comes before the place of the writer, and is all that does
\* until a write falls short.
Progress ==
  /\ pc \in Before => sent = <<>> /\ ~short
  /\ pc \in Writing => \A a \in DOMAIN sent : Position(sent[a]) < Here
  /\ pc \in Writing /\ ~short => Len(sent) = Here - 1
  /\ cmd = "upload" /\ pc \in Writing /\ i < NBlocks => \A n \in 0 .. i - 1 : Has(n)

WrittenSoFar ==
  sent \in Seq(Units) /\ Progress /\ InOrder /\ WholeUntilShort /\ NoBlockLeftOut

AnyReply == [status : Nat, length : Nat, body : Nat]

\* The n numbers that follow a.
Run(a, n) == [k \in 1 .. n |-> a + k]

\* The first p units of the answer have been received.
Taken(p) == stream = Run(p - 3, reply.body + 3 - p)

\* What is left of the answer is its tail, and what was copied is what comes
\* before that tail, but for the header.
ReceivedSoFar ==
  /\ reply \in AnyReply
  /\ pc \in {"nameservers", "mac", "resolve", "connect", "send"} => header
  /\ ~header =>
       /\ reply.status \div 100 = 2 \/ (trouble /\ reply.length \div 100 = 2)
       /\ len = reply.length
       /\ \E n \in 0 .. reply.body :
            /\ binbuf = Run(0, n)
            /\ pc # "undefined" => n <= len
            /\ pc = "recv" => Taken(n + 3)
  /\ header =>
       /\ binbuf = <<>>
       /\ pc = "recv" => stream = <<>> \/ \E p \in 0 .. 2 : Taken(p) /\ (p # 0 => trouble)

\* What the status, where it was looked for, is made into when it is not accepted.
HeaderRead ==
  /\ pc = "returned" /\ cmd = "download" /\ header => result = 0 \/ IsError(result) \/ TakenForPointer
  /\ pc = "backup" /\ header => TakenForPointer

IInv == TypeOK /\ Control /\ WrittenSoFar /\ ReceivedSoFar /\ HeaderRead

-----------------------------------------------------------------------------
(* The backup as a sequence of units. *)

LEMMA FrameType ==
  /\ Frame \in Seq(Units) /\ Len(Frame) = 2 * NBlocks - 1
  /\ \A n \in 1 .. NBlocks - 1 : Frame[2 * n] = <<"len", n, "whole">>
  /\ \A n \in 0 .. NBlocks - 1 : Frame[2 * n + 1] = <<"data", n, "whole">>
<1>1. 2 * NBlocks - 1 \in Nat
  BY CloudAssumption
<1>2. ASSUME NEW k \in 1 .. 2 * NBlocks - 1
      PROVE  Frame[k] \in Units
  BY <1>2, CloudAssumption DEF Frame, Units
<1>3. Frame \in Seq(Units) /\ Len(Frame) = 2 * NBlocks - 1
  BY <1>1, <1>2, CloudAssumption DEF Frame
<1>4. ASSUME NEW n \in 1 .. NBlocks - 1
      PROVE  Frame[2 * n] = <<"len", n, "whole">>
  BY <1>4, CloudAssumption DEF Frame
<1>5. ASSUME NEW n \in 0 .. NBlocks - 1
      PROVE  Frame[2 * n + 1] = <<"data", n, "whole">>
  BY <1>5, CloudAssumption DEF Frame
<1>6. QED
  BY <1>3, <1>4, <1>5

\* A head of the backup, unit by unit.
LEMMA HeadByUnit ==
  ASSUME NEW s \in Seq(Units), Len(s) <= Len(Frame)
  PROVE  s = SubSeq(Frame, 1, Len(s)) <=> \A k \in 1 .. Len(s) : s[k] = Frame[k]
<1>1. Len(s) \in Nat /\ DOMAIN s = 1 .. Len(s)
  BY LenProperties
<1>2. SubSeq(Frame, 1, Len(s)) = [k \in 1 .. Len(s) |-> Frame[k]]
  BY <1>1, FrameType, SubSeqProperties
<1>3. QED
  BY <1>1, <1>2

-----------------------------------------------------------------------------
(* Types. *)

\* What is counted in a sequence and cut off at a capacity stays within it.
LEMMA CountedIn ==
  ASSUME NEW s \in Seq(STRING), NEW S \in SUBSET DOMAIN s, NEW max \in Nat
  PROVE  Cardinality(S) \in Nat /\ AtMost(Cardinality(S), max) \in 0 .. max
<1>1. IsFiniteSet(DOMAIN s)
  BY LenProperties, FS_Interval
<1>2. Cardinality(S) \in Nat
  BY <1>1, FS_Subset, FS_CardinalityType
<1>3. QED
  BY <1>2 DEF AtMost

LEMMA ListedRange == \A conf \in Confs : ParseResolvConf(conf) \in 0 .. MAX_NSERVERS
<1>1. SUFFICES ASSUME NEW conf \in Confs
               PROVE  ParseResolvConf(conf) \in 0 .. MAX_NSERVERS
  OBVIOUS
<1>. DEFINE S == {n \in DOMAIN conf : conf[n] \in Servers /\ \A k \in 1 .. n : conf[k] # "zero"}
<1>2. S \in SUBSET DOMAIN conf /\ conf \in Seq(STRING) /\ MAX_NSERVERS \in Nat
  BY CloudAssumption
<1>. HIDE DEF S
<1>3. AtMost(Cardinality(S), MAX_NSERVERS) \in 0 .. MAX_NSERVERS
  BY <1>2, CountedIn
<1>4. QED
  BY <1>3 DEF ParseResolvConf, S

LEMMA ServersRange == \A conf \in Confs : AddPredefined(ParseResolvConf(conf)) \in 0 .. MAX_NSERVERS
  BY ListedRange, CloudAssumption DEF AddPredefined, AtMost

LEMMA RecordsRange == \A a \in Answers : ARecords(a) \in 0 .. MAX_ARECORDS
<1>1. SUFFICES ASSUME NEW a \in Answers
               PROVE  ARecords(a) \in 0 .. MAX_ARECORDS
  OBVIOUS
<1>. DEFINE S == {n \in DOMAIN a.types : a.types[n] = "A"}
<1>2. S \in SUBSET DOMAIN a.types /\ a.types \in Seq(STRING) /\ MAX_ARECORDS \in Nat
  BY CloudAssumption
<1>. HIDE DEF S
<1>3. AtMost(Cardinality(S), MAX_ARECORDS) \in 0 .. MAX_ARECORDS
  BY <1>2, CountedIn
<1>4. QED
  BY <1>3 DEF ARecords, S

\* What is read out of a piece of the answer is a number.
LEMMA PieceTypes ==
  ASSUME NEW piece, reply \in AnyReply
  PROVE  /\ RespCode(piece) \in Int /\ PayloadLen(piece) \in Nat
         /\ MakeError(RespCode(piece)) \in Int
<1>1. RespCode(piece) \in Int
  BY DEF RespCode, AnyReply
<1>2. QED
  BY <1>1 DEF PayloadLen, MakeError, AnyReply

\* The variables that are true or false, and the others.
Flags == header \in BOOLEAN /\ fresh \in BOOLEAN /\ short \in BOOLEAN /\ trouble \in BOOLEAN

Fields ==
  /\ cmd \in {"upload", "file", "download"}
  /\ pc \in {"nameservers", "mac", "resolve", "connect", "send", "recv", "open", "write", "block",
             "returned", "killed", "undefined", "no_backup", "backup", "exited"}
  /\ ns \in 0 .. MAX_NSERVERS /\ srv \in 0 .. MAX_ARECORDS
  /\ sock \in {"none", "new", "used", "failed", "pending", "connected"}
  /\ len \in Nat /\ result \in Int

LEMMA TypeParts == Flags /\ Fields => TypeOK
  BY DEF Flags, Fields, TypeOK

LEMMA FlagsStep == Flags /\ [Next]_vars => Flags'
<1>. SUFFICES ASSUME Flags, [Next]_vars
              PROVE  Flags'
  OBVIOUS
<1>. USE DEF Flags, resolver, receiver, writer, Return
<1>1. CASE FillNs
  BY <1>1 DEF FillNs
<1>2. CASE GetMac
  BY <1>2 DEF GetMac
<1>3. CASE Answered
  BY <1>3 DEF Answered
<1>4. CASE Silence
  BY <1>4 DEF Silence
<1>5. CASE AllSilent
  BY <1>5 DEF AllSilent
<1>6. CASE Connected
  BY <1>6 DEF Connected
<1>7. CASE NotOne
  BY <1>7 DEF NotOne
<1>8. CASE NoMoreAddresses
  BY <1>8 DEF NoMoreAddresses
<1>9. CASE Send
  BY <1>9 DEF Send
<1>10. CASE Receive
  BY <1>10 DEF Receive, WholeHeader, PartOfHeader, Store
<1>11. CASE EndOfStream
  BY <1>11 DEF EndOfStream
<1>12. CASE ReceiveFails
  BY <1>12 DEF ReceiveFails
<1>13. CASE Open
  BY <1>13 DEF Open
<1>14. CASE WriteLength
  BY <1>14 DEF WriteLength, Put
<1>15. CASE WriteBlock
  BY <1>15 DEF WriteBlock, Put
<1>16. CASE BrokenPipe
  BY <1>16 DEF BrokenPipe
<1>17. CASE Written
  BY <1>17 DEF Written
<1>18. CASE DownloadBackup
  BY <1>18 DEF DownloadBackup
<1>19. CASE Exit
  BY <1>19 DEF Exit
<1>20. CASE UNCHANGED vars
  BY <1>20 DEF vars
<1>21. QED
  BY <1>1, <1>2, <1>3, <1>4, <1>5, <1>6, <1>7, <1>8, <1>9, <1>10,
     <1>11, <1>12, <1>13, <1>14, <1>15, <1>16, <1>17, <1>18, <1>19, <1>20 DEF Next, Program, Network

LEMMA FieldsStep == Fields /\ reply \in AnyReply /\ [Next]_vars => Fields'
<1>. SUFFICES ASSUME Fields, reply \in AnyReply, [Next]_vars
              PROVE  Fields'
  OBVIOUS
<1>. USE DEF Fields, resolver, receiver, writer, Return, Error
<1>1. CASE FillNs
  BY <1>1, ServersRange DEF FillNs
<1>2. CASE GetMac
  BY <1>2 DEF GetMac
<1>3. CASE Answered
  BY <1>3, RecordsRange DEF Answered, ERR_GENERAL
<1>4. CASE Silence
  BY <1>4 DEF Silence
<1>5. CASE AllSilent
  BY <1>5, CloudAssumption DEF AllSilent
<1>6. CASE Connected
  BY <1>6 DEF Connected
<1>7. CASE NotOne
  BY <1>7 DEF NotOne
<1>8. CASE NoMoreAddresses
  BY <1>8 DEF NoMoreAddresses, ERR_GENERAL
<1>9. CASE Send
  BY <1>9 DEF Send, ERR_SEND
<1>10. CASE Receive
  <2>1. PICK piece : WholeHeader(piece) \/ PartOfHeader(piece) \/ (Store(piece) /\ UNCHANGED <<header, len, result>>)
    BY <1>10 DEF Receive
  <2>2. UNCHANGED <<cmd, resolver, i, sock, reply, sent>>
    BY <1>10 DEF Receive
  <2>3. CASE WholeHeader(piece)
    BY <2>2, <2>3, PieceTypes DEF WholeHeader, Store, ERR_HTTP, ERR_MALLOC
  <2>4. CASE PartOfHeader(piece)
    BY <1>10, <2>2, <2>4, PieceTypes DEF PartOfHeader, ERR_HTTP
  <2>5. CASE Store(piece) /\ UNCHANGED <<header, len, result>>
    BY <2>2, <2>5 DEF Store
  <2>6. QED
    BY <2>1, <2>3, <2>4, <2>5
<1>11. CASE EndOfStream
  BY <1>11 DEF EndOfStream
<1>12. CASE ReceiveFails
  <2>1. MakeError(-1) = -1
    BY DEF MakeError
  <2>2. QED
    BY <1>12, <2>1 DEF ReceiveFails
<1>13. CASE Open
  BY <1>13 DEF Open
<1>14. CASE WriteLength
  BY <1>14 DEF WriteLength
<1>15. CASE WriteBlock
  BY <1>15 DEF WriteBlock
<1>16. CASE BrokenPipe
  BY <1>16 DEF BrokenPipe
<1>17. CASE Written
  BY <1>17 DEF Written
<1>18. CASE DownloadBackup
  BY <1>18 DEF DownloadBackup
<1>19. CASE Exit
  BY <1>19 DEF Exit
<1>20. CASE UNCHANGED vars
  BY <1>20 DEF vars
<1>21. QED
  BY <1>1, <1>2, <1>3, <1>4, <1>5, <1>6, <1>7, <1>8, <1>9, <1>10,
     <1>11, <1>12, <1>13, <1>14, <1>15, <1>16, <1>17, <1>18, <1>19, <1>20 DEF Next, Program, Network

-----------------------------------------------------------------------------
(* What has been written. *)

LEMMA ControlInit == Init => Control
  BY DEF Init, Control, Writing

LEMMA ControlStep == Fields /\ Control /\ [Next]_vars => Control'
<1>. SUFFICES ASSUME Fields, Control, [Next]_vars
              PROVE  Control'
  OBVIOUS
<1>. USE DEF Control, Writing, resolver, receiver, writer, Return
<1>1. Control /\ ns \in Nat /\ srv \in Nat /\ cmd \in {"upload", "file", "download"} /\ NBlocks \in Nat \ {0}
  BY CloudAssumption DEF Fields
<1>2. CASE FillNs
  BY <1>2, <1>1, ServersRange, CloudAssumption DEF FillNs
<1>3. CASE GetMac
  BY <1>3, <1>1 DEF GetMac
<1>4. CASE Answered
  BY <1>4, <1>1, RecordsRange, CloudAssumption DEF Answered
<1>5. CASE Silence
  BY <1>5, <1>1 DEF Silence
<1>6. CASE AllSilent
  BY <1>6, <1>1 DEF AllSilent
<1>7. CASE Connected
  BY <1>7, <1>1 DEF Connected
<1>8. CASE NotOne
  BY <1>8, <1>1 DEF NotOne
<1>9. CASE NoMoreAddresses
  BY <1>9, <1>1 DEF NoMoreAddresses
<1>10. CASE Send
  BY <1>10, <1>1 DEF Send
<1>11. CASE Receive
  BY <1>11, <1>1 DEF Receive, WholeHeader, PartOfHeader, Store
<1>12. CASE EndOfStream
  BY <1>12, <1>1 DEF EndOfStream
<1>13. CASE ReceiveFails
  BY <1>13, <1>1 DEF ReceiveFails
<1>14. CASE Open
  BY <1>14, <1>1 DEF Open
<1>15. CASE WriteLength
  BY <1>15, <1>1 DEF WriteLength
<1>16. CASE WriteBlock
  BY <1>16, <1>1 DEF WriteBlock, AfterBlock
<1>17. CASE BrokenPipe
  BY <1>17, <1>1 DEF BrokenPipe
<1>18. CASE Written
  BY <1>18, <1>1 DEF Written
<1>19. CASE DownloadBackup
  BY <1>19, <1>1 DEF DownloadBackup
<1>20. CASE Exit
  BY <1>20, <1>1 DEF Exit
<1>21. CASE UNCHANGED vars
  BY <1>21, <1>1 DEF vars
<1>22. QED
  BY <1>2, <1>3, <1>4, <1>5, <1>6, <1>7, <1>8, <1>9, <1>10, <1>11,
     <1>12, <1>13, <1>14, <1>15, <1>16, <1>17, <1>18, <1>19, <1>20, <1>21 DEF Next, Program, Network

\* A whole backup is reported for the end of the loop alone.
Ending == {"returned", "exited"}

\* A step that writes nothing: what has been taken stays, and where the loops
\* begin that is nothing yet.
LEMMA Idle ==
  ASSUME WrittenSoFar, cmd' = cmd, sent' = sent, short' <=> short, pc' # "block",
         pc' \in Before => pc \in Before,
         pc' = "write" => pc \in Before /\ i' = 0,
         pc' \in Ending /\ cmd # "download" /\ result' = 0 => pc \in Ending /\ result = 0
  PROVE  WrittenSoFar'
<1>1. sent' \in Seq(Units) /\ InOrder'
  BY DEF WrittenSoFar, InOrder
<1>2. NoBlockLeftOut'
  BY DEF WrittenSoFar, NoBlockLeftOut
<1>3. WholeUntilShort'
  BY DEF WrittenSoFar, WholeUntilShort, Ending
<1>4. Progress'
  <2>1. pc' \in Before => sent' = <<>> /\ ~short'
    BY DEF WrittenSoFar, Progress
  <2>2. pc' \in Writing => pc' = "write" /\ i' = 0 /\ sent' = <<>>
    BY DEF WrittenSoFar, Progress, Writing
  <2>3. Len(<<>>) = 0 /\ DOMAIN <<>> = {}
    OBVIOUS
  <2>4. pc' \in Writing => /\ \A a \in DOMAIN sent' : Position(sent'[a]) < Here'
                          /\ Len(sent') = Here' - 1
    BY <2>2, <2>3 DEF Here
  <2>5. pc' \in Writing => \A n \in 0 .. i' - 1 : Has(n)'
    BY <2>2
  <2>6. QED
    BY <2>1, <2>4, <2>5 DEF Progress
<1>5. QED
  BY <1>1, <1>2, <1>3, <1>4 DEF WrittenSoFar

\* One unit more, the one whose place it is: the order is kept, and a head of the
\* backup grows by one.
LEMMA OneMore ==
  ASSUME WrittenSoFar, Control, pc \in Writing, NEW kind \in {"len", "data"}, NEW how \in {"whole", "part"},
         sent' = Append(sent, <<kind, i, how>>), Position(<<kind, i, how>>) = Here,
         Here <= Len(Frame), Frame[Here] = <<kind, i, "whole">>
  PROVE  /\ sent' \in Seq(Units) /\ Len(sent') = Len(sent) + 1 /\ InOrder'
         /\ \A k \in DOMAIN sent : k \in DOMAIN sent' /\ sent'[k] = sent[k]
         /\ sent'[Len(sent')] = <<kind, i, how>>
         /\ \A a \in DOMAIN sent' : a \in DOMAIN sent \/ sent'[a] = <<kind, i, how>>
         /\ \A a \in DOMAIN sent' : Position(sent'[a]) <= Here
         /\ ~short /\ how = "whole" => Len(sent') <= Len(Frame) /\ sent' = SubSeq(Frame, 1, Len(sent'))
<1>. DEFINE u == <<kind, i, how>>
<1>1. u \in Units /\ i \in Nat /\ Here \in Nat
  BY DEF Units, Control, Here
<1>2. sent \in Seq(Units) /\ Len(sent) \in Nat /\ DOMAIN sent = 1 .. Len(sent)
  BY LenProperties DEF WrittenSoFar
<1>. HIDE DEF u
<1>3. sent' = Append(sent, u) /\ Position(u) = Here
  BY DEF u
<1>4. /\ sent' \in Seq(Units) /\ Len(sent') = Len(sent) + 1 /\ DOMAIN sent' = 1 .. Len(sent) + 1
      /\ \A k \in 1 .. Len(sent) : sent'[k] = sent[k]
      /\ sent'[Len(sent) + 1] = u
  <2>1. /\ Append(sent, u) \in Seq(Units) /\ Len(Append(sent, u)) = Len(sent) + 1
        /\ \A k \in 1 .. Len(sent) : Append(sent, u)[k] = sent[k]
        /\ Append(sent, u)[Len(sent) + 1] = u
    BY <1>1, <1>2, AppendProperties
  <2>2. DOMAIN Append(sent, u) = 1 .. Len(sent) + 1
    BY <2>1, LenProperties
  <2>3. QED
    BY <1>3, <2>1, <2>2
<1>5. \A k \in DOMAIN sent : k \in DOMAIN sent' /\ sent'[k] = sent[k]
  BY <1>2, <1>4
<1>6. \A a \in DOMAIN sent' : a \in DOMAIN sent \/ a = Len(sent) + 1
  BY <1>2, <1>4
<1>7. /\ \A a \in DOMAIN sent : Position(sent[a]) < Here
      /\ \A a, b \in DOMAIN sent : a < b => Position(sent[a]) < Position(sent[b])
  BY DEF WrittenSoFar, Progress, InOrder
<1>8. InOrder'
  <2>1. SUFFICES ASSUME NEW a \in DOMAIN sent', NEW b \in DOMAIN sent', a < b
                 PROVE  Position(sent'[a]) < Position(sent'[b])
    BY DEF InOrder, Position
  <2>2. a \in DOMAIN sent
    BY <1>2, <1>4, <2>1
  <2>3. CASE b \in DOMAIN sent
    BY <1>5, <1>7, <2>1, <2>2, <2>3
  <2>4. CASE b = Len(sent) + 1
    BY <1>3, <1>4, <1>5, <1>7, <2>2, <2>4
  <2>5. QED
    BY <1>6, <2>3, <2>4
<1>9. \A a \in DOMAIN sent' : Position(sent'[a]) <= Here
  <2>1. SUFFICES ASSUME NEW a \in DOMAIN sent'
                 PROVE  Position(sent'[a]) <= Here
    OBVIOUS
  <2>2. CASE a \in DOMAIN sent
    <3>1. sent[a] \in Units
      BY <1>2, <2>2
    <3>2. Position(sent[a]) \in Nat
      BY <3>1 DEF Units, Position
    <3>3. QED
      BY <1>1, <1>5, <1>7, <2>2, <3>2
  <2>3. CASE a = Len(sent) + 1
    BY <1>1, <1>3, <1>4, <2>3
  <2>4. QED
    BY <1>6, <2>2, <2>3
<1>10. ASSUME ~short, how = "whole"
       PROVE  Len(sent') <= Len(Frame) /\ sent' = SubSeq(Frame, 1, Len(sent'))
  <2>1. Len(sent) = Here - 1 /\ Len(sent) <= Len(Frame) /\ sent = SubSeq(Frame, 1, Len(sent))
    BY <1>10 DEF WrittenSoFar, Progress, WholeUntilShort
  <2>2. \A k \in 1 .. Len(sent) : sent[k] = Frame[k]
    BY <1>2, <2>1, HeadByUnit
  <2>3. Len(sent') = Here
    BY <1>1, <1>2, <1>4, <2>1
  <2>4. u = Frame[Here]
    BY <1>10 DEF u
  <2>5. \A k \in 1 .. Len(sent') : sent'[k] = Frame[k]
    BY <1>1, <1>2, <1>4, <2>1, <2>2, <2>3, <2>4
  <2>6. QED
    BY <1>4, <2>3, <2>5, HeadByUnit
<1>11. QED
  BY <1>4, <1>5, <1>6, <1>8, <1>9, <1>10 DEF u

LEMMA WrittenInit == Init => WrittenSoFar
<1>. SUFFICES ASSUME Init
              PROVE  WrittenSoFar
  OBVIOUS
<1>1. sent = <<>> /\ i = 0 /\ pc = "nameservers" /\ ~short
  BY Zenon DEF Init
<1>2. sent \in Seq(Units) /\ Len(sent) = 0 /\ DOMAIN sent = {} /\ Len(Frame) \in Nat
  BY <1>1, EmptySeq, FrameType, LenProperties
<1>3. WholeUntilShort
  BY <1>1, <1>2, HeadByUnit DEF WholeUntilShort
<1>4. Progress /\ InOrder /\ NoBlockLeftOut
  BY <1>1, <1>2 DEF Progress, Before, Writing, InOrder, NoBlockLeftOut
<1>5. QED
  BY <1>2, <1>3, <1>4 DEF WrittenSoFar

\* The length of block i is taken, or some of it, or nothing.
LEMMA WriteLengthStep == Control /\ Flags /\ Flags' /\ WrittenSoFar /\ WriteLength => WrittenSoFar'
<1>. SUFFICES ASSUME Control, Flags, Flags', WrittenSoFar, WriteLength
              PROVE  WrittenSoFar'
  OBVIOUS
<1>1. PICK how \in Outcomes : Put("len", how)
  BY DEF WriteLength
<1>2. /\ pc = "write" /\ pc' = "block" /\ i' = i /\ cmd' = cmd
      /\ i \in 1 .. NBlocks - 1 /\ NBlocks \in Nat /\ i \in Nat
  BY CloudAssumption DEF WriteLength, Control
<1>3. Here = 2 * i /\ Here' = 2 * i + 1 /\ pc \in Writing /\ pc' \in Writing /\ pc' \notin Before
  BY <1>2 DEF Here, Writing, Before
<1>4. (short' <=> (short \/ how # "whole")) /\ how \in {"whole", "part", "nothing"}
  BY <1>1, Zenon DEF Put, Outcomes
<1>5. CASE how = "nothing"
  <2>1. sent' = sent /\ short'
    BY <1>1, <1>4, <1>5 DEF Put
  <2>2. sent' \in Seq(Units) /\ InOrder' /\ NoBlockLeftOut'
    BY <1>2, <2>1 DEF WrittenSoFar, InOrder, NoBlockLeftOut
  <2>3. WholeUntilShort'
    BY <2>1 DEF WholeUntilShort
  <2>4. \A a \in DOMAIN sent' : Position(sent'[a]) < Here'
    <3>1. SUFFICES ASSUME NEW a \in DOMAIN sent
                   PROVE  Position(sent[a]) < Here'
      BY <2>1
    <3>2. Position(sent[a]) < Here
      BY <1>3 DEF WrittenSoFar, Progress
    <3>3. sent[a] \in Units
      BY LenProperties DEF WrittenSoFar
    <3>4. Position(sent[a]) \in Nat
      BY <3>3 DEF Units, Position
    <3>5. QED
      BY <1>2, <1>3, <3>2, <3>4
  <2>5. cmd' = "upload" => \A n \in 0 .. i' - 1 : Has(n)'
    BY <1>2, <1>3, <2>1 DEF WrittenSoFar, Progress, Has
  <2>6. Progress'
    BY <1>3, <2>1, <2>4, <2>5 DEF Progress
  <2>7. QED
    BY <2>2, <2>3, <2>6 DEF WrittenSoFar
<1>6. CASE how # "nothing"
  <2>1. sent' = Append(sent, <<"len", i, how>>) /\ how \in {"whole", "part"}
    BY <1>1, <1>4, <1>6 DEF Put
  <2>2. Position(<<"len", i, how>>) = Here /\ Here <= Len(Frame) /\ Frame[Here] = <<"len", i, "whole">>
    <3>1. Position(<<"len", i, how>>) = Here
      BY <1>3 DEF Position
    <3>2. Here <= Len(Frame)
      BY <1>2, <1>3, FrameType
    <3>3. Frame[2 * i] = <<"len", i, "whole">>
      BY <1>2, FrameType
    <3>4. QED
      BY <1>3, <3>1, <3>2, <3>3
  <2>3. /\ sent' \in Seq(Units) /\ Len(sent') = Len(sent) + 1 /\ InOrder'
        /\ \A k \in DOMAIN sent : k \in DOMAIN sent' /\ sent'[k] = sent[k]
        /\ \A a \in DOMAIN sent' : a \in DOMAIN sent \/ sent'[a] = <<"len", i, how>>
        /\ \A a \in DOMAIN sent' : Position(sent'[a]) <= Here
        /\ ~short /\ how = "whole" => Len(sent') <= Len(Frame) /\ sent' = SubSeq(Frame, 1, Len(sent'))
    BY <1>3, <2>1, <2>2, OneMore
  <2>4. WholeUntilShort'
    BY <1>2, <1>4, <2>3 DEF WholeUntilShort
  <2>5. cmd = "upload" => \A n \in 0 .. i - 1 : Has(n)'
    <3>1. cmd = "upload" => \A n \in 0 .. i - 1 : Has(n)
      BY <1>2, <1>3 DEF WrittenSoFar, Progress
    <3>2. \A n : Has(n) => Has(n)'
      BY <2>3 DEF Has
    <3>3. QED
      BY <3>1, <3>2
  <2>6. NoBlockLeftOut'
    <3>1. SUFFICES ASSUME cmd = "upload", NEW a \in DOMAIN sent', NEW n \in 0 .. sent'[a][2] - 1
                   PROVE  Has(n)'
      BY <1>2 DEF NoBlockLeftOut, Has
    <3>2. CASE a \in DOMAIN sent
      <4>1. Has(n)
        BY <2>3, <3>1, <3>2 DEF WrittenSoFar, NoBlockLeftOut, Has
      <4>2. QED
        BY <2>3, <4>1 DEF Has
    <3>3. CASE sent'[a] = <<"len", i, how>>
      BY <2>5, <3>1, <3>3
    <3>4. QED
      BY <2>3, <3>2, <3>3
  <2>7. Progress'
    <3>1. \A a \in DOMAIN sent' : Position(sent'[a]) < Here'
      <4>1. SUFFICES ASSUME NEW a \in DOMAIN sent'
                     PROVE  Position(sent'[a]) < Here'
        OBVIOUS
      <4>2. sent'[a] \in Units
        BY <2>3, LenProperties
      <4>3. Position(sent'[a]) \in Nat /\ Position(sent'[a]) <= Here
        BY <2>3, <4>2 DEF Units, Position
      <4>4. QED
        BY <1>2, <1>3, <4>3
    <3>2. ~short' => Len(sent') = Here' - 1
      <4>1. ~short' => Len(sent) = Here - 1
        BY <1>3, <1>4 DEF WrittenSoFar, Progress
      <4>2. QED
        BY <1>2, <1>3, <2>3, <4>1
    <3>3. QED
      BY <1>2, <1>3, <2>5, <3>1, <3>2 DEF Progress
  <2>8. QED
    BY <2>3, <2>4, <2>6, <2>7 DEF WrittenSoFar
<1>7. QED
  BY <1>5, <1>6

\* The data of block i: a socket that takes none of it ends the loop.
LEMMA WriteBlockStep == Control /\ Flags /\ Flags' /\ WrittenSoFar /\ WriteBlock => WrittenSoFar'
<1>. SUFFICES ASSUME Control, Flags, Flags', WrittenSoFar, WriteBlock
              PROVE  WrittenSoFar'
  OBVIOUS
<1>1. PICK how \in Outcomes : Put("data", how) /\ i' = AfterBlock(how)
  BY DEF WriteBlock
<1>2. /\ pc \in Writing /\ pc' = "write" /\ cmd' = cmd /\ i \in Nat /\ i < NBlocks /\ NBlocks \in Nat
      /\ pc = "block" \/ i = 0
  BY CloudAssumption DEF WriteBlock, Control, Writing
<1>3. Here = 2 * i + 1 /\ pc' \in Writing /\ pc' \notin Before
  BY <1>2 DEF Here, Writing, Before
<1>4. (short' <=> (short \/ how # "whole")) /\ how \in {"whole", "part", "nothing"}
  BY <1>1, Zenon DEF Put, Outcomes
<1>5. /\ i' \in Nat /\ i' >= i + 1 /\ Here' = 2 * i'
      /\ i' # i + 1 => cmd = "upload" /\ how = "nothing" /\ i' = NBlocks
  BY <1>1, <1>2 DEF AfterBlock, Here
<1>6. ASSUME NEW n \in 0 .. i - 1, cmd = "upload"
      PROVE  Has(n)
  BY <1>2, <1>6 DEF WrittenSoFar, Progress
<1>7. CASE how = "nothing"
  <2>1. sent' = sent /\ short'
    BY <1>1, <1>4, <1>7 DEF Put
  <2>2. sent' \in Seq(Units) /\ InOrder' /\ NoBlockLeftOut'
    BY <1>2, <2>1 DEF WrittenSoFar, InOrder, NoBlockLeftOut
  <2>3. WholeUntilShort'
    BY <2>1 DEF WholeUntilShort
  <2>4. \A a \in DOMAIN sent' : Position(sent'[a]) < Here'
    <3>1. SUFFICES ASSUME NEW a \in DOMAIN sent
                   PROVE  Position(sent[a]) < Here'
      BY <2>1
    <3>2. Position(sent[a]) < Here
      BY <1>2 DEF WrittenSoFar, Progress
    <3>3. sent[a] \in Units
      BY LenProperties DEF WrittenSoFar
    <3>4. Position(sent[a]) \in Nat
      BY <3>3 DEF Units, Position
    <3>5. QED
      BY <1>2, <1>3, <1>5, <3>2, <3>4
  <2>5. cmd' = "upload" => ~(i' < NBlocks)
    BY <1>1, <1>2, <1>7 DEF AfterBlock
  <2>6. Progress'
    BY <1>2, <1>3, <2>1, <2>4, <2>5 DEF Progress
  <2>7. QED
    BY <2>2, <2>3, <2>6 DEF WrittenSoFar
<1>8. CASE how # "nothing"
  <2>1. sent' = Append(sent, <<"data", i, how>>) /\ how \in {"whole", "part"} /\ i' = i + 1
    BY <1>1, <1>4, <1>5, <1>8 DEF Put
  <2>2. Position(<<"data", i, how>>) = Here /\ Here <= Len(Frame) /\ Frame[Here] = <<"data", i, "whole">>
    BY <1>2, <1>3, FrameType DEF Position
  <2>3. /\ sent' \in Seq(Units) /\ Len(sent') = Len(sent) + 1 /\ InOrder'
        /\ \A k \in DOMAIN sent : k \in DOMAIN sent' /\ sent'[k] = sent[k]
        /\ sent'[Len(sent')] = <<"data", i, how>>
        /\ \A a \in DOMAIN sent' : a \in DOMAIN sent \/ sent'[a] = <<"data", i, how>>
        /\ \A a \in DOMAIN sent' : Position(sent'[a]) <= Here
        /\ ~short /\ how = "whole" => Len(sent') <= Len(Frame) /\ sent' = SubSeq(Frame, 1, Len(sent'))
    BY <1>2, <2>1, <2>2, OneMore
  <2>4. WholeUntilShort'
    BY <1>2, <1>4, <2>3 DEF WholeUntilShort
  <2>5. \A n : Has(n) => Has(n)'
    BY <2>3 DEF Has
  <2>6. \A n : n = i => Has(n)'
    <3>1. Len(sent') \in DOMAIN sent'
      <4>1. Len(sent') \in 1 .. Len(sent') /\ DOMAIN sent' = 1 .. Len(sent')
        BY <2>3, LenProperties DEF WrittenSoFar
      <4>2. QED
        BY <4>1
    <3>2. QED
      BY <2>3, <3>1 DEF Has
  <2>7. NoBlockLeftOut'
    <3>1. SUFFICES ASSUME cmd = "upload", NEW a \in DOMAIN sent', NEW n \in 0 .. sent'[a][2] - 1
                   PROVE  Has(n)'
      BY <1>2 DEF NoBlockLeftOut, Has
    <3>2. CASE a \in DOMAIN sent
      <4>1. Has(n)
        BY <2>3, <3>1, <3>2 DEF WrittenSoFar, NoBlockLeftOut, Has
      <4>2. QED
        BY <2>5, <4>1
    <3>3. CASE sent'[a] = <<"data", i, how>>
      BY <1>6, <2>5, <3>1, <3>3
    <3>4. QED
      BY <2>3, <3>2, <3>3
  <2>8. Progress'
    <3>1. \A a \in DOMAIN sent' : Position(sent'[a]) < Here'
      <4>1. SUFFICES ASSUME NEW a \in DOMAIN sent'
                     PROVE  Position(sent'[a]) < Here'
        OBVIOUS
      <4>2. sent'[a] \in Units
        BY <2>3, LenProperties
      <4>3. Position(sent'[a]) \in Nat /\ Position(sent'[a]) <= Here
        BY <2>3, <4>2 DEF Units, Position
      <4>4. QED
        BY <1>2, <1>3, <1>5, <2>1, <4>3
    <3>2. ~short' => Len(sent') = Here' - 1
      <4>1. ~short' => Len(sent) = Here - 1
        BY <1>2, <1>4 DEF WrittenSoFar, Progress
      <4>2. QED
        BY <1>2, <1>3, <1>5, <2>1, <2>3, <4>1
    <3>3. cmd' = "upload" => \A n \in 0 .. i' - 1 : Has(n)'
      <4>1. SUFFICES ASSUME cmd = "upload", NEW n \in 0 .. i' - 1
                     PROVE  Has(n)'
        BY <1>2
      <4>2. n = i \/ n \in 0 .. i - 1
        BY <1>2, <2>1
      <4>3. n \in 0 .. i - 1 => Has(n)
        BY <1>6, <4>1
      <4>4. QED
        BY <2>5, <2>6, <4>2, <4>3
    <3>4. QED
      BY <1>2, <1>3, <3>1, <3>2, <3>3 DEF Progress
  <2>9. QED
    BY <2>3, <2>4, <2>7, <2>8 DEF WrittenSoFar
<1>9. QED
  BY <1>7, <1>8

\* The loop has ended: when nothing fell short that is the whole backup.
LEMMA WrittenEnds == Control /\ WrittenSoFar /\ Written => WrittenSoFar'
<1>. SUFFICES ASSUME Control, WrittenSoFar, Written
              PROVE  WrittenSoFar'
  OBVIOUS
<1>1. /\ pc = "write" /\ i = NBlocks /\ pc' = "returned" /\ cmd' = cmd /\ sent' = sent
      /\ NBlocks \in Nat \ {0}
  BY CloudAssumption DEF Written, Return, writer
<1>2. short' <=> short
  BY Zenon DEF Written, writer
<1>3. sent' \in Seq(Units) /\ InOrder' /\ NoBlockLeftOut'
  BY <1>1 DEF WrittenSoFar, InOrder, NoBlockLeftOut
<1>4. ~short => sent = Frame
  <2>1. SUFFICES ASSUME ~short
                 PROVE  sent = Frame
    OBVIOUS
  <2>2. Len(sent) = 2 * NBlocks - 1 /\ sent = SubSeq(Frame, 1, Len(sent))
    BY <1>1, <2>1 DEF WrittenSoFar, Progress, WholeUntilShort, Writing, Here
  <2>3. SubSeq(Frame, 1, Len(Frame)) = Frame
    BY FrameType, SubSeqFull
  <2>4. QED
    BY <2>2, <2>3, FrameType
<1>5. WholeUntilShort'
  BY <1>1, <1>2, <1>4 DEF WrittenSoFar, WholeUntilShort
<1>6. Progress'
  BY <1>1 DEF Progress, Writing, Before
<1>7. QED
  BY <1>3, <1>5, <1>6 DEF WrittenSoFar

LEMMA WrittenStep == Fields /\ Flags /\ Control /\ WrittenSoFar /\ [Next]_vars => WrittenSoFar'
<1>. SUFFICES ASSUME Fields, Flags, Control, WrittenSoFar, [Next]_vars
              PROVE  WrittenSoFar'
  OBVIOUS
<1>. USE DEF Before, Ending, Return
<1>1. Flags'
  BY FlagsStep
<1>2. CASE FillNs
  <2>1. cmd' = cmd /\ sent' = sent
    BY <1>2 DEF FillNs, writer
  <2>2. short' <=> short
    BY <1>2, Zenon DEF FillNs, writer
  <2>3. /\ pc' # "block" /\ (pc' \in Before => pc \in Before)
        /\ pc' = "write" => pc \in Before /\ i' = 0
        /\ pc' \in Ending /\ cmd # "download" /\ result' = 0 => pc \in Ending /\ result = 0
    BY <1>2 DEF FillNs
  <2>4. QED
    BY <2>1, <2>2, <2>3, Idle
<1>3. CASE GetMac
  <2>1. cmd' = cmd /\ sent' = sent
    BY <1>3 DEF GetMac, writer
  <2>2. short' <=> short
    BY <1>3, Zenon DEF GetMac, writer
  <2>3. /\ pc' # "block" /\ (pc' \in Before => pc \in Before)
        /\ pc' = "write" => pc \in Before /\ i' = 0
        /\ pc' \in Ending /\ cmd # "download" /\ result' = 0 => pc \in Ending /\ result = 0
    BY <1>3 DEF GetMac
  <2>4. QED
    BY <2>1, <2>2, <2>3, Idle
<1>4. CASE Answered
  <2>1. cmd' = cmd /\ sent' = sent
    BY <1>4 DEF Answered, writer
  <2>2. short' <=> short
    BY <1>4, Zenon DEF Answered, writer
  <2>3. /\ pc' # "block" /\ (pc' \in Before => pc \in Before)
        /\ pc' = "write" => pc \in Before /\ i' = 0
        /\ pc' \in Ending /\ cmd # "download" /\ result' = 0 => pc \in Ending /\ result = 0
    BY <1>4 DEF Answered, ERR_GENERAL, Error
  <2>4. QED
    BY <2>1, <2>2, <2>3, Idle
<1>5. CASE Silence
  <2>1. cmd' = cmd /\ sent' = sent
    BY <1>5 DEF Silence, writer
  <2>2. short' <=> short
    BY <1>5, Zenon DEF Silence, writer
  <2>3. /\ pc' # "block" /\ (pc' \in Before => pc \in Before)
        /\ pc' = "write" => pc \in Before /\ i' = 0
        /\ pc' \in Ending /\ cmd # "download" /\ result' = 0 => pc \in Ending /\ result = 0
    BY <1>5 DEF Silence
  <2>4. QED
    BY <2>1, <2>2, <2>3, Idle
<1>6. CASE AllSilent
  <2>1. cmd' = cmd /\ sent' = sent
    BY <1>6 DEF AllSilent, writer
  <2>2. short' <=> short
    BY <1>6, Zenon DEF AllSilent, writer
  <2>3. /\ pc' # "block" /\ (pc' \in Before => pc \in Before)
        /\ pc' = "write" => pc \in Before /\ i' = 0
        /\ pc' \in Ending /\ cmd # "download" /\ result' = 0 => pc \in Ending /\ result = 0
    BY <1>6 DEF AllSilent
  <2>4. QED
    BY <2>1, <2>2, <2>3, Idle
<1>7. CASE Connected
  <2>1. cmd' = cmd /\ sent' = sent
    BY <1>7 DEF Connected, writer
  <2>2. short' <=> short
    BY <1>7, Zenon DEF Connected, writer
  <2>3. /\ pc' # "block" /\ (pc' \in Before => pc \in Before)
        /\ pc' = "write" => pc \in Before /\ i' = 0
        /\ pc' \in Ending /\ cmd # "download" /\ result' = 0 => pc \in Ending /\ result = 0
    BY <1>7 DEF Connected
  <2>4. QED
    BY <2>1, <2>2, <2>3, Idle
<1>8. CASE NotOne
  <2>1. cmd' = cmd /\ sent' = sent
    BY <1>8 DEF NotOne, writer
  <2>2. short' <=> short
    BY <1>8, Zenon DEF NotOne, writer
  <2>3. /\ pc' # "block" /\ (pc' \in Before => pc \in Before)
        /\ pc' = "write" => pc \in Before /\ i' = 0
        /\ pc' \in Ending /\ cmd # "download" /\ result' = 0 => pc \in Ending /\ result = 0
    BY <1>8 DEF NotOne
  <2>4. QED
    BY <2>1, <2>2, <2>3, Idle
<1>9. CASE NoMoreAddresses
  <2>1. cmd' = cmd /\ sent' = sent
    BY <1>9 DEF NoMoreAddresses, writer
  <2>2. short' <=> short
    BY <1>9, Zenon DEF NoMoreAddresses, writer
  <2>3. /\ pc' # "block" /\ (pc' \in Before => pc \in Before)
        /\ pc' = "write" => pc \in Before /\ i' = 0
        /\ pc' \in Ending /\ cmd # "download" /\ result' = 0 => pc \in Ending /\ result = 0
    BY <1>9 DEF NoMoreAddresses, ERR_GENERAL, Error
  <2>4. QED
    BY <2>1, <2>2, <2>3, Idle
<1>10. CASE Send
  <2>1. cmd' = cmd /\ sent' = sent
    BY <1>10 DEF Send, writer
  <2>2. short' <=> short
    BY <1>10, Zenon DEF Send, writer
  <2>3. /\ pc' # "block" /\ (pc' \in Before => pc \in Before)
        /\ pc' = "write" => pc \in Before /\ i' = 0
        /\ pc' \in Ending /\ cmd # "download" /\ result' = 0 => pc \in Ending /\ result = 0
    BY <1>10 DEF Send, ERR_SEND, Error
  <2>4. QED
    BY <2>1, <2>2, <2>3, Idle
<1>11. CASE Receive
  <2>1. cmd' = cmd /\ sent' = sent
    BY <1>11 DEF Receive, writer
  <2>2. short' <=> short
    BY <1>11, Zenon DEF Receive, writer
  <2>3. /\ pc' # "block" /\ (pc' \in Before => pc \in Before)
        /\ pc' = "write" => pc \in Before /\ i' = 0
        /\ pc' \in Ending /\ cmd # "download" /\ result' = 0 => pc \in Ending /\ result = 0
    BY <1>11 DEF Receive, WholeHeader, PartOfHeader, Store, Control
  <2>4. QED
    BY <2>1, <2>2, <2>3, Idle
<1>12. CASE EndOfStream
  <2>1. cmd' = cmd /\ sent' = sent
    BY <1>12 DEF EndOfStream, writer
  <2>2. short' <=> short
    BY <1>12, Zenon DEF EndOfStream, writer
  <2>3. /\ pc' # "block" /\ (pc' \in Before => pc \in Before)
        /\ pc' = "write" => pc \in Before /\ i' = 0
        /\ pc' \in Ending /\ cmd # "download" /\ result' = 0 => pc \in Ending /\ result = 0
    BY <1>12 DEF EndOfStream, Control
  <2>4. QED
    BY <2>1, <2>2, <2>3, Idle
<1>13. CASE ReceiveFails
  <2>1. cmd' = cmd /\ sent' = sent
    BY <1>13 DEF ReceiveFails, writer
  <2>2. short' <=> short
    BY <1>13, Zenon DEF ReceiveFails, writer
  <2>3. /\ pc' # "block" /\ (pc' \in Before => pc \in Before)
        /\ pc' = "write" => pc \in Before /\ i' = 0
        /\ pc' \in Ending /\ cmd # "download" /\ result' = 0 => pc \in Ending /\ result = 0
    BY <1>13 DEF ReceiveFails, Control
  <2>4. QED
    BY <2>1, <2>2, <2>3, Idle
<1>14. CASE Open
  <2>1. cmd' = cmd /\ sent' = sent
    BY <1>14 DEF Open, writer
  <2>2. short' <=> short
    BY <1>14, Zenon DEF Open, writer
  <2>3. /\ pc' # "block" /\ (pc' \in Before => pc \in Before)
        /\ pc' = "write" => pc \in Before /\ i' = 0
        /\ pc' \in Ending /\ cmd # "download" /\ result' = 0 => pc \in Ending /\ result = 0
    BY <1>14 DEF Open
  <2>4. QED
    BY <2>1, <2>2, <2>3, Idle
<1>15. CASE WriteLength
  BY <1>1, <1>15, WriteLengthStep
<1>16. CASE WriteBlock
  BY <1>1, <1>16, WriteBlockStep
<1>17. CASE BrokenPipe
  <2>1. cmd' = cmd /\ sent' = sent
    BY <1>17 DEF BrokenPipe, writer
  <2>2. short' <=> short
    BY <1>17, Zenon DEF BrokenPipe, writer
  <2>3. /\ pc' # "block" /\ (pc' \in Before => pc \in Before)
        /\ pc' = "write" => pc \in Before /\ i' = 0
        /\ pc' \in Ending /\ cmd # "download" /\ result' = 0 => pc \in Ending /\ result = 0
    BY <1>17 DEF BrokenPipe
  <2>4. QED
    BY <2>1, <2>2, <2>3, Idle
<1>18. CASE Written
  BY <1>18, WrittenEnds
<1>19. CASE DownloadBackup
  <2>1. cmd' = cmd /\ sent' = sent
    BY <1>19 DEF DownloadBackup, writer
  <2>2. short' <=> short
    BY <1>19, Zenon DEF DownloadBackup, writer
  <2>3. /\ pc' # "block" /\ (pc' \in Before => pc \in Before)
        /\ pc' = "write" => pc \in Before /\ i' = 0
        /\ pc' \in Ending /\ cmd # "download" /\ result' = 0 => pc \in Ending /\ result = 0
    BY <1>19 DEF DownloadBackup
  <2>4. QED
    BY <2>1, <2>2, <2>3, Idle
<1>20. CASE Exit
  <2>1. cmd' = cmd /\ sent' = sent
    BY <1>20 DEF Exit, writer
  <2>2. short' <=> short
    BY <1>20, Zenon DEF Exit, writer
  <2>3. /\ pc' # "block" /\ (pc' \in Before => pc \in Before)
        /\ pc' = "write" => pc \in Before /\ i' = 0
        /\ pc' \in Ending /\ cmd # "download" /\ result' = 0 => pc \in Ending /\ result = 0
    BY <1>20 DEF Exit
  <2>4. QED
    BY <2>1, <2>2, <2>3, Idle
<1>21. CASE UNCHANGED vars
  <2>1. /\ cmd' = cmd /\ sent' = sent /\ pc' = pc /\ i' = i /\ result' = result
    BY <1>21 DEF vars
  <2>2. short' <=> short
    BY <1>21, Zenon DEF vars
  <2>3. Progress'
    BY <2>1, <2>2 DEF WrittenSoFar, Progress, Has, Here
  <2>4. QED
    BY <2>1, <2>2, <2>3 DEF WrittenSoFar, InOrder, WholeUntilShort, NoBlockLeftOut
<1>22. QED
  BY <1>2, <1>3, <1>4, <1>5, <1>6, <1>7, <1>8, <1>9, <1>10, <1>11,
     <1>12, <1>13, <1>14, <1>15, <1>16, <1>17, <1>18, <1>19, <1>20, <1>21 DEF Next, Program, Network

-----------------------------------------------------------------------------
(* What has been received. *)

LEMMA RunType ==
  ASSUME NEW a \in Int, NEW n \in Nat
  PROVE  Run(a, n) \in Seq(Int) /\ Len(Run(a, n)) = n /\ \A k \in 1 .. n : Run(a, n)[k] = a + k
<1>1. \A k \in 1 .. n : a + k \in Int
  OBVIOUS
<1>2. [k \in 1 .. n |-> a + k] \in Seq(Int)
  BY <1>1
<1>3. Run(a, n) \in Seq(Int)
  BY <1>2 DEF Run
<1>4. DOMAIN Run(a, n) = 1 .. n /\ \A k \in 1 .. n : Run(a, n)[k] = a + k
  BY DEF Run
<1>5. QED
  BY <1>3, <1>4, LenProperties

LEMMA IsRun ==
  ASSUME NEW a \in Int, NEW s \in Seq(Int), \A k \in 1 .. Len(s) : s[k] = a + k
  PROVE  s = Run(a, Len(s))
  BY LenProperties DEF Run

\* A part of such a sequence is one, and so are two that follow each other.
LEMMA RunCut ==
  ASSUME NEW a \in Int, NEW n \in Nat, NEW m \in 1 .. n + 1, NEW l \in m - 1 .. n
  PROVE  SubSeq(Run(a, n), m, l) = Run(a + m - 1, l - m + 1)
<1>. DEFINE r == Run(a, n)  s == SubSeq(r, m, l)
<1>1. \A k \in 1 .. n : r[k] = a + k
  BY DEF Run
<1>. HIDE DEF r
<1>2. m \in Int /\ l \in Int /\ \A k \in m .. l : r[k] \in Int
  BY <1>1
<1>3. /\ s \in Seq(Int) /\ Len(s) = IF m <= l THEN l - m + 1 ELSE 0
      /\ \A k \in 1 .. l - m + 1 : s[k] = r[m + k - 1]
  BY <1>2, SubSeqProperties
<1>. HIDE DEF s
<1>4. Len(s) = l - m + 1
  BY <1>3
<1>5. ASSUME NEW k \in 1 .. Len(s)
      PROVE  s[k] = (a + m - 1) + k
  BY <1>1, <1>3, <1>4
<1>6. s = Run(a + m - 1, Len(s))
  BY <1>3, <1>5, IsRun
<1>7. QED
  BY <1>4, <1>6 DEF s, r

LEMMA RunJoin ==
  ASSUME NEW a \in Int, NEW n \in Nat, NEW m \in Nat
  PROVE  Run(a, n) \o Run(a + n, m) = Run(a, n + m)
<1>. DEFINE s == Run(a, n)  t == Run(a + n, m)  u == s \o t
<1>1. s \in Seq(Int) /\ Len(s) = n /\ t \in Seq(Int) /\ Len(t) = m
  <2>1. a + n \in Int
    OBVIOUS
  <2>2. QED
    BY <2>1, RunType, Zenon
<1>2. (\A k \in 1 .. n : s[k] = a + k) /\ (\A k \in 1 .. m : t[k] = a + n + k)
  BY DEF Run
<1>3. /\ s \in Seq(Int) /\ Len(s) = n /\ \A k \in 1 .. n : s[k] = a + k
      /\ t \in Seq(Int) /\ Len(t) = m /\ \A k \in 1 .. m : t[k] = a + n + k
  BY <1>1, <1>2
<1>. HIDE DEF s, t
<1>4. /\ u \in Seq(Int) /\ Len(u) = n + m
      /\ \A k \in 1 .. n + m : u[k] = IF k <= n THEN s[k] ELSE t[k - n]
  BY <1>3, ConcatProperties
<1>. HIDE DEF u
<1>5. ASSUME NEW k \in 1 .. Len(u)
      PROVE  u[k] = a + k
  <2>1. CASE k <= n
    BY <1>3, <1>4, <2>1
  <2>2. CASE k > n
    <3>1. k - n \in 1 .. m
      BY <1>4, <2>2
    <3>2. t[k - n] = a + n + (k - n)
      BY <1>3, <3>1
    <3>3. QED
      BY <1>4, <2>2, <3>2
  <2>3. QED
    BY <2>1, <2>2
<1>6. u = Run(a, Len(u))
  BY <1>4, <1>5, IsRun
<1>7. QED
  BY <1>4, <1>6 DEF u, s, t

\* What a recv takes of the rest of the answer, and what it leaves.
LEMMA TakenOn ==
  ASSUME NEW p \in Nat, reply \in AnyReply, p <= reply.body + 3, Taken(p), NEW n \in 1 .. Len(stream)
  PROVE  /\ Len(stream) = reply.body + 3 - p
         /\ SubSeq(stream, 1, n) = Run(p - 3, n)
         /\ SubSeq(stream, n + 1, Len(stream)) = Run(p + n - 3, reply.body + 3 - (p + n))
<1>. DEFINE m == reply.body + 3 - p
<1>1. reply.body \in Nat /\ m \in Nat /\ p - 3 \in Int
  BY DEF AnyReply
<1>2. stream = Run(p - 3, m)
  BY DEF Taken
<1>. HIDE DEF m
<1>3. Len(stream) = m
  BY <1>1, <1>2, RunType
<1>4. 1 \in 1 .. m + 1 /\ n \in 1 - 1 .. m /\ n + 1 \in 1 .. m + 1 /\ m \in (n + 1) - 1 .. m
  BY <1>1, <1>3
<1>5. SubSeq(Run(p - 3, m), 1, n) = Run((p - 3) + 1 - 1, n - 1 + 1)
  BY <1>1, <1>4, RunCut, Zenon
<1>6. SubSeq(Run(p - 3, m), n + 1, m) = Run((p - 3) + (n + 1) - 1, m - (n + 1) + 1)
  BY <1>1, <1>4, RunCut, Zenon
<1>7. /\ (p - 3) + 1 - 1 = p - 3 /\ n - 1 + 1 = n /\ (p - 3) + (n + 1) - 1 = p + n - 3
      /\ m - (n + 1) + 1 = reply.body + 3 - (p + n)
  BY <1>1, <1>3 DEF m
<1>8. QED
  BY <1>2, <1>3, <1>5, <1>6, <1>7 DEF m

\* A step that does not touch what was received.
LEMMA Quiet ==
  ASSUME ReceivedSoFar, Flags, Flags', UNCHANGED receiver, trouble => trouble', pc # "undefined",
         pc' # "recv", pc' \in {"nameservers", "mac", "resolve", "connect", "send"} => header
  PROVE  ReceivedSoFar'
<1>1. reply' = reply /\ len' = len /\ binbuf' = binbuf
  BY DEF receiver
<1>2. header' <=> header
  BY Zenon DEF receiver
<1>3. CASE header
  BY <1>1, <1>2, <1>3 DEF ReceivedSoFar
<1>4. CASE ~header
  <2>1. PICK n \in 0 .. reply.body : binbuf = Run(0, n) /\ n <= len
    BY <1>4 DEF ReceivedSoFar
  <2>2. /\ reply \in AnyReply /\ len = reply.length
        /\ reply.status \div 100 = 2 \/ (trouble' /\ reply.length \div 100 = 2)
    BY <1>4 DEF ReceivedSoFar
  <2>3. QED
    BY <1>1, <1>2, <1>4, <2>1, <2>2 DEF ReceivedSoFar
<1>5. QED
  BY <1>3, <1>4

\* The header is found in a piece that comes after p of its three parts: what
\* follows it there, and where the status was read.
LEMMA HeaderInPiece ==
  ASSUME NEW p \in 0 .. 2, NEW n \in Nat, NEW piece, piece = Run(p - 3, n), reply \in AnyReply,
         \E k \in 1 .. n : piece[k] = Blank
  PROVE  /\ p + n - 3 \in Nat /\ PastHeader(piece) = Run(0, p + n - 3)
         /\ Accepts(piece) =>
              /\ reply.status \div 100 = 2 \/ (p # 0 /\ reply.length \div 100 = 2)
              /\ PayloadLen(piece) # 0 => PayloadLen(piece) = reply.length
<1>1. DOMAIN piece = 1 .. n /\ \A k \in 1 .. n : piece[k] = p - 3 + k
  BY DEF Run
<1>2. PICK b \in 1 .. n : piece[b] = Blank
  OBVIOUS
<1>3. b = 3 - p
  BY <1>1, <1>2 DEF Blank
<1>4. p + n - 3 \in Nat
  BY <1>3
<1>5. \A k \in DOMAIN piece : piece[k] = Blank <=> k = b
  BY <1>1, <1>3 DEF Blank
<1>6. (CHOOSE k \in DOMAIN piece : piece[k] = Blank) = b
  BY <1>1, <1>5
<1>7. PastHeader(piece) = SubSeq(piece, b + 1, Len(piece))
  BY <1>6 DEF PastHeader
<1>8. Len(piece) = n /\ p - 3 \in Int /\ b + 1 \in 1 .. n + 1 /\ n \in (b + 1) - 1 .. n
  BY <1>3, RunType
<1>9. SubSeq(Run(p - 3, n), b + 1, n) = Run((p - 3) + (b + 1) - 1, n - (b + 1) + 1)
  BY <1>8, RunCut, Zenon
<1>10. (p - 3) + (b + 1) - 1 = 0 /\ n - (b + 1) + 1 = p + n - 3
  BY <1>3
<1>11. PastHeader(piece) = Run(0, p + n - 3)
  BY <1>7, <1>8, <1>9, <1>10
<1>12. ASSUME Accepts(piece)
       PROVE  reply.status \div 100 = 2 \/ (p # 0 /\ reply.length \div 100 = 2)
  <2>1. n >= 1 /\ piece[1] = p - 2
    BY <1>1, <1>2
  <2>2. CASE p = 0
    BY <1>12, <2>1, <2>2 DEF Accepts, RespCode, Status, Length, AnyReply
  <2>3. CASE p = 1
    BY <1>12, <2>1, <2>3 DEF Accepts, RespCode, Status, Length, AnyReply
  <2>4. CASE p = 2
    BY <1>12, <2>1, <2>4 DEF Accepts, RespCode, Status, Length, AnyReply
  <2>5. QED
    BY <2>2, <2>3, <2>4
<1>13. PayloadLen(piece) # 0 => PayloadLen(piece) = reply.length
  BY DEF PayloadLen
<1>14. QED
  BY <1>4, <1>11, <1>12, <1>13

\* Until the header has been found nothing is copied.
LEMMA HeaderStays ==
  ASSUME reply' \in AnyReply, header', binbuf' = <<>>, pc' # "recv"
  PROVE  ReceivedSoFar'
  BY DEF ReceivedSoFar

LEMMA ReceiveStep == Fields /\ Flags /\ ReceivedSoFar /\ Receive => ReceivedSoFar'
<1>. SUFFICES ASSUME Fields, Flags, ReceivedSoFar, Receive
              PROVE  ReceivedSoFar'
  OBVIOUS
<1>1. /\ pc = "recv" /\ stream # <<>> /\ reply' = reply /\ reply \in AnyReply
      /\ reply.body \in Nat
  BY DEF Receive, ReceivedSoFar, AnyReply
<1>2. PICK n \in 1 .. Len(stream) :
        /\ stream' = SubSeq(stream, n + 1, Len(stream))
        /\ \/ header /\ (\E k \in 1 .. n : SubSeq(stream, 1, n)[k] = Blank) /\ WholeHeader(SubSeq(stream, 1, n))
           \/ header /\ (\A k \in 1 .. n : SubSeq(stream, 1, n)[k] # Blank) /\ PartOfHeader(SubSeq(stream, 1, n))
           \/ ~header /\ UNCHANGED <<header, len, result>> /\ Store(SubSeq(stream, 1, n))
  BY Zenon DEF Receive
<1>. DEFINE piece == SubSeq(stream, 1, n)
<1>3. CASE header
  <2>1. PICK p \in 0 .. 2 : Taken(p) /\ (p # 0 => trouble)
    BY <1>1, <1>3 DEF ReceivedSoFar
  <2>2. binbuf = <<>>
    BY <1>3 DEF ReceivedSoFar
  <2>3. /\ Len(stream) = reply.body + 3 - p /\ piece = Run(p - 3, n)
        /\ stream' = Run(p + n - 3, reply.body + 3 - (p + n))
    BY <1>1, <1>2, <2>1, TakenOn
  <2>4. n \in Nat /\ n >= 1 /\ p + n <= reply.body + 3
    BY <1>1, <2>3
  <2>. HIDE DEF piece
  <2>5. CASE (\E k \in 1 .. n : piece[k] = Blank) /\ WholeHeader(piece)
    <3>1. /\ p + n - 3 \in Nat /\ PastHeader(piece) = Run(0, p + n - 3)
          /\ Accepts(piece) =>
               /\ reply.status \div 100 = 2 \/ (p # 0 /\ reply.length \div 100 = 2)
               /\ PayloadLen(piece) # 0 => PayloadLen(piece) = reply.length
      BY <1>1, <2>3, <2>4, <2>5, HeaderInPiece
    <3>2. CASE pc' = "returned" /\ header' /\ binbuf' = binbuf
      BY <1>1, <2>2, <3>2, HeaderStays
    <3>3. CASE /\ Accepts(piece) /\ PayloadLen(piece) # 0 /\ len' = PayloadLen(piece) /\ header' = FALSE
               /\ Store(PastHeader(piece))
      <4>1. len' = reply.length /\ p + n - 3 \in 0 .. reply.body
        BY <1>1, <2>4, <3>1, <3>3
      <4>2. reply.status \div 100 = 2 \/ (trouble' /\ reply.length \div 100 = 2)
        BY <2>1, <3>1, <3>3 DEF Store
      <4>3. binbuf' = Run(0, p + n - 3)
        <5>1. Run(0, p + n - 3) \in Seq(Int)
          BY <3>1, RunType
        <5>2. <<>> \o Run(0, p + n - 3) = Run(0, p + n - 3)
          BY <5>1, ConcatEmptySeq
        <5>3. QED
          BY <2>2, <3>1, <3>3, <5>2 DEF Store
      <4>4. Len(binbuf') = p + n - 3
        <5>1. 0 \in Int
          OBVIOUS
        <5>2. Len(Run(0, p + n - 3)) = p + n - 3
          BY <3>1, <5>1, RunType, Zenon
        <5>3. QED
          BY <4>3, <5>2
      <4>5. pc' \in {"recv", "undefined"} /\ (pc' # "undefined" => p + n - 3 <= len')
        <5>1. pc' = IF Len(binbuf') > len' THEN "undefined" ELSE "recv"
          BY <3>3 DEF Store
        <5>2. reply.length \in Nat
          BY <1>1 DEF AnyReply
        <5>3. QED
          BY <3>1, <4>1, <4>4, <5>1, <5>2
      <4>6. Taken((p + n - 3) + 3)'
        BY <1>1, <2>3, <2>4 DEF Taken
      <4>7. QED
        BY <1>1, <3>3, <4>1, <4>2, <4>3, <4>5, <4>6 DEF ReceivedSoFar
    <3>4. QED
      <4>1. \/ pc' = "returned" /\ (header' <=> header) /\ binbuf' = binbuf
            \/ /\ Accepts(piece) /\ PayloadLen(piece) # 0 /\ len' = PayloadLen(piece) /\ header' = FALSE
               /\ Store(PastHeader(piece))
        BY <2>5, Zenon DEF WholeHeader, Return
      <4>2. QED
        BY <1>3, <3>2, <3>3, <4>1, Zenon
  <2>6. CASE (\A k \in 1 .. n : piece[k] # Blank) /\ PartOfHeader(piece)
    <3>1. header' /\ trouble'
      BY <1>3, <2>6, Zenon DEF PartOfHeader
    <3>2. binbuf' = <<>>
      BY <2>2, <2>6 DEF PartOfHeader
    <3>3. p + n \in 0 .. 2
      <4>1. \A k \in 1 .. n : piece[k] = p - 3 + k
        BY <2>3 DEF Run
      <4>2. 3 - p \in 1 .. n => piece[3 - p] = 0
        BY <4>1
      <4>3. QED
        BY <2>4, <2>6, <4>2 DEF Blank
    <3>4. Taken(p + n)'
      BY <1>1, <2>3 DEF Taken
    <3>5. pc' \in {"recv", "undefined", "returned"}
      BY <2>6 DEF PartOfHeader, Return
    <3>6. QED
      BY <1>1, <3>1, <3>2, <3>3, <3>4, <3>5 DEF ReceivedSoFar
  <2>7. QED
    BY <1>2, <1>3, <2>5, <2>6 DEF piece
<1>4. CASE ~header
  <2>1. PICK m \in 0 .. reply.body : binbuf = Run(0, m) /\ Taken(m + 3)
    BY <1>1, <1>4 DEF ReceivedSoFar
  <2>2. /\ len = reply.length
        /\ reply.status \div 100 = 2 \/ (trouble /\ reply.length \div 100 = 2)
    BY <1>4 DEF ReceivedSoFar
  <2>3. /\ Len(stream) = reply.body + 3 - (m + 3) /\ piece = Run((m + 3) - 3, n)
        /\ stream' = Run((m + 3) + n - 3, reply.body + 3 - ((m + 3) + n))
    <3>1. m + 3 \in Nat /\ m + 3 <= reply.body + 3
      BY <1>1
    <3>2. QED
      BY <1>1, <1>2, <2>1, <3>1, TakenOn, Zenon
  <2>4. /\ n \in Nat /\ m \in Nat /\ m + n \in 0 .. reply.body /\ (m + 3) - 3 = 0 + m
        /\ (m + 3) + n - 3 = (m + n) + 3 - 3 /\ reply.body + 3 - ((m + 3) + n) = reply.body + 3 - ((m + n) + 3)
    BY <1>1, <2>3
  <2>5. Store(piece) /\ ~header' /\ len' = len
    <3>1. Store(piece) /\ UNCHANGED <<header, len, result>>
      BY <1>2, <1>4
    <3>2. len' = len
      BY <3>1
    <3>3. ~header'
      BY <1>4, <3>1, Zenon
    <3>4. QED
      BY <3>1, <3>2, <3>3
  <2>. HIDE DEF piece
  <2>6. binbuf' = Run(0, m + n)
    <3>1. Run(0, m) \o Run(0 + m, n) = Run(0, m + n)
      BY <2>4, RunJoin, 0 \in Int, Zenon
    <3>2. binbuf' = binbuf \o piece
      BY <2>5 DEF Store
    <3>3. QED
      BY <2>1, <2>3, <2>4, <3>1, <3>2
  <2>7. pc' \in {"recv", "undefined"} /\ (pc' # "undefined" => m + n <= len')
    <3>1. pc' = IF Len(binbuf') > len' THEN "undefined" ELSE "recv"
      BY <2>5 DEF Store
    <3>2. Len(binbuf') = m + n /\ reply.length \in Nat
      BY <1>1, <2>4, <2>6, RunType DEF AnyReply
    <3>3. QED
      BY <2>2, <2>4, <2>5, <3>1, <3>2
  <2>8. Taken((m + n) + 3)'
    BY <1>1, <2>3, <2>4 DEF Taken
  <2>9. reply.status \div 100 = 2 \/ (trouble' /\ reply.length \div 100 = 2)
    BY <2>2, <2>5 DEF Store
  <2>10. QED
    BY <1>1, <2>2, <2>4, <2>5, <2>6, <2>7, <2>8, <2>9 DEF ReceivedSoFar
<1>5. QED
  BY <1>3, <1>4

LEMMA ReceivedInit == Init => ReceivedSoFar
  BY CloudAssumption DEF Init, ReceivedSoFar, AnyReply

LEMMA ReceivedStep == Fields /\ Flags /\ ReceivedSoFar /\ [Next]_vars => ReceivedSoFar'
<1>. SUFFICES ASSUME Fields, Flags, ReceivedSoFar, [Next]_vars
              PROVE  ReceivedSoFar'
  OBVIOUS
<1>1. /\ ReceivedSoFar /\ Flags /\ Flags' /\ reply \in AnyReply
      /\ pc \in {"nameservers", "mac", "resolve", "connect", "send"} => header
  BY FlagsStep DEF ReceivedSoFar
<1>2. CASE FillNs
  <2>1. UNCHANGED receiver /\ pc # "undefined" /\ pc' # "recv" /\ (trouble => trouble')
    BY <1>2, Zenon DEF FillNs, Return
  <2>2. pc' \in {"nameservers", "mac", "resolve", "connect", "send"} => header
    BY <1>2, <1>1 DEF FillNs, Return
  <2>3. QED
    BY <1>1, <2>1, <2>2, Quiet, Zenon
<1>3. CASE GetMac
  <2>1. UNCHANGED receiver /\ pc # "undefined" /\ pc' # "recv" /\ (trouble => trouble')
    <3>1. UNCHANGED receiver /\ pc # "undefined" /\ pc' # "recv"
      BY <1>3 DEF GetMac, Return
    <3>2. trouble => trouble'
      BY <1>3, Zenon DEF GetMac
    <3>3. QED
      BY <3>1, <3>2
  <2>2. pc' \in {"nameservers", "mac", "resolve", "connect", "send"} => header
    BY <1>3, <1>1 DEF GetMac, Return
  <2>3. QED
    BY <1>1, <2>1, <2>2, Quiet, Zenon
<1>4. CASE Answered
  <2>1. UNCHANGED receiver /\ pc # "undefined" /\ pc' # "recv" /\ (trouble => trouble')
    BY <1>4, Zenon DEF Answered, Return
  <2>2. pc' \in {"nameservers", "mac", "resolve", "connect", "send"} => header
    BY <1>4, <1>1 DEF Answered, Return
  <2>3. QED
    BY <1>1, <2>1, <2>2, Quiet, Zenon
<1>5. CASE Silence
  <2>1. UNCHANGED receiver /\ pc # "undefined" /\ pc' # "recv" /\ (trouble => trouble')
    BY <1>5, Zenon DEF Silence, Return
  <2>2. pc' \in {"nameservers", "mac", "resolve", "connect", "send"} => header
    BY <1>5, <1>1 DEF Silence, Return
  <2>3. QED
    BY <1>1, <2>1, <2>2, Quiet, Zenon
<1>6. CASE AllSilent
  <2>1. UNCHANGED receiver /\ pc # "undefined" /\ pc' # "recv" /\ (trouble => trouble')
    BY <1>6, Zenon DEF AllSilent, Return
  <2>2. pc' \in {"nameservers", "mac", "resolve", "connect", "send"} => header
    BY <1>6, <1>1 DEF AllSilent, Return
  <2>3. QED
    BY <1>1, <2>1, <2>2, Quiet, Zenon
<1>7. CASE Connected
  <2>1. UNCHANGED receiver /\ pc # "undefined" /\ pc' # "recv" /\ (trouble => trouble')
    BY <1>7, Zenon DEF Connected, Return
  <2>2. pc' \in {"nameservers", "mac", "resolve", "connect", "send"} => header
    BY <1>7, <1>1 DEF Connected, Return
  <2>3. QED
    BY <1>1, <2>1, <2>2, Quiet, Zenon
<1>8. CASE NotOne
  <2>1. UNCHANGED receiver /\ pc # "undefined" /\ pc' # "recv" /\ (trouble => trouble')
    BY <1>8, Zenon DEF NotOne, Return
  <2>2. pc' \in {"nameservers", "mac", "resolve", "connect", "send"} => header
    BY <1>8, <1>1 DEF NotOne, Return
  <2>3. QED
    BY <1>1, <2>1, <2>2, Quiet, Zenon
<1>9. CASE NoMoreAddresses
  <2>1. UNCHANGED receiver /\ pc # "undefined" /\ pc' # "recv" /\ (trouble => trouble')
    BY <1>9, Zenon DEF NoMoreAddresses, Return
  <2>2. pc' \in {"nameservers", "mac", "resolve", "connect", "send"} => header
    BY <1>9, <1>1 DEF NoMoreAddresses, Return
  <2>3. QED
    BY <1>1, <2>1, <2>2, Quiet, Zenon
<1>10. CASE Send
  <2>1. pc = "send"
    BY <1>10 DEF Send
  <2>2. header
    BY <1>1, <2>1
  <2>3. header' <=> header
    BY <1>10, Zenon DEF Send
  <2>4. reply' = reply /\ binbuf' = binbuf
    BY <1>10 DEF Send
  <2>5. reply' = reply /\ binbuf' = <<>>
    BY <2>2, <2>4 DEF ReceivedSoFar
  <2>6. CASE pc' = "recv" /\ stream' = Stream(reply)
    <3>1. stream' = Run(0 - 3, reply'.body + 3 - 0)
      <4>1. reply.body + 3 - 0 = reply.body + 3 /\ \A k \in 1 .. reply.body + 3 : k - 3 = (0 - 3) + k
        BY <1>1 DEF AnyReply
      <4>2. QED
        BY <2>5, <2>6, <4>1 DEF Stream, Run
    <3>2. Taken(0)'
      BY <3>1 DEF Taken
    <3>3. \E p \in 0 .. 2 : Taken(p)' /\ p = 0
      BY <3>2
    <3>4. QED
      BY <1>1, <2>2, <2>3, <2>5, <3>3 DEF ReceivedSoFar
  <2>7. CASE pc' # "recv"
    BY <1>1, <2>2, <2>3, <2>5, <2>7, HeaderStays
  <2>8. QED
    BY <1>10, <2>6, <2>7 DEF Send, Return
<1>11. CASE Receive
  BY <1>11, ReceiveStep
<1>12. CASE EndOfStream
  <2>1. UNCHANGED receiver /\ pc # "undefined" /\ pc' # "recv" /\ (trouble => trouble')
    BY <1>12, Zenon DEF EndOfStream, Return
  <2>2. pc' \in {"nameservers", "mac", "resolve", "connect", "send"} => header
    BY <1>12, <1>1 DEF EndOfStream, Return
  <2>3. QED
    BY <1>1, <2>1, <2>2, Quiet, Zenon
<1>13. CASE ReceiveFails
  <2>1. /\ pc = "recv" /\ reply' = reply /\ len' = len /\ binbuf' = binbuf /\ stream' = <<>>
        /\ pc' \in {"recv", "undefined", "returned"}
    BY <1>13, <1>1 DEF ReceiveFails, Return
  <2>2. (header' <=> header) /\ trouble'
    BY <1>13, Zenon DEF ReceiveFails
  <2>3. CASE header
    BY <1>1, <2>1, <2>2, <2>3 DEF ReceivedSoFar
  <2>4. CASE ~header
    <3>1. pc' = "undefined"
      BY <1>13, <2>4 DEF ReceiveFails
    <3>2. PICK n \in 0 .. reply.body : binbuf = Run(0, n)
      BY <2>4 DEF ReceivedSoFar
    <3>3. /\ len = reply.length
          /\ reply.status \div 100 = 2 \/ (trouble' /\ reply.length \div 100 = 2)
      BY <2>2, <2>4 DEF ReceivedSoFar
    <3>4. QED
      BY <1>1, <2>1, <2>2, <2>4, <3>1, <3>2, <3>3 DEF ReceivedSoFar
  <2>5. QED
    BY <2>3, <2>4
<1>14. CASE Open
  <2>1. UNCHANGED receiver /\ pc # "undefined" /\ pc' # "recv" /\ (trouble => trouble')
    <3>1. UNCHANGED receiver /\ pc # "undefined" /\ pc' # "recv"
      BY <1>14 DEF Open, Return
    <3>2. trouble => trouble'
      BY <1>14, Zenon DEF Open
    <3>3. QED
      BY <3>1, <3>2
  <2>2. pc' \in {"nameservers", "mac", "resolve", "connect", "send"} => header
    BY <1>14, <1>1 DEF Open, Return
  <2>3. QED
    BY <1>1, <2>1, <2>2, Quiet, Zenon
<1>15. CASE WriteLength
  <2>1. UNCHANGED receiver /\ pc # "undefined" /\ pc' # "recv" /\ (trouble => trouble')
    <3>1. UNCHANGED receiver /\ pc # "undefined" /\ pc' # "recv"
      BY <1>15 DEF WriteLength
    <3>2. trouble => trouble'
      BY <1>15, Zenon DEF WriteLength, Put
    <3>3. QED
      BY <3>1, <3>2
  <2>2. pc' \in {"nameservers", "mac", "resolve", "connect", "send"} => header
    BY <1>15, <1>1 DEF WriteLength, Return
  <2>3. QED
    BY <1>1, <2>1, <2>2, Quiet, Zenon
<1>16. CASE WriteBlock
  <2>1. UNCHANGED receiver /\ pc # "undefined" /\ pc' # "recv" /\ (trouble => trouble')
    <3>1. UNCHANGED receiver /\ pc # "undefined" /\ pc' # "recv"
      BY <1>16 DEF WriteBlock
    <3>2. trouble => trouble'
      BY <1>16, Zenon DEF WriteBlock, Put
    <3>3. QED
      BY <3>1, <3>2
  <2>2. pc' \in {"nameservers", "mac", "resolve", "connect", "send"} => header
    BY <1>16, <1>1 DEF WriteBlock, Return
  <2>3. QED
    BY <1>1, <2>1, <2>2, Quiet, Zenon
<1>17. CASE BrokenPipe
  <2>1. UNCHANGED receiver /\ pc # "undefined" /\ pc' # "recv" /\ (trouble => trouble')
    BY <1>17, Zenon DEF BrokenPipe, Return
  <2>2. pc' \in {"nameservers", "mac", "resolve", "connect", "send"} => header
    BY <1>17, <1>1 DEF BrokenPipe, Return
  <2>3. QED
    BY <1>1, <2>1, <2>2, Quiet, Zenon
<1>18. CASE Written
  <2>1. UNCHANGED receiver /\ pc # "undefined" /\ pc' # "recv" /\ (trouble => trouble')
    BY <1>18, Zenon DEF Written, Return
  <2>2. pc' \in {"nameservers", "mac", "resolve", "connect", "send"} => header
    BY <1>18, <1>1 DEF Written, Return
  <2>3. QED
    BY <1>1, <2>1, <2>2, Quiet, Zenon
<1>19. CASE DownloadBackup
  <2>1. UNCHANGED receiver /\ pc # "undefined" /\ pc' # "recv" /\ (trouble => trouble')
    BY <1>19, Zenon DEF DownloadBackup, Return
  <2>2. pc' \in {"nameservers", "mac", "resolve", "connect", "send"} => header
    BY <1>19, <1>1 DEF DownloadBackup, Return
  <2>3. QED
    BY <1>1, <2>1, <2>2, Quiet, Zenon
<1>20. CASE Exit
  <2>1. UNCHANGED receiver /\ pc # "undefined" /\ pc' # "recv" /\ (trouble => trouble')
    BY <1>20, Zenon DEF Exit, Return
  <2>2. pc' \in {"nameservers", "mac", "resolve", "connect", "send"} => header
    BY <1>20, <1>1 DEF Exit, Return
  <2>3. QED
    BY <1>1, <2>1, <2>2, Quiet, Zenon
<1>21. CASE UNCHANGED vars
  <2>1. /\ reply' = reply /\ len' = len /\ binbuf' = binbuf /\ stream' = stream /\ pc' = pc
    BY <1>21 DEF vars
  <2>2. (header' <=> header) /\ (trouble' <=> trouble)
    BY <1>21, Zenon DEF vars
  <2>3. \A p : Taken(p)' <=> Taken(p)
    BY <2>1 DEF Taken
  <2>4. QED
    BY <2>1, <2>2, <2>3 DEF ReceivedSoFar
<1>22. QED
  BY <1>2, <1>3, <1>4, <1>5, <1>6, <1>7, <1>8, <1>9, <1>10, <1>11,
     <1>12, <1>13, <1>14, <1>15, <1>16, <1>17, <1>18, <1>19, <1>20, <1>21 DEF Next, Program, Network

\* What MAKE_ERROR makes of a status of three digits is an error; so is what it
\* makes of an answer without a status.
LEMMA ThreeDigits ==
  ASSUME NEW code \in 100 .. 999
  PROVE  IsError(MakeError(code))
<1>. DEFINE h == code \div 100  d == code % 10
<1>1. h \in 1 .. 9 /\ d \in 0 .. 9
  OBVIOUS
<1>2. MakeError(code) = d - (h * 10)
  BY DEF MakeError
<1>. HIDE DEF h, d
<1>3. QED
  BY <1>1, <1>2 DEF IsError

\* What becomes of an answer that is not accepted.
LEMMA NotAccepted ==
  ASSUME NEW piece, reply \in AnyReply, ~Accepts(piece)
  PROVE  LET r == MakeError(RespCode(piece)) IN
         \/ r = 0 \/ IsError(r)
         \/ r = MakeError(reply.status) /\ reply.status \notin 100 .. 999
         \/ r = MakeError(reply.length) /\ reply.length \div 100 # 2
<1>1. reply.status \in Nat /\ reply.length \in Nat
  BY DEF AnyReply
<1>2. RespCode(piece) \in {reply.status, reply.length, -1}
  BY DEF RespCode
<1>3. CASE RespCode(piece) = -1
  BY <1>3 DEF MakeError, IsError
<1>4. CASE RespCode(piece) = reply.status
  BY <1>1, <1>4, ThreeDigits
<1>5. CASE RespCode(piece) = reply.length
  <2>1. CASE reply.length = 0
    BY <1>5, <2>1 DEF MakeError
  <2>2. CASE reply.length # 0
    BY <1>1, <1>5, <2>2 DEF Accepts
  <2>3. QED
    BY <2>1, <2>2
<1>6. QED
  BY <1>2, <1>3, <1>4, <1>5

\* A step that returns no pointer but 0 or an error.
LEMMA OtherReturn ==
  ASSUME HeaderRead, cmd' = cmd, reply' = reply, header' <=> header, pc' # "backup",
         pc' = "returned" /\ cmd = "download" => result' = 0 \/ IsError(result')
  PROVE  HeaderRead'
  BY DEF HeaderRead

LEMMA HeaderReadStep == HeaderRead /\ Fields /\ Control /\ reply \in AnyReply /\ [Next]_vars => HeaderRead'
<1>. SUFFICES ASSUME HeaderRead, Fields, Control, reply \in AnyReply, [Next]_vars
              PROVE  HeaderRead'
  OBVIOUS
<1>. USE DEF Return, Error, ERR_GENERAL, ERR_SEND, ERR_HTTP, ERR_MALLOC
<1>1. CASE FillNs
  <2>1. /\ cmd' = cmd /\ reply' = reply /\ pc' # "backup"
        /\ pc' = "returned" /\ cmd = "download" => result' = 0 \/ IsError(result')
    BY <1>1 DEF FillNs, receiver, IsError
  <2>2. header' <=> header
    BY <1>1, Zenon DEF FillNs, receiver
  <2>3. QED
    BY <2>1, <2>2, OtherReturn
<1>2. CASE GetMac
  <2>1. /\ cmd' = cmd /\ reply' = reply /\ pc' # "backup"
        /\ pc' = "returned" /\ cmd = "download" => result' = 0 \/ IsError(result')
    BY <1>2 DEF GetMac, receiver, IsError, Control
  <2>2. header' <=> header
    BY <1>2, Zenon DEF GetMac, receiver
  <2>3. QED
    BY <2>1, <2>2, OtherReturn
<1>3. CASE Answered
  <2>1. /\ cmd' = cmd /\ reply' = reply /\ pc' # "backup"
        /\ pc' = "returned" /\ cmd = "download" => result' = 0 \/ IsError(result')
    BY <1>3 DEF Answered, receiver, IsError
  <2>2. header' <=> header
    BY <1>3, Zenon DEF Answered, receiver
  <2>3. QED
    BY <2>1, <2>2, OtherReturn
<1>4. CASE Silence
  <2>1. /\ cmd' = cmd /\ reply' = reply /\ pc' # "backup"
        /\ pc' = "returned" /\ cmd = "download" => result' = 0 \/ IsError(result')
    BY <1>4 DEF Silence, receiver, IsError
  <2>2. header' <=> header
    BY <1>4, Zenon DEF Silence, receiver
  <2>3. QED
    BY <2>1, <2>2, OtherReturn
<1>5. CASE AllSilent
  <2>1. /\ cmd' = cmd /\ reply' = reply /\ pc' # "backup"
        /\ pc' = "returned" /\ cmd = "download" => result' = 0 \/ IsError(result')
    BY <1>5 DEF AllSilent, receiver, IsError
  <2>2. header' <=> header
    BY <1>5, Zenon DEF AllSilent, receiver
  <2>3. QED
    BY <2>1, <2>2, OtherReturn
<1>6. CASE Connected
  <2>1. /\ cmd' = cmd /\ reply' = reply /\ pc' # "backup"
        /\ pc' = "returned" /\ cmd = "download" => result' = 0 \/ IsError(result')
    BY <1>6 DEF Connected, receiver, IsError
  <2>2. header' <=> header
    BY <1>6, Zenon DEF Connected, receiver
  <2>3. QED
    BY <2>1, <2>2, OtherReturn
<1>7. CASE NotOne
  <2>1. /\ cmd' = cmd /\ reply' = reply /\ pc' # "backup"
        /\ pc' = "returned" /\ cmd = "download" => result' = 0 \/ IsError(result')
    BY <1>7 DEF NotOne, receiver, IsError
  <2>2. header' <=> header
    BY <1>7, Zenon DEF NotOne, receiver
  <2>3. QED
    BY <2>1, <2>2, OtherReturn
<1>8. CASE NoMoreAddresses
  <2>1. /\ cmd' = cmd /\ reply' = reply /\ pc' # "backup"
        /\ pc' = "returned" /\ cmd = "download" => result' = 0 \/ IsError(result')
    BY <1>8 DEF NoMoreAddresses, receiver, IsError
  <2>2. header' <=> header
    BY <1>8, Zenon DEF NoMoreAddresses, receiver
  <2>3. QED
    BY <2>1, <2>2, OtherReturn
<1>9. CASE Send
  <2>1. /\ cmd' = cmd /\ reply' = reply /\ pc' # "backup"
        /\ pc' = "returned" /\ cmd = "download" => result' = 0 \/ IsError(result')
    BY <1>9 DEF Send, receiver, IsError
  <2>2. header' <=> header
    BY <1>9, Zenon DEF Send, receiver
  <2>3. QED
    BY <2>1, <2>2, OtherReturn
<1>10. CASE Receive
  <2>1. PICK piece : \/ WholeHeader(piece) \/ PartOfHeader(piece)
                    \/ pc' \in {"recv", "undefined"}
    BY <1>10 DEF Receive, Store
  <2>2. cmd = "download" /\ cmd' = cmd /\ reply' = reply
    BY <1>10 DEF Receive, Control
  <2>3. CASE pc' \notin {"returned", "backup"}
    BY <2>3 DEF HeaderRead
  <2>4. CASE pc' = "returned"
    <3>1. \/ ~Accepts(piece) /\ result' = MakeError(RespCode(piece))
          \/ result' \in {-ERR_HTTP, -ERR_MALLOC}
      BY <2>1, <2>2, <2>4 DEF WholeHeader, PartOfHeader, Store
    <3>2. CASE ~Accepts(piece) /\ result' = MakeError(RespCode(piece))
      <4>1. \/ result' = 0 \/ IsError(result')
            \/ result' = MakeError(reply.status) /\ reply.status \notin 100 .. 999
            \/ result' = MakeError(reply.length) /\ reply.length \div 100 # 2
        BY <3>2, NotAccepted
      <4>2. result' = 0 \/ IsError(result') \/ TakenForPointer'
        BY <2>2, <4>1 DEF TakenForPointer
      <4>3. QED
        BY <2>4, <4>2 DEF HeaderRead
    <3>3. CASE result' \in {-ERR_HTTP, -ERR_MALLOC}
      BY <2>4, <3>3 DEF HeaderRead, IsError
    <3>4. QED
      BY <3>1, <3>2, <3>3
  <2>5. CASE pc' = "backup"
    BY <2>1, <2>5 DEF WholeHeader, PartOfHeader, Store
  <2>6. QED
    BY <2>3, <2>4, <2>5
<1>11. CASE EndOfStream
  <2>1. /\ cmd' = cmd /\ reply' = reply /\ pc' # "backup"
        /\ pc' = "returned" /\ cmd = "download" => result' = 0 \/ IsError(result')
    BY <1>11 DEF EndOfStream, receiver, IsError
  <2>2. header' <=> header
    BY <1>11, Zenon DEF EndOfStream, receiver
  <2>3. QED
    BY <2>1, <2>2, OtherReturn
<1>12. CASE ReceiveFails
  <2>1. cmd' = cmd /\ reply' = reply /\ pc' # "backup" /\ (pc' = "returned" => result' = MakeError(-1))
    BY <1>12 DEF ReceiveFails
  <2>2. header' <=> header
    BY <1>12, Zenon DEF ReceiveFails, receiver
  <2>3. IsError(MakeError(-1))
    BY DEF MakeError, IsError
  <2>4. QED
    BY <2>1, <2>2, <2>3, OtherReturn
<1>13. CASE Open
  <2>1. /\ cmd' = cmd /\ reply' = reply /\ pc' # "backup"
        /\ pc' = "returned" /\ cmd = "download" => result' = 0 \/ IsError(result')
    BY <1>13 DEF Open, receiver, IsError, Control
  <2>2. header' <=> header
    BY <1>13, Zenon DEF Open, receiver
  <2>3. QED
    BY <2>1, <2>2, OtherReturn
<1>14. CASE WriteLength
  <2>1. /\ cmd' = cmd /\ reply' = reply /\ pc' # "backup"
        /\ pc' = "returned" /\ cmd = "download" => result' = 0 \/ IsError(result')
    BY <1>14 DEF WriteLength, receiver, IsError
  <2>2. header' <=> header
    BY <1>14, Zenon DEF WriteLength, receiver
  <2>3. QED
    BY <2>1, <2>2, OtherReturn
<1>15. CASE WriteBlock
  <2>1. /\ cmd' = cmd /\ reply' = reply /\ pc' # "backup"
        /\ pc' = "returned" /\ cmd = "download" => result' = 0 \/ IsError(result')
    BY <1>15 DEF WriteBlock, receiver, IsError
  <2>2. header' <=> header
    BY <1>15, Zenon DEF WriteBlock, receiver
  <2>3. QED
    BY <2>1, <2>2, OtherReturn
<1>16. CASE BrokenPipe
  <2>1. /\ cmd' = cmd /\ reply' = reply /\ pc' # "backup"
        /\ pc' = "returned" /\ cmd = "download" => result' = 0 \/ IsError(result')
    BY <1>16 DEF BrokenPipe, receiver, IsError
  <2>2. header' <=> header
    BY <1>16, Zenon DEF BrokenPipe, receiver
  <2>3. QED
    BY <2>1, <2>2, OtherReturn
<1>17. CASE Written
  <2>1. /\ cmd' = cmd /\ reply' = reply /\ pc' # "backup"
        /\ pc' = "returned" /\ cmd = "download" => result' = 0 \/ IsError(result')
    BY <1>17 DEF Written, receiver, IsError, Control
  <2>2. header' <=> header
    BY <1>17, Zenon DEF Written, receiver
  <2>3. QED
    BY <2>1, <2>2, OtherReturn
<1>18. CASE DownloadBackup
  <2>1. /\ pc = "returned" /\ cmd = "download" /\ result' = result /\ reply' = reply
        /\ pc' \in {"backup", "no_backup"}
        /\ pc' = "backup" => ~IsError(result) /\ ~(result = 0 /\ header)
    BY <1>18, Zenon DEF DownloadBackup, receiver
  <2>2. header' <=> header
    BY <1>18, Zenon DEF DownloadBackup, receiver
  <2>3. pc' = "backup" /\ header' => TakenForPointer
    BY <2>1, <2>2, Zenon DEF HeaderRead
  <2>4. TakenForPointer' <=> TakenForPointer
    BY <2>1 DEF TakenForPointer
  <2>5. pc' # "returned"
    BY <2>1
  <2>6. QED
    BY <2>3, <2>4, <2>5 DEF HeaderRead
<1>19. CASE Exit
  <2>1. /\ cmd' = cmd /\ reply' = reply /\ pc' # "backup"
        /\ pc' = "returned" /\ cmd = "download" => result' = 0 \/ IsError(result')
    BY <1>19 DEF Exit, receiver, IsError
  <2>2. header' <=> header
    BY <1>19, Zenon DEF Exit, receiver
  <2>3. QED
    BY <2>1, <2>2, OtherReturn
<1>20. CASE UNCHANGED vars
  <2>1. pc' = pc /\ cmd' = cmd /\ reply' = reply /\ result' = result
    BY <1>20 DEF vars
  <2>2. header' <=> header
    BY <1>20, Zenon DEF vars
  <2>3. QED
    BY <2>1, <2>2 DEF HeaderRead, TakenForPointer
<1>21. QED
  BY <1>1, <1>2, <1>3, <1>4, <1>5, <1>6, <1>7, <1>8, <1>9, <1>10,
     <1>11, <1>12, <1>13, <1>14, <1>15, <1>16, <1>17, <1>18, <1>19, <1>20 DEF Next, Program, Network

-----------------------------------------------------------------------------
(* The inductive invariant, and what follows from it. *)

LEMMA TypeSplit == TypeOK => Flags /\ Fields
  BY DEF TypeOK, Flags, Fields

LEMMA InitIInv == Init => IInv
<1>. SUFFICES ASSUME Init
              PROVE  IInv
  OBVIOUS
<1>1. Fields
  BY CloudAssumption DEF Init, Fields
<1>2. Flags
  BY DEF Init, Flags
<1>3. HeaderRead
  BY DEF Init, HeaderRead
<1>4. QED
  BY <1>1, <1>2, <1>3, TypeParts, ControlInit, WrittenInit, ReceivedInit DEF IInv

LEMMA NextIInv == IInv /\ [Next]_vars => IInv'
<1>. SUFFICES ASSUME IInv, [Next]_vars
              PROVE  IInv'
  OBVIOUS
<1>1. Flags /\ Fields /\ Control /\ WrittenSoFar /\ ReceivedSoFar /\ HeaderRead /\ reply \in AnyReply
  BY TypeSplit DEF IInv, ReceivedSoFar
<1>2. Flags' /\ Fields'
  BY <1>1, FlagsStep, FieldsStep
<1>3. TypeOK'
  BY <1>2 DEF TypeOK, Flags, Fields
<1>4. Control' /\ WrittenSoFar' /\ ReceivedSoFar' /\ HeaderRead'
  BY <1>1, ControlStep, WrittenStep, ReceivedStep, HeaderReadStep
<1>5. QED
  BY <1>3, <1>4 DEF IInv

THEOREM AlwaysIInv == Spec => []IInv
  BY InitIInv, NextIInv, PTL DEF Spec

\* src/http.c, src/dns.c, src/backup.c: no more name servers or addresses are
\* counted than their arrays hold.  Whatever writes fail or fall short, and whatever is
\* written after them, what the server or the file has taken is in the order of the
\* backup; it is a head of it until then, and all of it at the end; and an upload
\* leaves no block out that a later one follows.
THEOREM SoundHolds == Spec => []Sound
<1>1. IInv => Sound
  BY DEF IInv, WrittenSoFar, Sound
<1>2. QED
  BY <1>1, AlwaysIInv, PTL

\* download: a buffer that is handed on holds the head of the body, in order and
\* without a gap, of an answer that says 2xx where its status was looked for, and
\* is as long as that answer announced.  All else that is handed on is a code of
\* other than three digits that MAKE_ERROR made no error of.
THEOREM DataIsReplyHolds == Spec => []DataIsReply
<1>1. IInv => DataIsReply
  <2>. SUFFICES ASSUME IInv, pc = "backup", ~header
                PROVE  /\ reply.status \div 100 = 2 \/ (trouble /\ reply.length \div 100 = 2)
                       /\ len = reply.length
                       /\ Len(binbuf) <= len
                       /\ binbuf = [k \in 1 .. Len(binbuf) |-> k]
    BY DEF DataIsReply, IInv, HeaderRead
  <2>1. ReceivedSoFar
    BY DEF IInv
  <2>2. PICK n \in 0 .. reply.body : binbuf = Run(0, n) /\ n <= len
    BY <2>1 DEF ReceivedSoFar
  <2>3. /\ reply.status \div 100 = 2 \/ (trouble /\ reply.length \div 100 = 2)
        /\ len = reply.length
    BY <2>1 DEF ReceivedSoFar
  <2>4. Len(binbuf) = n
    <3>1. n \in Nat /\ 0 \in Int
      BY <2>2
    <3>2. QED
      BY <2>2, <3>1, RunType, Zenon
  <2>5. binbuf = [k \in 1 .. n |-> k]
    BY <2>2 DEF Run
  <2>6. QED
    BY <2>2, <2>3, <2>4, <2>5
<1>2. QED
  BY <1>1, AlwaysIInv, PTL

=============================================================================
