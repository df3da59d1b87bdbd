--------------------------------- MODULE Cloud ---------------------------------
(***************************************************************************)
(* src/http.c and src/dns.c with the commands that use them: `upload`,     *)
(* `backup <file>`, which frames its blocks alike, and the download with   *)
(* which `restore` begins when no file is named.  One action per system    *)
(* call that can turn out in more than one way.                            *)
(***************************************************************************)
EXTENDS Integers, Sequences, FiniteSets

CONSTANTS
  Confs,         \* contents of /etc/resolv.conf: a server, or another word, per line
  Servers,       \* name servers those may list
  Predefined,    \* how many name servers are built in
  Answers,       \* what a name server may answer: error, and the types of its records
  Replies,       \* what the HTTP server may answer: status, length, body
  NBlocks,       \* blocks of a backup, its description included
  MAX_NSERVERS, MAX_ARECORDS

ASSUME CloudAssumption ==
  /\ NBlocks \in Nat \ {0} /\ Predefined \in Nat /\ MAX_NSERVERS \in Nat /\ MAX_ARECORDS \in Nat
  /\ \A conf \in Confs : conf \in Seq(STRING)
  /\ \A a \in Answers : a.types \in Seq(STRING)
  /\ Replies \subseteq [status : Nat, length : Nat, body : Nat]

VARIABLES
  cmd,       \* "upload", "file" or "download"
  pc,        \* the next call, or how the command ended
  ns,        \* how many name servers may be asked
  i,         \* index into the servers, the addresses or the blocks
  srv,       \* how many addresses the name has
  sock,      \* what became of the TCP socket
  reply,     \* what the server answers
  stream,    \* what it has left to send
  fresh,     \* recv has written nothing into buf yet, which holds the request
  header,    \* the header is still looked for
  len,       \* the length announced
  binbuf,    \* what was copied
  sent,      \* what the socket, or the file, has taken: <<kind, block, how much>>
  result,    \* what download or upload returned; the pointer, if not to the copy
  short,     \* observed: a write of the backup failed or fell short
  trouble    \* observed: that, or another call failed or timed out, or an answer was no good

vars == <<cmd, pc, ns, i, srv, sock, reply, stream, fresh, header, len, binbuf,
          sent, result, short, trouble>>
resolver  == <<ns, srv>>
receiver  == <<reply, stream, fresh, header, len, binbuf>>
writer    == <<sent, short>>

-----------------------------------------------------------------------------
ERR_GENERAL == 1
ERR_SEND    == 5
ERR_HTTP    == 6
ERR_MALLOC  == 7

\* download returns an error negated, as a pointer, and upload as it is.
Error(err) == IF cmd = "download" THEN -err ELSE err

\* MAKE_ERROR of the sum of a code's tens and its last digit: the macro negates the
\* first term alone, and C divides towards 0, so that -1 stays what it is.
MakeError(rcode) == IF rcode < 0 THEN rcode ELSE (rcode % 10) - ((rcode \div 100) * 10)

\* HTTP_ERR: the pointers that download_backup takes for errors.
IsError(pointer) == pointer < 0 /\ pointer > -100

AtMost(n, max) == IF n < max THEN n ELSE max

\* parse_resolv_conf: up to a server 0.0.0.0 or the capacity.  One server too
\* many is read into the count that follows the array, which is set afterwards.
ParseResolvConf(conf) ==
  AtMost(Cardinality({n \in DOMAIN conf :
                        conf[n] \in Servers /\ \A k \in 1 .. n : conf[k] # "zero"}),
         MAX_NSERVERS)

\* add_predefined_ns: as long as there is room.
AddPredefined(listed) == AtMost(listed + Predefined, MAX_NSERVERS)

\* parse_dns_resp: how many A records are kept.
ARecords(answer) ==
  AtMost(Cardinality({n \in DOMAIN answer.types : answer.types[n] = "A"}), MAX_ARECORDS)

\* The backup as restore reads it: each block but the first, which is the
\* description, after its length.
Frame == [k \in 1 .. 2 * NBlocks - 1 |->
           IF k % 2 = 0 THEN <<"len", k \div 2, "whole">> ELSE <<"data", (k - 1) \div 2, "whole">>]

\* Where a unit, or a part of it, stands in it.
Position(unit) == IF unit[1] = "len" THEN 2 * unit[2] ELSE 2 * unit[2] + 1

\* What the server sends: the header in three parts, and the units of the body.
\* Each recv may return any number of them.
Status == -2
Length == -1
Blank  == 0
Stream(r) == [k \in 1 .. r.body + 3 |-> k - 3]

-----------------------------------------------------------------------------
Init ==
  /\ cmd \in {"upload", "file", "download"}
  /\ pc = "nameservers" /\ ns = 0 /\ i = 0 /\ srv = 0 /\ sock = "none"
  /\ reply \in Replies /\ stream = <<>> /\ fresh = TRUE /\ header = TRUE
  /\ len = 0 /\ binbuf = <<>> /\ result = 0
  /\ sent = <<>> /\ short = FALSE /\ trouble = FALSE

Return(r) == pc' = "returned" /\ result' = r

\* FILL_NS, at the head of do_backup and download_backup.
FillNs ==
  /\ pc = "nameservers"
  /\ \E conf \in Confs : ns' = AddPredefined(ParseResolvConf(conf))
  /\ pc' = IF cmd = "download" THEN "resolve" ELSE "mac"
  /\ UNCHANGED <<cmd, i, srv, sock, receiver, writer, result, trouble>>

\* do_backup: get_mac_address.
GetMac ==
  /\ pc = "mac"
  /\ \/ /\ pc' = IF cmd = "file" THEN "open" ELSE "resolve"
        /\ UNCHANGED <<result, trouble>>
     \/ Return(10) /\ trouble' = TRUE
  /\ UNCHANGED <<cmd, resolver, i, sock, receiver, writer>>

\* resolv_name: the next server answers, or one asked before it does so late;
\* the datagrams of all of them arrive at one socket.
Answered ==
  /\ pc = "resolve" /\ i < ns
  /\ \E a \in Answers :
       IF a.error THEN /\ Return(Error(ERR_GENERAL)) /\ trouble' = TRUE
                       /\ UNCHANGED <<srv, i>>
       ELSE /\ srv' = ARecords(a) /\ i' = 0 /\ pc' = "connect"
            /\ trouble' = (trouble \/ ARecords(a) = 0)
            /\ UNCHANGED result
  /\ sock' = IF pc' = "connect" THEN "new" ELSE sock
  /\ UNCHANGED <<cmd, ns, receiver, writer>>

Silence ==
  /\ pc = "resolve" /\ i < ns
  /\ i' = i + 1 /\ trouble' = TRUE
  /\ UNCHANGED <<cmd, pc, resolver, sock, receiver, writer, result>>

\* No server answered: the zeroed response parses as one without records.
AllSilent ==
  /\ pc = "resolve" /\ i = ns
  /\ srv' = 0 /\ i' = 0 /\ pc' = "connect" /\ sock' = "new"
  /\ UNCHANGED <<cmd, ns, receiver, writer, result, trouble>>

-----------------------------------------------------------------------------
\* common_connect: connect_with_timeout answers 1 once poll has seen the
\* connection made; the socket is closed and the next address tried.
Connected ==
  /\ pc = "connect" /\ i < srv
  /\ i' = i + 1 /\ sock' = "used"
  /\ UNCHANGED <<cmd, pc, resolver, receiver, writer, result, trouble>>

\* Anything else ends the loop with this socket: the connection was refused, is
\* still pending after CONNECT_TIMEOUT, or was made without waiting for it.
NotOne ==
  /\ pc = "connect" /\ i < srv
  /\ \E s \in {"failed", "pending", "connected"} :
       sock' = s /\ trouble' = (trouble \/ s # "connected")
  /\ pc' = "send"
  /\ UNCHANGED <<cmd, resolver, i, receiver, writer, result>>

\* The addresses are used up: ERR_CONNECT if there were any.  Both callers
\* assign the comparison with ERR_GENERAL, not the error.
NoMoreAddresses ==
  /\ pc = "connect" /\ i = srv
  /\ IF sock = "new" THEN pc' = "send" /\ UNCHANGED result ELSE Return(Error(ERR_GENERAL))
  /\ UNCHANGED <<cmd, resolver, i, sock, receiver, writer, trouble>>

\* send on a socket that is not connected raises SIGPIPE, which nobody handles;
\* on one whose connection is pending it waits for that.
Send ==
  /\ pc = "send"
  /\ \/ /\ sock \in {"pending", "connected"}
        /\ pc' = IF cmd = "upload" THEN "write" ELSE "recv"
        /\ sock' = "connected" /\ i' = 0 /\ stream' = Stream(reply)
        /\ UNCHANGED <<result, trouble>>
     \/ /\ sock \in {"pending", "connected"}
        /\ Return(Error(ERR_SEND)) /\ trouble' = TRUE
        /\ UNCHANGED <<sock, i, stream>>
     \/ /\ sock \in {"new", "failed"}
        /\ pc' = "killed" /\ trouble' = TRUE
        /\ UNCHANGED <<sock, i, stream, result>>
  /\ UNCHANGED <<cmd, resolver, reply, fresh, header, len, binbuf, writer>>

-----------------------------------------------------------------------------
\* get_http_respcode at the head of buf: what stands there need not be the
\* status line.
RespCode(piece) ==
  CASE piece[1] = Status -> reply.status
    [] piece[1] = Length -> reply.length
    [] OTHER -> -1

PayloadLen(piece) == IF \E k \in DOMAIN piece : piece[k] = Length THEN reply.length ELSE 0

\* Mutant of Accepts: any answer will do.
AcceptsAny(piece) == RespCode(piece) > 0

Accepts(piece) == RespCode(piece) > 0 /\ RespCode(piece) \div 100 = 2

\* What follows the header in this piece.
PastHeader(piece) ==
  LET blank == CHOOSE k \in DOMAIN piece : piece[k] = Blank
  IN SubSeq(piece, blank + 1, Len(piece))

\* The part of the loop that follows the header: memcpy, however long it is.
Store(body) ==
  /\ binbuf' = binbuf \o body
  /\ pc' = IF Len(binbuf') > len' THEN "undefined" ELSE "recv"
  /\ trouble' = (trouble \/ pc' = "undefined")

\* download: the header ends within this piece.
WholeHeader(piece) ==
  IF ~Accepts(piece)
  THEN /\ Return(MakeError(RespCode(piece))) /\ trouble' = TRUE
       /\ UNCHANGED <<header, len, binbuf>>
  ELSE IF PayloadLen(piece) = 0
  THEN Return(Error(ERR_HTTP)) /\ trouble' = TRUE /\ len' = 0 /\ UNCHANGED <<header, binbuf>>
  ELSE \/ /\ len' = PayloadLen(piece) /\ header' = FALSE
          /\ Store(PastHeader(piece))
          /\ UNCHANGED result
       \/ /\ Return(Error(ERR_MALLOC)) /\ trouble' = TRUE
          /\ len' = PayloadLen(piece) /\ UNCHANGED <<header, binbuf>>

\* It does not: the loop goes on, and the next recv overwrites this piece,
\* unless the piece is short and the blank line of the request shows behind it.
PartOfHeader(piece) ==
  /\ trouble' = TRUE
  /\ \/ pc' = "recv" /\ UNCHANGED <<header, len, binbuf, result>>
     \/ /\ fresh /\ Accepts(piece) /\ PayloadLen(piece) > 0
        /\ pc' = "undefined"              \* a negative nrecvd
        /\ UNCHANGED <<header, len, binbuf, result>>
     \/ /\ fresh /\ ~(Accepts(piece) /\ PayloadLen(piece) > 0)
        /\ Return(IF Accepts(piece) THEN Error(ERR_HTTP) ELSE MakeError(RespCode(piece)))
        /\ UNCHANGED <<header, len, binbuf>>

\* recv returns some bytes.
Receive ==
  /\ pc = "recv" /\ stream # <<>>
  /\ \E n \in 1 .. Len(stream) :
       LET piece == SubSeq(stream, 1, n) IN
       /\ stream' = SubSeq(stream, n + 1, Len(stream))
       /\ \/ header /\ (\E k \in 1 .. n : piece[k] = Blank) /\ WholeHeader(piece)
          \/ header /\ (\A k \in 1 .. n : piece[k] # Blank) /\ PartOfHeader(piece)
          \/ ~header /\ UNCHANGED <<header, len, result>> /\ Store(piece)
  /\ fresh' = FALSE
  /\ UNCHANGED <<cmd, resolver, i, sock, reply, writer>>

\* Mutant of EndOfStream: as long as the header is missing the loop goes on.
EndOfStreamWaits ==
  /\ pc = "recv"
  /\ IF header THEN UNCHANGED <<pc, result>> ELSE Return(0)
  /\ trouble' = (trouble \/ stream # <<>>)
  /\ UNCHANGED <<cmd, resolver, i, sock, receiver, writer>>

\* recv returns 0: the server has sent all, or closed early.
EndOfStream ==
  /\ pc = "recv"
  /\ Return(0)
  /\ trouble' = (trouble \/ stream # <<>>)
  /\ UNCHANGED <<cmd, resolver, i, sock, receiver, writer>>

\* recv returns -1, which the loop takes for a length.
ReceiveFails ==
  /\ pc = "recv" /\ trouble' = TRUE
  /\ IF ~header THEN pc' = "undefined" /\ UNCHANGED result
     ELSE IF fresh THEN Return(MakeError(-1))   \* the request has no status
     ELSE UNCHANGED <<pc, result>>
  /\ stream' = <<>>
  /\ UNCHANGED <<cmd, resolver, i, sock, reply, fresh, header, len, binbuf, writer>>

-----------------------------------------------------------------------------
\* save_file: fopen.
Open ==
  /\ pc = "open"
  /\ \/ pc' = "write" /\ i' = 0 /\ UNCHANGED <<result, trouble>>
     \/ Return(1) /\ trouble' = TRUE /\ UNCHANGED i
  /\ UNCHANGED <<cmd, resolver, sock, receiver, writer>>

\* upload, save_file: a write is taken whole, in part or not at all, whatever
\* became of those before it.
Outcomes == {"whole", "part", "nothing"}

Put(kind, how) ==
  /\ sent' = IF how = "nothing" THEN sent ELSE Append(sent, <<kind, i, how>>)
  /\ short' = (short \/ how # "whole") /\ trouble' = (trouble \/ how # "whole")

\* What became of the length is not looked at.
WriteLength ==
  /\ pc = "write" /\ i > 0 /\ i < NBlocks
  /\ \E how \in Outcomes : Put("len", how)
  /\ pc' = "block"
  /\ UNCHANGED <<cmd, resolver, i, sock, receiver, result>>

\* Mutant of AfterBlock: the answer -1 does not end the loop.
AfterBlockGoOn(how) == i + 1

\* A socket that takes nothing answers -1, which ends the loop; fwrite reports
\* how much it has taken, never -1.
AfterBlock(how) == IF cmd = "upload" /\ how = "nothing" THEN NBlocks ELSE i + 1

WriteBlock ==
  /\ pc = "block" \/ (pc = "write" /\ i = 0)
  /\ \E how \in Outcomes : Put("data", how) /\ i' = AfterBlock(how)
  /\ pc' = "write"
  /\ UNCHANGED <<cmd, resolver, sock, receiver, result>>

\* The connection is found broken: SIGPIPE, which nobody handles.
BrokenPipe ==
  /\ cmd = "upload" /\ i < NBlocks /\ pc \in {"write", "block"}
  /\ pc' = "killed" /\ trouble' = TRUE
  /\ UNCHANGED <<cmd, resolver, i, sock, receiver, writer, result>>

Written ==
  /\ pc = "write" /\ i = NBlocks
  /\ Return(0)
  /\ UNCHANGED <<cmd, resolver, i, sock, receiver, writer, trouble>>

\* download_backup: an error becomes NULL, all else is the backup.
DownloadBackup ==
  /\ pc = "returned" /\ cmd = "download"
  /\ pc' = IF IsError(result) \/ (result = 0 /\ header) THEN "no_backup" ELSE "backup"
  /\ UNCHANGED <<cmd, resolver, i, sock, receiver, writer, result, trouble>>

\* backup_with_yaml has no return statement: the exit status is whatever it is.
Exit ==
  /\ pc = "returned" /\ cmd # "download"
  /\ pc' = "exited"
  /\ UNCHANGED <<cmd, resolver, i, sock, receiver, writer, result, trouble>>

-----------------------------------------------------------------------------
Program ==
  \/ FillNs \/ GetMac \/ AllSilent \/ NoMoreAddresses \/ Send
  \/ Open \/ WriteLength \/ WriteBlock \/ Written \/ DownloadBackup \/ Exit
Network ==
  \/ Answered \/ Silence \/ Connected \/ NotOne
  \/ Receive \/ EndOfStream \/ ReceiveFails \/ BrokenPipe
Next == Program \/ Network

Spec == Init /\ [][Next]_vars

\* Name servers and connect have time-outs; recv has none, so that the server
\* must send or close.
FairSpec == Spec /\ WF_vars(Program) /\ WF_vars(Network)

-----------------------------------------------------------------------------
Ended == pc \in {"killed", "undefined", "no_backup", "backup", "exited"}

\* Types; no more name servers or addresses are counted than their arrays hold.
TypeOK ==
  /\ cmd \in {"upload", "file", "download"}
  /\ pc \in {"nameservers", "mac", "resolve", "connect", "send", "recv", "open",
             "write", "block", "returned"} \cup {"killed", "undefined", "no_backup", "backup", "exited"}
  /\ ns \in 0 .. MAX_NSERVERS /\ srv \in 0 .. MAX_ARECORDS
  /\ sock \in {"none", "new", "used", "failed", "pending", "connected"}
  /\ header \in BOOLEAN /\ fresh \in BOOLEAN /\ short \in BOOLEAN /\ trouble \in BOOLEAN
  /\ len \in Nat /\ result \in Int

\* The code that stood where the status is looked for: the status, or, when the
\* header came in pieces, the length; and the sum MAKE_ERROR makes of it is no
\* error: of 1 to 99 a small positive pointer, of 1000 and more one below -99.
TakenForPointer ==
  /\ result # 0 /\ ~IsError(result)
  /\ \/ result = MakeError(reply.status) /\ reply.status \notin 100 .. 999
     \/ result = MakeError(reply.length) /\ reply.length \div 100 # 2

\* download: whatever pieces the answer arrives in, and wherever it ends, a buffer
\* that is handed on holds the head of the body of a 2xx answer, in order and
\* without a gap, and is as long as that answer announced.  When the header came
\* in pieces, a length may have been taken for the status.  The one other thing
\* that is handed on is a code of other than three digits that became a pointer.
DataIsReply ==
  pc = "backup" =>
    IF header THEN TakenForPointer
    ELSE /\ reply.status \div 100 = 2 \/ (trouble /\ reply.length \div 100 = 2)
         /\ len = reply.length
         /\ Len(binbuf) <= len
         /\ binbuf = [k \in 1 .. Len(binbuf) |-> k]

\* upload, save_file: what is taken is in the order of the backup and nothing is
\* taken twice, also after writes that failed.
InOrder == \A a, b \in DOMAIN sent : a < b => Position(sent[a]) < Position(sent[b])

\* Until a write fails or falls short it is a head of the backup, and all of it at the
\* end.  After one, lengths no longer stand where a restore looks for them.
WholeUntilShort ==
  ~short => /\ Len(sent) <= Len(Frame) /\ sent = SubSeq(Frame, 1, Len(sent))
            /\ pc \in {"returned", "exited"} /\ cmd # "download" /\ result = 0 => sent = Frame

\* upload: a block is never left out with later ones sent after it, though a
\* length, or the end of a block, may be.
NoBlockLeftOut ==
  cmd = "upload" =>
    \A a \in DOMAIN sent : \A n \in 0 .. sent[a][2] - 1 :
      \E b \in DOMAIN sent : sent[b][1] = "data" /\ sent[b][2] = n

\* Every command ends, also when a name server is silent, a connection hangs or
\* fails, an answer stops in the middle, or the disk is full.
Ends == <>Ended

\* `upload` sends the whole backup to the cloud when nothing goes wrong.
Uploaded ==
  Ended /\ cmd = "upload" /\ ~trouble => sent = Frame

\* What is kept while a command runs, whatever fails: types, counts within their
\* arrays, and what has been taken at the other end.
Sound == TypeOK /\ InOrder /\ WholeUntilShort /\ NoBlockLeftOut
=============================================================================
