------------------------------ MODULE Download ------------------------------
(***************************************************************************)
(* The HTTPS download client (client.cpp), with the growing buffer         *)
(* (data_store.cpp) in which it looks for lines and chunks: request,       *)
(* headers, redirection, and a body that is chunked or runs to the end of  *)
(* the connection.  A server sends the bytes of a response in reads of any *)
(* size and may end at any point.                                          *)
(*                                                                         *)
(* A byte is a token [k, v, body]: "cr" and "lf"; a chunk size "size" and  *)
(* a header line ("length", "location", "other") with their value; "data". *)
(* Bytes of the body are marked, and may be "cr" or "lf" too.              *)
(***************************************************************************)
EXTENDS Integers, Sequences

CONSTANTS
  Site,    \* what each URL answers: a sequence of tokens
  Urls,    \* the URLs that may be downloaded
  Cuts     \* how many bytes one read may deliver

VARIABLES
  url,      \* what this call of download_file fetches
  pc,       \* where it is
  data,     \* the data store
  headers,  \* the header lines read
  chunk,    \* chunk_size and looking_for_chunk_header
  file,     \* what was written to the file
  result,   \* what download_file returned
  got,      \* bytes received
  ended,    \* how the connection ended
  slow      \* every read delivered one byte

DownloadVars == <<url, pc, data, headers, chunk, file, result, got, ended, slow>>

NoChunk == [size |-> 0, looking |-> TRUE]

CrLfAt(s) == {i \in 1 .. Len(s) - 1 : s[i].k = "cr" /\ s[i + 1].k = "lf"}

(* What a server answers: lines up to a blank one at e; and then, unless   *)
(* they redirect, the body as it is if its length is given, or in chunks   *)
(* with their sizes.                                                       *)
LineStarts(s) == {1} \union {i + 2 : i \in CrLfAt(s)}
HeadersTo(s, e) ==
  /\ e \in CrLfAt(s) \intersect LineStarts(s)
  /\ \A b \in CrLfAt(s) \intersect LineStarts(s) : e <= b
  /\ \A i \in 1 .. e + 1 : ~s[i].body /\ (s[i].k = "length" => s[i].v \in Nat)
HasField(s, e, kind) == \E i \in LineStarts(s) : i < e /\ s[i].k = kind
Whole(s, e) == \A i \in e + 2 .. Len(s) : s[i].body

ChunkStarts(s, e) == {p \in e + 2 .. Len(s) : s[p].k = "size" /\ ~s[p].body}
ChunkEnds(s, e) ==
  {q \in CrLfAt(s) : ~s[q].body /\ ~s[q + 1].body
                     /\ q + 2 \in ChunkStarts(s, e) \union {Len(s) + 1}}
IsChunk(s, e, p) ==
  \E r \in CrLfAt(s) :
    /\ p < r /\ \A i \in CrLfAt(s) : i < p \/ r <= i
    /\ \A i \in p .. r + 1 : ~s[i].body
    /\ s[p].v \in Nat /\ r + 2 + s[p].v \in ChunkEnds(s, e)
    /\ \A i \in r + 2 .. r + 1 + s[p].v : s[i].body
Chunked(s, e) ==
  /\ e + 2 \in ChunkStarts(s, e) \union {Len(s) + 1}
  /\ \A p \in ChunkStarts(s, e) : IsChunk(s, e, p)

IsResponse(s, e) ==
  /\ HeadersTo(s, e)
  /\ HasField(s, e, "location")
     \/ IF HasField(s, e, "length") THEN Whole(s, e) ELSE Chunked(s, e)

ASSUME SiteAssumption ==
  /\ Urls \subseteq DOMAIN Site /\ Cuts \subseteq Nat \ {0}
  /\ \A u \in DOMAIN Site :
       /\ Site[u] \in Seq({Site[u][i] : i \in DOMAIN Site[u]})
       /\ \E e \in CrLfAt(Site[u]) : IsResponse(Site[u], e)
       /\ \A i \in DOMAIN Site[u] : Site[u][i].k = "location" => Site[u][i].v \in DOMAIN Site

(* string_utility::find_crlf: the place of the first CRLF, or -1.          *)
FindCrlf(s) ==
  IF CrLfAt(s) = {} THEN -1
  ELSE (CHOOSE i \in CrLfAt(s) : \A j \in CrLfAt(s) : i <= j) - 1

RemoveRangeShort(s, n) == SubSeq(s, n, Len(s))  \* mutant: one byte stays
(* data_store::remove_range(0, n)                                          *)
RemoveRange(s, n) == SubSeq(s, n + 1, Len(s))

(* The value of a line that is one token of this kind.                     *)
Values(lines, kind) == {i \in DOMAIN lines : lines[i][1].k = kind}
LastValue(lines, kind, default) ==
  IF Values(lines, kind) = {} THEN default
  ELSE LET i == CHOOSE i \in Values(lines, kind) : \A j \in Values(lines, kind) : j <= i
       IN  lines[i][1].v

-----------------------------------------------------------------------------
DownloadInit ==
  /\ url = 0 /\ pc = "idle" /\ data = <<>> /\ headers = <<>>
  /\ chunk = NoChunk /\ file = <<>> /\ result = "none"
  /\ got = 0 /\ ended = "open" /\ slow = TRUE

(* download_file is called.                                                *)
DownloadFile(u) ==
  /\ pc = "idle" /\ u \in Urls
  /\ pc' = "headers" /\ url' = u
  /\ UNCHANGED <<data, headers, chunk, file, result, got, ended, slow>>

Reading == pc \in {"headers", "chunks", "plain"}

(* br_sslio_read delivers the next n bytes, and data_store::add_range      *)
(* appends them.                                                           *)
Receive(n) ==
  /\ Reading /\ n \in Cuts /\ got + n <= Len(Site[url])
  /\ ended = "open"
  /\ data' = data \o SubSeq(Site[url], got + 1, got + n)
  /\ got' = got + n
  /\ slow' = (slow /\ n = 1)
  /\ UNCHANGED <<url, chunk, result, ended>>

ReadFailsAtClose ==          \* mutant: an error does not end the loop
  Reading /\ ended = "closed"
(* br_sslio_read returns -1: after a close_notify, or an error (the socket *)
(* is reset, or silent for two seconds).                                   *)
ReadFails == Reading /\ ended \in {"closed", "error"}

(* The server ends the connection: with a close_notify, by an error, or by *)
(* closing the socket, which socket_read reports as 0 bytes read.          *)
ServerEnds(how) ==
  /\ pc \notin {"idle", "done"} /\ ended = "open" /\ ended' = how
  /\ UNCHANGED <<url, pc, data, headers, chunk, file, result, got, slow>>

-----------------------------------------------------------------------------
(* populate_headers                                                        *)

HeadersRead(n) == pc = "headers" /\ Receive(n) /\ pc' = "lines" /\ UNCHANGED <<headers, file>>

HeaderLine ==
  /\ pc = "lines" /\ FindCrlf(data) > 0
  /\ headers' = Append(headers, SubSeq(data, 1, FindCrlf(data)))
  /\ data' = RemoveRange(data, FindCrlf(data) + 2)
  /\ UNCHANGED <<url, pc, chunk, file, result, got, ended, slow>>

NoLine ==
  /\ pc = "lines" /\ FindCrlf(data) = -1
  /\ pc' = "headers"
  /\ UNCHANGED <<url, data, headers, chunk, file, result, got, ended, slow>>

EmptyLine ==
  /\ pc = "lines" /\ FindCrlf(data) = 0
  /\ data' = RemoveRange(data, 2)
  /\ pc' = "respond"
  /\ UNCHANGED <<url, headers, chunk, file, result, got, ended, slow>>

(* Whatever headers there are when the connection ends are used.           *)
HeadersEnd ==
  /\ pc = "headers" /\ ReadFails
  /\ pc' = "respond"
  /\ UNCHANGED <<url, data, headers, chunk, file, result, got, ended, slow>>

-----------------------------------------------------------------------------
(* download_file, after the headers.                                       *)

(* A redirection starts again, with a new connection and a new buffer.     *)
Redirect ==
  /\ pc = "respond" /\ Values(headers, "location") # {}
  /\ url' = LastValue(headers, "location", url)
  /\ pc' = "headers" /\ data' = <<>> /\ headers' = <<>> /\ got' = 0 /\ ended' = "open"
  /\ UNCHANGED <<chunk, file, result, slow>>

StartBody ==
  /\ pc = "respond" /\ Values(headers, "location") = {}
  /\ pc' = IF LastValue(headers, "length", -1) < 0 THEN "chunks" ELSE "plain"
  /\ UNCHANGED <<url, data, headers, chunk, file, result, got, ended, slow>>

(* chunk_download: after each read, at most one line and one chunk.        *)
ChunkRead(n) ==
  /\ pc = "chunks" /\ Receive(n)
  /\ pc' = IF chunk.looking THEN "chunkLine" ELSE "chunkData"
  /\ UNCHANGED <<headers, file>>

NoChunkLine ==
  /\ pc = "chunkLine" /\ FindCrlf(data) = -1
  /\ pc' = "chunks"
  /\ UNCHANGED <<url, data, headers, chunk, file, result, got, ended, slow>>

(* The line that ends a chunk is empty.                                    *)
ChunkLine ==
  /\ pc = "chunkLine" /\ FindCrlf(data) >= 0
  /\ data' = RemoveRange(data, FindCrlf(data) + 2)
  /\ IF FindCrlf(data) = 0 THEN pc' = "chunks" /\ UNCHANGED chunk
     ELSE /\ pc' = "chunkData"
          /\ chunk' = [size |-> IF data[1].k = "size" THEN data[1].v ELSE -1,
                       looking |-> FALSE]
  /\ UNCHANGED <<url, headers, file, result, got, ended, slow>>

BytesToGet == IF chunk.size < Len(data) THEN chunk.size ELSE Len(data)
Incomplete == BytesToGet # chunk.size

ChunkWait ==
  /\ pc = "chunkData" /\ Incomplete
  /\ pc' = "chunks"
  /\ UNCHANGED <<url, data, headers, chunk, file, result, got, ended, slow>>

ChunkData ==
  /\ pc = "chunkData" /\ ~Incomplete
  /\ file' = file \o SubSeq(data, 1, BytesToGet)
  /\ data' = RemoveRange(data, BytesToGet)
  /\ chunk' = [chunk EXCEPT !.looking = TRUE]
  /\ pc' = "chunks"
  /\ UNCHANGED <<url, headers, result, got, ended, slow>>

(* download: each read is written, with what the headers left.             *)
PlainRead(n) ==
  /\ pc = "plain" /\ Receive(n)
  /\ pc' = "write" /\ UNCHANGED <<headers, file>>

PlainWrite ==
  /\ pc = "write"
  /\ file' = file \o data
  /\ data' = <<>>
  /\ pc' = "plain"
  /\ UNCHANGED <<url, headers, chunk, result, got, ended, slow>>

(* The end: success when the engine was closed without an error.  Its own  *)
(* close_notify may have failed to be sent.                                *)
ReturnResult ==
  /\ pc \in {"chunks", "plain"} /\ ReadFails
  /\ result' \in IF ended = "closed" THEN {"success", "failure"} ELSE {"failure"}
  /\ pc' = "done"
  /\ UNCHANGED <<url, data, headers, chunk, file, got, ended, slow>>

-----------------------------------------------------------------------------
Step ==
  \/ \E n \in Cuts : HeadersRead(n) \/ ChunkRead(n) \/ PlainRead(n)
  \/ HeaderLine \/ NoLine \/ EmptyLine \/ HeadersEnd \/ Redirect \/ StartBody
  \/ NoChunkLine \/ ChunkLine \/ ChunkWait \/ ChunkData \/ PlainWrite \/ ReturnResult
Ends == \E how \in {"closed", "error", "eof"} : ServerEnds(how)
DownloadNext == Step \/ Ends

(* The program runs, and a connection does not stay silent: socket_read    *)
(* waits two seconds for the next bytes.                                   *)
DownloadFairness == WF_DownloadVars(Step) /\ WF_DownloadVars(Ends)
-----------------------------------------------------------------------------
(* The bytes of the body among the first n.                                *)
BodyTo(s, n) ==
  LET r[i \in Nat] == IF i = 0 THEN <<>>
                      ELSE IF s[i].body THEN Append(r[i - 1], s[i]) ELSE r[i - 1]
  IN  r[n]

(* However the reads cut the response, and wherever the connection ends:   *)
(* the buffer holds the last bytes received, and of those taken out of it  *)
(* exactly the bytes of the body are in the file, in order: nothing is     *)
(* lost, doubled or taken for something else (chunk_download, download).   *)
(* When each read delivers one byte, nothing waits in the buffer for a     *)
(* read that does not come, and the file is complete when all was received.*)
(* (One read takes out one line and one chunk at most, client.cpp:200-240: *)
(* with several in one read the last ones are left behind.)                *)
TakenIsWritten ==
  /\ pc # "idle" =>
     LET taken == got - Len(data) IN
     /\ data = SubSeq(Site[url], taken + 1, got)
     /\ file = BodyTo(Site[url], taken)
  /\ pc = "done" /\ slow /\ got = Len(Site[url]) => file = BodyTo(Site[url], got)

(* The download returns, unless the server closes the socket without a     *)
(* close_notify: socket_read then returns 0 and is called again at once,   *)
(* for ever (socket_utility.cpp:125-128, ssl_io.c:122-131).                *)
DownloadReturns == pc # "idle" ~> pc = "done" \/ ended = "eof"
=============================================================================
