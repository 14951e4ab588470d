------------------------------- MODULE Drivers -------------------------------
(***************************************************************************)
(* The storage drivers: local disk, FTP, WebDAV and S3 behind one          *)
(* interface, Put, Open, Exists and Delete, with what stays between the    *)
(* calls: the pool of FTP sessions and the readers that Open hands out,    *)
(* which fetch bytes when they are asked for them.                         *)
(*                                                                         *)
(* One object is enough: calls meet on a key or in the pool.  It is a      *)
(* sequence of pieces, <<version, index>>; every Put brings a version of   *)
(* its own.  What the other end does is the protocol's: an FTP server      *)
(* writes in place, the others replace the object as a whole.              *)
(***************************************************************************)
EXTENDS Integers, Sequences, FiniteSets

CONSTANTS
  Backends,   \* drivers of the instance
  Clients,    \* calls in flight
  Sizes,      \* pieces of each version
  MaxPool,    \* idle FTP sessions kept (maxPool)
  MaxCalls,   \* bound on calls
  Mishaps,    \* bound on failed requests, broken sessions and crashes
  Absent      \* "no object", "no body"

Versions == DOMAIN Sizes
MaxSessions == MaxPool + Cardinality(Clients)

VARIABLES
  driver,     \* the driver in use
  server,     \* what the other end supports
  obj,        \* the object
  op,         \* the calls, and the answer of the last one of each client
  pool,       \* idle FTP sessions, the one released last at the end
  sessions,   \* sessions open at the FTP server, which numbers them
  version,    \* versions used so far
  calls,      \* calls so far
  mishaps     \* mishaps so far

store == <<driver, server, obj, op, pool, sessions, version, calls, mishaps>>

Pieces == {<<v, i>> : v \in {0} \cup Versions, i \in 1 .. 2}
Contents == {Absent} \cup {<<>>} \cup {<<p>> : p \in Pieces} \cup {<<p, q>> : p \in Pieces, q \in Pieces}
Whole(v) == [i \in 1 .. Sizes[v] |-> <<v, i>>]
From(data, pos) == SubSeq(data, pos + 1, Len(data))

CallRecords ==
  [pc: {"idle", "start", "acquire", "ready", "stor", "mkcol", "retry", "rename", "read"},
   kind: {"put", "open", "exists", "delete"}, v: {0} \cup Versions, try: 1 .. 2, at: 0 .. 2, done: 0 .. 2,
   session: 0 .. MaxSessions, size: 0 .. 2, pos: 0 .. 2, body: Contents, buf: Contents, sought: BOOLEAN,
   got: SUBSET ((0 .. 1) \X Pieces),
   answer: {"none", "ok", "error", "missing", "yes", "no"}, denied: BOOLEAN, over: BOOLEAN]
Fresh == [pc |-> "idle", kind |-> "put", v |-> 0, try |-> 1, at |-> 0, done |-> 0, session |-> 0,
          size |-> 0, pos |-> 0, body |-> Absent, buf |-> Absent, sought |-> FALSE, got |-> {},
          answer |-> "none", denied |-> FALSE, over |-> FALSE]

Init ==
  /\ driver \in Backends
  /\ server \in [range: BOOLEAN, size: BOOLEAN]
  /\ obj = Absent
  /\ op = [c \in Clients |-> Fresh]
  /\ pool = <<>>
  /\ sessions = {} /\ version = 0 /\ calls = 0 /\ mishaps = 0

Mishap == mishaps < Mishaps /\ mishaps' = mishaps + 1

\* The object changes under everybody else's hands.
Becomes(c, new, call) ==
  /\ obj' = new
  /\ op' = [d \in Clients |-> IF d = c THEN call
              ELSE IF op[d].answer = "none" /\ op[d].pc = "idle" THEN op[d]
              ELSE [op[d] EXCEPT !.over = TRUE]]
Keeps(c, call) == op' = [op EXCEPT ![c] = call] /\ UNCHANGED obj

\* The call returns; what was read is kept until the next call.
Answered(c, answer) ==
  [Fresh EXCEPT !.kind = op[c].kind, !.v = op[c].v, !.answer = answer, !.denied = op[c].denied,
                !.over = op[c].over, !.got = op[c].got, !.sought = op[c].sought, !.size = op[c].size]

Call(c) ==
  /\ op[c].pc = "idle" /\ calls < MaxCalls
  /\ calls' = calls + 1
  /\ \E kind \in {"put", "open", "exists", "delete"} :
       /\ kind = "put" => version + 1 \in Versions
       /\ version' = IF kind = "put" THEN version + 1 ELSE version
       /\ op' = [op EXCEPT ![c] = [Fresh EXCEPT !.kind = kind, !.v = IF kind = "put" THEN version + 1 ELSE 0,
                                     !.pc = IF driver = "ftp" THEN "acquire" ELSE "start"]]
  /\ UNCHANGED <<driver, server, obj, pool, sessions, mishaps>>

-----------------------------------------------------------------------------
(* The pool of FTP sessions.                                               *)

\* acquire: the session released last, unless it is too old or its NoOp
\* fails; with an empty pool a new one, by the TLS mode remembered or probed.
Acquire(c) ==
  /\ op[c].pc = "acquire"
  /\ \/ /\ pool # <<>> /\ pool[Len(pool)].good
        /\ op' = [op EXCEPT ![c].pc = "ready", ![c].session = pool[Len(pool)].id]
        /\ pool' = SubSeq(pool, 1, Len(pool) - 1)
        /\ UNCHANGED <<sessions, mishaps>>
     \/ /\ pool # <<>> /\ ~pool[Len(pool)].good
        /\ pool' = SubSeq(pool, 1, Len(pool) - 1)
        /\ sessions' = sessions \ {pool[Len(pool)].id}
        /\ UNCHANGED <<op, mishaps>>
     \/ /\ pool = <<>>
        /\ LET free == (1 .. MaxSessions) \ sessions
               new == CHOOSE s \in free : \A t \in free : s <= t IN
           /\ op' = [op EXCEPT ![c].pc = "ready", ![c].session = new]
           /\ sessions' = sessions \cup {new}
        /\ UNCHANGED <<pool, mishaps>>
     \/ /\ pool = <<>> /\ Mishap
        /\ op' = [op EXCEPT ![c] = Answered(c, "error")]
        /\ UNCHANGED <<pool, sessions>>
  /\ UNCHANGED <<driver, server, obj, version, calls>>

\* A session idles for too long, or the server closes it.
Age(i) ==
  /\ i \in DOMAIN pool /\ pool[i].good
  /\ pool' = [pool EXCEPT ![i].good = FALSE]
  /\ UNCHANGED <<driver, server, obj, op, sessions, version, calls, mishaps>>

\* A healthy session goes back if there is room.
Pooled(c, bad) == ~bad /\ Len(pool) < MaxPool

\* What does not go back is closed.
Quit(c, bad) == ~Pooled(c, bad)

\* release, where the call holds a session.
Release(c, bad) ==
  LET s == op[c].session IN
  /\ pool' = IF s # 0 /\ Pooled(c, bad) THEN Append(pool, [id |-> s, good |-> TRUE]) ELSE pool
  /\ sessions' = IF s # 0 /\ Quit(c, bad) THEN sessions \ {s} ELSE sessions

-----------------------------------------------------------------------------
(* Put.                                                                    *)

\* The body goes on where the failed attempt left it.
RewoundNever(c) == op[c].at

\* The body is wound back before it is sent again.
Rewound(c) == 0

\* Local: a temporary file takes the bytes ...
LocalPut(c) ==
  /\ driver = "local" /\ op[c].pc = "start" /\ op[c].kind = "put"
  /\ \/ op' = [op EXCEPT ![c].pc = "rename"] /\ UNCHANGED mishaps
     \/ op' = [op EXCEPT ![c] = Answered(c, "error")] /\ Mishap
  /\ UNCHANGED <<driver, server, obj, pool, sessions, version, calls>>

\* ... and its renaming shows them.
LocalRename(c) ==
  /\ op[c].pc = "rename"
  /\ Becomes(c, Whole(op[c].v), Answered(c, "ok"))
  /\ UNCHANGED <<driver, server, pool, sessions, version, calls, mishaps>>

\* FTP: STOR empties the file ...
FtpStor(c) ==
  /\ driver = "ftp" /\ op[c].pc = "ready" /\ op[c].kind = "put"
  /\ Becomes(c, <<>>, [op[c] EXCEPT !.pc = "stor", !.done = 0])
  /\ UNCHANGED <<driver, server, pool, sessions, version, calls, mishaps>>

\* ... and fills it piece by piece; one that was deleted takes the rest along.
FtpStorPiece(c) ==
  /\ op[c].pc = "stor" /\ op[c].at < Sizes[op[c].v]
  /\ LET i == op[c].done + 1
         call == [op[c] EXCEPT !.at = @ + 1, !.done = @ + 1] IN
     \/ obj = Absent /\ Keeps(c, call)
     \/ /\ obj # Absent
        /\ Becomes(c, [j \in 1 .. (IF i > Len(obj) THEN i ELSE Len(obj)) |->
                         IF j = i THEN <<op[c].v, op[c].at + 1>>
                         ELSE IF j <= Len(obj) THEN obj[j] ELSE <<0, j>>], call)
  /\ UNCHANGED <<driver, server, pool, sessions, version, calls, mishaps>>

\* STOR is tried a second time over the same session, and then given up.
FtpStorEnd(c) ==
  /\ op[c].pc = "stor"
  /\ \/ /\ op[c].at = Sizes[op[c].v]
        /\ Keeps(c, Answered(c, "ok"))
        /\ Release(c, FALSE)
        /\ UNCHANGED mishaps
     \/ /\ op[c].try = 1 /\ Mishap
        /\ Keeps(c, [op[c] EXCEPT !.pc = "ready", !.try = 2, !.at = Rewound(c)])
        /\ UNCHANGED <<pool, sessions>>
     \/ /\ op[c].try = 2 /\ Mishap
        /\ Keeps(c, Answered(c, "error"))
        /\ Release(c, TRUE)
  /\ UNCHANGED <<driver, server, version, calls>>

\* A request that fails may have taken effect.
PutFails(c) ==
  Mishap /\ (Keeps(c, Answered(c, "error")) \/ Becomes(c, Whole(op[c].v), Answered(c, "error")))

\* S3 sends once.
S3Put(c) ==
  /\ driver = "s3" /\ op[c].pc = "start" /\ op[c].kind = "put"
  /\ \/ Becomes(c, Whole(op[c].v), Answered(c, "ok")) /\ UNCHANGED mishaps
     \/ PutFails(c)
  /\ UNCHANGED <<driver, server, pool, sessions, version, calls>>

\* WebDAV too if the first answer is good; the body of a PUT refused for its
\* missing parents may have been sent or not.
WebdavPut(c) ==
  /\ driver = "webdav" /\ op[c].pc = "start" /\ op[c].kind = "put"
  /\ \/ Becomes(c, Whole(op[c].v), Answered(c, "ok")) /\ UNCHANGED mishaps
     \/ /\ \E sent \in {0, Sizes[op[c].v]} : Keeps(c, [op[c] EXCEPT !.pc = "mkcol", !.at = sent])
        /\ UNCHANGED mishaps
     \/ PutFails(c)
  /\ UNCHANGED <<driver, server, pool, sessions, version, calls>>

\* mkcolParents, and the body wound back.
MkcolParents(c) ==
  /\ op[c].pc = "mkcol"
  /\ \/ op' = [op EXCEPT ![c].pc = "retry", ![c].at = Rewound(c)] /\ UNCHANGED mishaps
     \/ op' = [op EXCEPT ![c] = Answered(c, "error")] /\ Mishap
  /\ UNCHANGED <<driver, server, obj, pool, sessions, version, calls>>

WebdavRetry(c) ==
  /\ op[c].pc = "retry"
  /\ \/ Becomes(c, From(Whole(op[c].v), op[c].at), Answered(c, "ok")) /\ UNCHANGED mishaps
     \/ PutFails(c)
  /\ UNCHANGED <<driver, server, pool, sessions, version, calls>>

-----------------------------------------------------------------------------
(* Exists and Delete.                                                      *)

Asked(c, kind) == op[c].kind = kind /\ op[c].pc = IF driver = "ftp" THEN "ready" ELSE "start"

\* A failed request, over a session that is then closed.
Fails(c) == Mishap /\ Keeps(c, Answered(c, "error")) /\ Release(c, TRUE)

\* isNotFound takes every 550 for "no such file", a refusal included.
Denies(c) ==
  /\ obj # Absent /\ Mishap
  /\ Keeps(c, [Answered(c, IF op[c].kind = "open" THEN "missing"
                           ELSE IF op[c].kind = "exists" THEN "no" ELSE "ok") EXCEPT !.denied = TRUE])
  /\ Release(c, FALSE)

Tells(c) == Keeps(c, Answered(c, IF obj = Absent THEN "no" ELSE "yes"))

LocalExists(c) ==
  /\ driver = "local" /\ Asked(c, "exists")
  /\ Tells(c)
  /\ UNCHANGED <<driver, server, pool, sessions, version, calls, mishaps>>

\* FTP asks for the size: a server that does not tell sizes cannot answer.
FtpExists(c) ==
  /\ driver = "ftp" /\ Asked(c, "exists")
  /\ \/ server.size /\ Tells(c) /\ Release(c, FALSE) /\ UNCHANGED mishaps
     \/ ~server.size /\ Keeps(c, Answered(c, "error")) /\ Release(c, TRUE) /\ UNCHANGED mishaps
     \/ Denies(c) \/ Fails(c)
  /\ UNCHANGED <<driver, server, version, calls>>

\* HEAD, or a GET of the first byte where HEAD is not allowed.
WebdavExists(c) ==
  /\ driver = "webdav" /\ Asked(c, "exists")
  /\ \/ Tells(c) /\ Release(c, FALSE) /\ UNCHANGED mishaps
     \/ Fails(c)
  /\ UNCHANGED <<driver, server, version, calls>>

\* HEAD only: a gateway without it cannot answer.
S3Exists(c) ==
  /\ driver = "s3" /\ Asked(c, "exists")
  /\ \/ Tells(c) /\ Release(c, FALSE) /\ UNCHANGED mishaps
     \/ ~server.size /\ Keeps(c, Answered(c, "error")) /\ UNCHANGED <<pool, sessions, mishaps>>
     \/ Fails(c)
  /\ UNCHANGED <<driver, server, version, calls>>

\* An object that is not there counts as deleted.
Deletes(c) ==
  IF obj = Absent THEN Keeps(c, Answered(c, "ok")) ELSE Becomes(c, Absent, Answered(c, "ok"))

\* A deletion that fails may have taken effect.
DeleteFails(c) ==
  /\ Mishap
  /\ Keeps(c, Answered(c, "error")) \/ Becomes(c, Absent, Answered(c, "error"))
  /\ Release(c, TRUE)

LocalDelete(c) ==
  /\ driver = "local" /\ Asked(c, "delete")
  /\ \/ Deletes(c) /\ UNCHANGED mishaps
     \/ Keeps(c, Answered(c, "error")) /\ Mishap
  /\ UNCHANGED <<driver, server, pool, sessions, version, calls>>

FtpDelete(c) ==
  /\ driver = "ftp" /\ Asked(c, "delete")
  /\ \/ Deletes(c) /\ Release(c, FALSE) /\ UNCHANGED mishaps
     \/ Denies(c) \/ DeleteFails(c)
  /\ UNCHANGED <<driver, server, version, calls>>

WebdavDelete(c) ==
  /\ driver = "webdav" /\ Asked(c, "delete")
  /\ \/ Deletes(c) /\ Release(c, FALSE) /\ UNCHANGED mishaps
     \/ DeleteFails(c)
  /\ UNCHANGED <<driver, server, version, calls>>

S3Delete(c) ==
  /\ driver = "s3" /\ Asked(c, "delete")
  /\ \/ Deletes(c) /\ Release(c, FALSE) /\ UNCHANGED mishaps
     \/ DeleteFails(c)
  /\ UNCHANGED <<driver, server, version, calls>>

-----------------------------------------------------------------------------
(* Open, and the readers it hands out.                                     *)

Misses(c) == obj = Absent /\ Keeps(c, Answered(c, "missing")) /\ Release(c, FALSE) /\ UNCHANGED mishaps

\* The size is known, and bytes are fetched when they are read.
Streams(c) ==
  /\ obj # Absent /\ server.size
  /\ Keeps(c, [op[c] EXCEPT !.pc = "read", !.size = Len(obj)])
  /\ UNCHANGED <<pool, sessions, mishaps>>

\* The whole object in memory, or an open file, which keeps its bytes.
Buffers(c) ==
  /\ obj # Absent
  /\ Keeps(c, [op[c] EXCEPT !.pc = "read", !.size = Len(obj), !.buf = obj, !.session = 0])
  /\ Release(c, FALSE)

LocalOpen(c) ==
  /\ driver = "local" /\ Asked(c, "open")
  /\ Misses(c) \/ (Buffers(c) /\ UNCHANGED mishaps)
  /\ UNCHANGED <<driver, server, version, calls>>

\* SIZE, or one RETR of everything; a streaming reader keeps the session.
FtpOpen(c) ==
  /\ driver = "ftp" /\ Asked(c, "open")
  /\ \/ Misses(c) \/ Streams(c)
     \/ ~server.size /\ Buffers(c) /\ UNCHANGED mishaps
     \/ Denies(c) \/ Fails(c)
  /\ UNCHANGED <<driver, server, version, calls>>

\* HEAD, or one GET of everything if that tells no size.
WebdavOpen(c) ==
  /\ driver = "webdav" /\ Asked(c, "open")
  /\ \/ Misses(c) \/ Streams(c)
     \/ ~server.size /\ Buffers(c) /\ UNCHANGED mishaps
     \/ Fails(c)
  /\ UNCHANGED <<driver, server, version, calls>>

\* The same, and a HEAD that failed is followed by the GET too.
S3Open(c) ==
  /\ driver = "s3" /\ Asked(c, "open")
  /\ \/ Misses(c) \/ Streams(c)
     \/ ~server.size /\ Buffers(c) /\ UNCHANGED mishaps
     \/ Mishap /\ Buffers(c)
     \/ Fails(c)
  /\ UNCHANGED <<driver, server, version, calls>>

Reading(c) == op[c].pc = "read" /\ op[c].pos < op[c].size
Taken(c, piece) == [op[c] EXCEPT !.got = @ \cup {<<op[c].pos, piece>>}, !.pos = @ + 1]

\* The next piece from memory, or from an open file.
ReadBuffer(c) ==
  /\ Reading(c) /\ op[c].buf # Absent
  /\ Keeps(c, IF op[c].pos < Len(op[c].buf) THEN Taken(c, op[c].buf[op[c].pos + 1]) ELSE Answered(c, "ok"))
  /\ UNCHANGED <<driver, server, pool, sessions, version, calls, mishaps>>

\* RETR from the position: the file as it is at this moment.
FtpRead(c) ==
  /\ driver = "ftp" /\ Reading(c) /\ op[c].buf = Absent
  /\ \/ /\ obj # Absent /\ op[c].pos < Len(obj)
        /\ Keeps(c, Taken(c, obj[op[c].pos + 1]))
        /\ UNCHANGED <<pool, sessions, mishaps>>
     \/ /\ obj # Absent /\ op[c].pos >= Len(obj)
        /\ Keeps(c, Answered(c, "ok")) /\ Release(c, FALSE)
        /\ UNCHANGED mishaps
     \/ /\ obj = Absent
        /\ Keeps(c, Answered(c, "error")) /\ Release(c, TRUE)
        /\ UNCHANGED mishaps
     \/ Fails(c)
  /\ UNCHANGED <<driver, server, version, calls>>

\* The answer to a range is the whole object.
RangeIgnored(c) == op[c].pos > 0 /\ ~server.range

\* The answer from the position on: a server without ranges sends everything.
Sent(c) == IF server.range THEN From(obj, op[c].pos) ELSE obj
Asks(c) == Reading(c) /\ op[c].buf = Absent /\ op[c].body = Absent
Served(c) == obj # Absent /\ ~RangeIgnored(c) /\ (op[c].pos < Len(obj) \/ ~server.range)
Unserved(c) == IF obj = Absent THEN TRUE ELSE server.range /\ op[c].pos >= Len(obj)

\* A GET with a Range, sent when bytes are asked for.  WebDAV keeps an answer
\* that ignores the range in memory ...
WebdavRange(c) ==
  /\ driver = "webdav" /\ Asks(c)
  /\ \/ Served(c) /\ Keeps(c, [op[c] EXCEPT !.body = Sent(c)]) /\ UNCHANGED mishaps
     \/ /\ obj # Absent /\ RangeIgnored(c)
        /\ Keeps(c, [op[c] EXCEPT !.buf = obj, !.size = Len(obj)])
        /\ UNCHANGED mishaps
     \/ Unserved(c) /\ Keeps(c, Answered(c, "error")) /\ UNCHANGED mishaps
     \/ Mishap /\ Keeps(c, Answered(c, "error"))
  /\ UNCHANGED <<driver, server, pool, sessions, version, calls>>

\* ... S3 gives up.
S3Range(c) ==
  /\ driver = "s3" /\ Asks(c)
  /\ \/ Served(c) /\ Keeps(c, [op[c] EXCEPT !.body = Sent(c)]) /\ UNCHANGED mishaps
     \/ (Unserved(c) \/ RangeIgnored(c)) /\ Keeps(c, Answered(c, "error")) /\ UNCHANGED mishaps
     \/ Mishap /\ Keeps(c, Answered(c, "error"))
  /\ UNCHANGED <<driver, server, pool, sessions, version, calls>>

\* The next piece of the answer; one that ends early is followed by another.
HttpRead(c) ==
  /\ Reading(c) /\ op[c].buf = Absent /\ op[c].body # Absent
  /\ Keeps(c, IF op[c].body = <<>> THEN [op[c] EXCEPT !.body = Absent]
              ELSE [Taken(c, Head(op[c].body)) EXCEPT !.body = Tail(op[c].body)])
  /\ UNCHANGED <<driver, server, pool, sessions, version, calls, mishaps>>

\* A request for a part of the image: the answer under way is dropped.
Seek(c) ==
  /\ driver # "ftp" /\ op[c].pc = "read" /\ ~op[c].sought
  /\ \E pos \in 0 .. op[c].size - 1 :
       Keeps(c, [op[c] EXCEPT !.pos = pos, !.sought = TRUE, !.body = IF pos = op[c].pos THEN @ ELSE Absent])
  /\ UNCHANGED <<driver, server, pool, sessions, version, calls, mishaps>>

\* The next RETR starts there, over the same session.
FtpSeek(c) ==
  /\ driver = "ftp" /\ op[c].pc = "read" /\ ~op[c].sought
  /\ \E pos \in 0 .. op[c].size - 1 : Keeps(c, [op[c] EXCEPT !.pos = pos, !.sought = TRUE])
  /\ UNCHANGED <<driver, server, pool, sessions, version, calls, mishaps>>

\* At its end, or when the client is gone, the reader is closed.
Close(c) ==
  /\ op[c].pc = "read"
  /\ \/ op[c].pos >= op[c].size /\ Keeps(c, Answered(c, "ok"))
     \/ op[c].pos < op[c].size /\ Keeps(c, Answered(c, "error"))
  /\ Release(c, FALSE)
  /\ UNCHANGED <<driver, server, version, calls, mishaps>>

-----------------------------------------------------------------------------
\* A crash: calls and pool are gone, what was written stays.
Crash ==
  /\ Mishap
  /\ op' = [c \in Clients |-> Fresh]
  /\ pool' = <<>> /\ sessions' = {}
  /\ UNCHANGED <<driver, server, obj, version, calls>>

Next ==
  \/ \E c \in Clients :
       \/ Call(c) \/ Acquire(c)
       \/ LocalPut(c) \/ LocalRename(c)
       \/ FtpStor(c) \/ FtpStorPiece(c) \/ FtpStorEnd(c)
       \/ S3Put(c) \/ WebdavPut(c) \/ MkcolParents(c) \/ WebdavRetry(c)
       \/ LocalExists(c) \/ FtpExists(c) \/ WebdavExists(c) \/ S3Exists(c)
       \/ LocalDelete(c) \/ FtpDelete(c) \/ WebdavDelete(c) \/ S3Delete(c)
       \/ LocalOpen(c) \/ FtpOpen(c) \/ WebdavOpen(c) \/ S3Open(c)
       \/ ReadBuffer(c) \/ FtpRead(c) \/ WebdavRange(c) \/ S3Range(c) \/ HttpRead(c)
       \/ Seek(c) \/ FtpSeek(c) \/ Close(c)
  \/ \E i \in 1 .. MaxPool : Age(i)
  \/ Crash

Spec == Init /\ [][Next]_store

-----------------------------------------------------------------------------
(* Properties.                                                             *)

TypeOK ==
  /\ driver \in Backends
  /\ server \in [range: BOOLEAN, size: BOOLEAN]
  /\ obj \in Contents
  /\ op \in [Clients -> CallRecords]
  /\ Len(pool) <= MaxPool
  /\ \A i \in DOMAIN pool : pool[i] \in [id: 1 .. MaxSessions, good: BOOLEAN]
  /\ sessions \subseteq 1 .. MaxSessions
  /\ version \in 0 .. Len(Sizes)
  /\ calls \in 0 .. MaxCalls /\ mishaps \in 0 .. Mishaps

\* Every session open at the server is with one call or once in the pool, and
\* what is there is open: none is used by two calls, and none stays behind
\* after a missing object, a failed transfer, a reader closed early or a pool
\* that was full (acquire, release and every exit of Open, Put and Close).
SessionsAccountedFor ==
  \A s \in 1 .. MaxSessions :
    Cardinality({c \in Clients : op[c].session = s}) + Cardinality({i \in DOMAIN pool : pool[i].id = s})
      = IF s \in sessions THEN 1 ELSE 0

At(data) == {<<i - 1, data[i]>> : i \in DOMAIN data}

\* What a call says of the object when nobody else touched it meanwhile.
AnswerIsTrue(c) ==
  LET call == op[c] IN
  CASE call.answer = "ok" /\ call.kind = "put"    -> obj = Whole(call.v)
    [] call.answer = "ok" /\ call.kind = "delete" -> obj = Absent
    [] call.answer = "ok" /\ call.kind = "open"   -> obj # Absent /\ call.got \subseteq At(obj)
                                                       /\ (call.sought \/ call.got = At(obj))
    [] call.answer = "missing"                    -> obj = Absent
    [] call.answer \in {"yes", "no"}              -> (obj = Absent) = (call.answer = "no")
    [] OTHER                                      -> TRUE

\* A call that reports success did what it says: a Put left the whole object,
\* whatever attempt succeeded, a Delete left none, a reader delivered the
\* object, every piece where it belongs, through short answers, seeks and
\* servers that ignore Range.  Excepted are calls during which another one
\* changed the object, and FTP's reading of a refusal as a missing file; a
\* piece is in its place even then.
AnswersAreTrue ==
  \A c \in Clients :
    /\ \A g \in op[c].got : g[2][2] = g[1] + 1
    /\ op[c].denied \/ op[c].over \/ AnswerIsTrue(c)

=============================================================================
