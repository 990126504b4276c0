---------------------------- MODULE StaticFiles ----------------------------
(***************************************************************************)
(* StaticHandler of vibora/static.py: it serves files and keeps small ones *)
(* in memory.  A handler never gives up the event loop between the request *)
(* and its response, but the files change while it looks at them; and the  *)
(* others are streamed chunk by chunk, with waiting in between.  A stream  *)
(* shares nothing with the requests of meanwhile, so the model takes one   *)
(* request after the other.  HEAD is answered as GET is: the code compares *)
(* the method, which is bytes, with a str.                                 *)
(***************************************************************************)
EXTENDS Disk

CONSTANTS
    Paths,         \* the roots to look for files in
    MaxCacheSize,
    ChunkSize,     \* of streaming_file() and RangeFile
    Ranges,        \* the ranges of bytes that clients ask for
    MaxRequests    \* bound: requests of the client

ASSUME BoundsAssumption ==
    /\ MaxTime \in Nat /\ MaxRequests \in Nat
    /\ ChunkSize \in Nat \ {0}

(* A client asks for a range that is one. *)
ASSUME RangesAssumption ==
    \A r \in Ranges :
        /\ r.start \in Nat /\ r.end \in Nat
        /\ r.start <= r.end

(* A content has a size. *)
ASSUME SizesAssumption ==
    \A s \in Sites : \A path \in s.paths : \A i \in DOMAIN Paths :
        LET f == <<Paths[i], path>>
        IN  \A c \in ({s.files[f]} \cup s.edits[f]) \ {NoContent} :
                c.size \in Nat
ASSUME PathsAssumption ==
    /\ Paths \in Seq(STRING)
    /\ \A s \in Sites : \A path \in s.paths : \A i \in DOMAIN Paths :
          <<Paths[i], path>> \in DOMAIN s.files

VARIABLES
    request,    \* the request and how far handle() is
    entry,      \* the CacheEntry being made, or the one of the answer
    stream,     \* the body on its way: the content of the file that is open
                \* and whether its path still leads to it, and as history the
                \* contents that were read, how many bytes, and whether the
                \* file moved under the stream
    cache,      \* of each path its entry
    cacheSize,  \* current_cache_size
    exists,     \* what the lru_cache of exists() knows (it has room for
                \* 16384 paths; the model evicts none)
    answers,    \* history: what the client got
    meanwhile   \* history: the contents of the path since the request

staticVars ==
    <<request, entry, stream, cache, cacheSize, exists, answers, meanwhile>>

NoRequest == [at |-> "idle"]
WholeFile == [whole |-> TRUE, start |-> 0]
NoStream ==
    [open |-> NoContent, linked |-> FALSE, of |-> {}, bytes |-> 0,
     moved |-> FALSE]
NoEntry ==
    [file |-> <<>>, etag |-> NoContent, mtime |-> 0, torn |-> FALSE,
     size |-> 0, memory |-> NoContent]

StaticInit ==
    /\ request = NoRequest /\ entry = NoEntry /\ stream = NoStream
    /\ cache = <<>> /\ cacheSize = 0 /\ exists = <<>>
    /\ answers = <<>> /\ meanwhile = {}

(* The files a path may stand for: the first root that has it wins. *)
Candidates(path) == [i \in DOMAIN Paths |-> <<Paths[i], path>>]
Versions(path) == {Content(f) : f \in Range(Candidates(path))}
-----------------------------------------------------------------------------
(* The client asks for the whole file or a range of it, and may say which  *)
(* answer of before it still has: one as long as it should be.             *)
Ask(path, range, condition, known) ==
    /\ request.at = "idle" /\ Len(answers) < MaxRequests
    /\ known # 0 => LET a == answers[known]
                    IN  /\ a.status = 200 /\ a.path = path
                        /\ a.body.bytes = a.announced
    /\ (known = 0) = (condition = "none")
    /\ request' = [at |-> "look up", path |-> path, range |-> range,
                   condition |-> condition, known |-> known]
    /\ meanwhile' = Versions(path) \ {NoContent}
    /\ UNCHANGED <<entry, stream, cache, cacheSize, exists, answers>>

Goto(place) == request' = [request EXCEPT !.at = place]

(* What a client gets: the length the headers announce, and a body. *)
NoBody == [of |-> {}, bytes |-> 0]
Whole(content) == [of |-> {content}, bytes |-> content.size]

Answer(status, announced, body, made) ==
    /\ answers' = Append(answers,
           [status |-> status, announced |-> announced, body |-> body,
            path |-> request.path, range |-> request.range,
            known |-> request.known, condition |-> request.condition,
            made |-> made, moved |-> stream.moved, meanwhile |-> meanwhile])
    /\ request' = NoRequest /\ meanwhile' = {} /\ entry' = NoEntry
    /\ stream' = NoStream

(* An exception of handle(): 404 for StaticNotFound, 500 for the others. *)
Fails(status) ==
    /\ Answer(status, 0, NoBody, NoEntry)
    /\ UNCHANGED <<cache, cacheSize>>

(* Fault: a file is newer than its entry, or it is the same. *)
NeedsUpdateIfNewer(e) == Mtime(e.file) > e.mtime

NeedsUpdate(e) == Mtime(e.file) # e.mtime

(* needs_update fails when the file is gone. *)
LookUp ==
    /\ request.at = "look up"
    /\ LET known == request.path \in DOMAIN cache
           cached == cache[request.path]
       IN  \/ /\ known /\ ~IsFile(cached.file)
              /\ Fails(500)
           \/ /\ known /\ IsFile(cached.file) /\ ~NeedsUpdate(cached)
              /\ Goto("answer") /\ entry' = cached
              /\ UNCHANGED <<stream, cache, cacheSize, answers, meanwhile>>
           \/ /\ known => IsFile(cached.file) /\ NeedsUpdate(cached)
              /\ Goto("find")
              /\ UNCHANGED <<entry, stream, cache, cacheSize, answers,
                             meanwhile>>
    /\ UNCHANGED exists

Exists(f) == IF f \in DOMAIN exists THEN exists[f] ELSE IsFile(f)
Remember(files) ==
    exists' = [f \in DOMAIN exists \cup files |-> Exists(f)]

(* The roots in turn, until exists() says yes. *)
Find ==
    /\ request.at = "find"
    /\ LET files == Candidates(request.path)
       IN  \/ /\ \A f \in Range(files) : ~Exists(f)
              /\ Remember(Range(files))
              /\ Fails(404)
           \/ \E i \in DOMAIN files :
              /\ Exists(files[i]) /\ \A j \in 1..i - 1 : ~Exists(files[j])
              /\ Remember({files[j] : j \in 1..i})
              /\ Goto("hash") /\ entry' = [NoEntry EXCEPT !.file = files[i]]
              /\ UNCHANGED <<stream, cache, cacheSize, answers, meanwhile>>

(* CacheEntry.__init__(): hash, time and size of the file, and its content *)
(* if it fits into what is left of the cache; each may be of another       *)
(* version, and `torn` remembers that hash and time are.                   *)
Inspect(from, to, result) ==
    /\ request.at = from
    /\ \/ ~IsFile(entry.file) /\ Fails(500)
       \/ /\ IsFile(entry.file)
          /\ entry' = result /\ stream' = NoStream
          /\ Goto(to)
          /\ UNCHANGED <<cache, cacheSize, answers, meanwhile>>
    /\ UNCHANGED exists

GetHash ==
    Inspect("hash", "mtime", [entry EXCEPT !.etag = Content(entry.file)])
GetMtime ==
    Inspect("mtime", "size",
            [entry EXCEPT !.mtime = Mtime(entry.file),
                          !.torn = entry.etag # Content(entry.file)])
GetSize ==
    Inspect("size", "load", [entry EXCEPT !.size = Content(entry.file).size])

Store(e) ==
    /\ cache' = [p \in DOMAIN cache \cup {request.path} |->
                    IF p = request.path THEN e ELSE cache[p]]
    /\ entry' = e /\ Goto("answer")
    /\ UNCHANGED <<stream, exists, answers, meanwhile>>

Load ==
    /\ request.at = "load"
    /\ LET fits == MaxCacheSize - cacheSize > entry.size
       IN  \/ /\ fits /\ ~IsFile(entry.file)
              /\ Fails(500) /\ UNCHANGED exists
           \/ /\ fits /\ IsFile(entry.file)
              /\ cacheSize' = cacheSize + entry.size
              /\ Store([entry EXCEPT !.memory = Content(entry.file)])
           \/ /\ ~fits
              /\ Store(entry)
              /\ UNCHANGED cacheSize

(* parse_response(): dates first, then hashes. *)
NotModified ==
    LET made == answers[request.known].made
    IN  \/ request.condition = "since" /\ entry.mtime <= made.mtime
        \/ request.condition = "match" /\ entry.etag = made.etag

Opened ==
    stream' = [stream EXCEPT !.open = Content(entry.file), !.linked = TRUE]

(* A range is read from a file that is opened at once. *)
Respond ==
    /\ request.at = "answer"
    /\ LET whole == request.range = WholeFile
       IN  \/ NotModified /\ Answer(304, 0, NoBody, entry)
           \/ /\ ~NotModified /\ ~whole
              /\ \/ ~IsFile(entry.file) /\ Answer(500, 0, NoBody, NoEntry)
                 \/ /\ IsFile(entry.file)
                    /\ Goto("stream") /\ Opened
                    /\ UNCHANGED <<entry, answers, meanwhile>>
           \/ /\ ~NotModified /\ whole /\ entry.memory # NoContent
              /\ Answer(200, entry.memory.size, Whole(entry.memory), entry)
           \/ /\ ~NotModified /\ whole /\ entry.memory = NoContent
              /\ Goto("stream")
              /\ UNCHANGED <<entry, stream, answers, meanwhile>>
    /\ UNCHANGED <<cache, cacheSize, exists>>

(* streaming_file() opens its file when the headers are out; 0 stands for  *)
(* a body that never comes.                                                *)
OpenFile ==
    /\ request.at = "stream" /\ stream.open = NoContent
    /\ \/ ~IsFile(entry.file) /\ Answer(0, entry.size, NoBody, entry)
       \/ /\ IsFile(entry.file)
          /\ Opened
          /\ UNCHANGED <<request, entry, answers, meanwhile>>
    /\ UNCHANGED <<cache, cacheSize, exists>>

(* How many bytes there are from some place on, of a range at most its end. *)
LeftOf(content, place) ==
    LET end == IF request.range = WholeFile THEN content.size
               ELSE Min({request.range.end, content.size})
    IN  IF place < end THEN end - place ELSE 0

(* One chunk, then the next when the client has room for it; the headers   *)
(* announce the size that the entry has, or the one of the range.          *)
Stream ==
    /\ request.at = "stream" /\ stream.open # NoContent
    /\ LET left == LeftOf(stream.open, request.range.start + stream.bytes)
           of == stream.of \cup {stream.open}
           whole == request.range = WholeFile
       IN  \/ /\ left > 0
              /\ stream' = [stream EXCEPT !.of = of,
                                !.bytes = @ + Min({ChunkSize, left})]
              /\ UNCHANGED <<request, entry, answers, meanwhile>>
           \/ /\ left = 0
              /\ Answer(IF whole THEN 200 ELSE 206,
                        IF whole THEN entry.size
                        ELSE request.range.end - request.range.start,
                        [of |-> of, bytes |-> stream.bytes], entry)
    /\ UNCHANGED <<cache, cacheSize, exists>>

(* Somebody edits, replaces or removes a file while it is being served.    *)
(* Who has it open sees only what is written in its place.                 *)
Edit ==
    \E f \in DOMAIN disk : \E content \in site.edits[f], inPlace \in BOOLEAN :
        LET isOpen == stream.open # NoContent
            follows == stream.linked /\ inPlace /\ content # NoContent
        IN  /\ Change(f, content)
            /\ meanwhile' = IF request # NoRequest
                               /\ f \in Range(Candidates(request.path))
                            THEN meanwhile \cup ({content} \ {NoContent})
                            ELSE meanwhile
            /\ stream' = IF f # entry.file THEN stream
                         ELSE IF ~isOpen THEN [stream EXCEPT !.moved = TRUE]
                         ELSE IF follows
                         THEN [stream EXCEPT !.open = content, !.moved = TRUE]
                         ELSE [stream EXCEPT !.linked = FALSE]
            /\ UNCHANGED <<request, entry, cache, cacheSize, exists, answers>>

StaticNext ==
    \/ \E path \in site.paths, range \in {WholeFile} \cup Ranges,
          condition \in {"none", "since", "match"},
          known \in 0..Len(answers) : Ask(path, range, condition, known)
    \/ LookUp \/ Find \/ GetHash \/ GetMtime \/ GetSize \/ Load
    \/ Respond \/ OpenFile \/ Stream

(* The handler alone, without the templates of Assets. *)
StaticSpec ==
    /\ DiskInit /\ StaticInit
    /\ [][Edit \/ (StaticNext /\ UNCHANGED diskVars)]_<<diskVars, staticVars>>
-----------------------------------------------------------------------------
Known(a) == answers[a.known]

(* What a client gets is, whole and as long as it was told, a version the  *)
(* file had while it was asked for, from memory or from disk, or the one   *)
(* it was told to use again; the bytes of a range are of such a version,   *)
(* and all of them if the file has them.  Except: a streamed file changed  *)
(* after its size was taken and before it was opened, or was written in    *)
(* its place while it was open, which may cut, lengthen or mix the body,   *)
(* but only of versions it had; a file was replaced by one with an older   *)
(* date; hash, date and content of an answer were of several versions and  *)
(* the client then asks by hash (StaticHandler.handle(),                   *)
(* CacheEntry.__init__(), parse_response(), streaming_file(), RangeFile).  *)
IsVersion(a, body) == \E c \in a.meanwhile : body = Whole(c)

IsPart(a) ==
    \E c \in a.meanwhile :
        /\ a.body.of = {c}
        /\ a.range.end <= c.size => a.body.bytes = a.announced
        /\ a.body.bytes <= a.announced

WentBack(a) ==
    a.condition = "since" /\ a.made.mtime < Known(a).made.mtime
Mixed(a) ==
    /\ a.condition = "match"
    /\ a.made.torn \/ Known(a).body # Whole(Known(a).made.etag)

StaticIsCurrent ==
    \A i \in DOMAIN answers :
        LET a == answers[i]
        IN  /\ a.body.of \subseteq a.meanwhile
            /\ a.status = 200 => \/ a.moved /\ a.made.memory = NoContent
                                \/ /\ IsVersion(a, a.body)
                                   /\ a.body.bytes = a.announced
            /\ a.status = 206 => a.moved \/ IsPart(a)
            /\ a.status = 304 => \/ WentBack(a) \/ Mixed(a)
                                \/ IsVersion(a, Known(a).body)
=============================================================================
