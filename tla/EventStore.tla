----------------------------- MODULE EventStore -----------------------------
(***************************************************************************)
(* The events layer of one NanoTDB database: the events WAL, the open      *)
(* events page of each partition, the events-<part>.dat files, events.json *)
(* and a query that reads all of it without a lock.  Source:               *)
(* internal/engine (events_engine.go, events_wal.go, events_page.go,       *)
(* events_file.go, events_catalog.go, and the events part of engine.go).   *)
(*                                                                         *)
(* Writers hold Engine.writeMu, so at most one is in progress and pc says  *)
(* where; one action is one effect on disk with the changes to memory up   *)
(* to the next.  QueryEvents holds no lock: it takes a step whenever it    *)
(* goes on to the next file or page.  A payload is the number of the call  *)
(* that sent it.                                                           *)
(*                                                                         *)
(* A record goes to the WAL in two writes.  A crash or an error between    *)
(* them leaves a torn one, and the next append goes on behind it; wal is   *)
(* what is in front of the first torn record.  A decoder that comes to one *)
(* stops if its length points past the end of the file, and otherwise      *)
(* takes the bytes of the records behind it for its payload: it then stops *)
(* later or returns an error, and never sees a record behind a torn one    *)
(* (unless the bytes at the shifted place happen to make a valid record,   *)
(* which is left out).                                                     *)
(***************************************************************************)
EXTENDS Naturals, FiniteSets, SequencesExt

CONSTANTS
    EventName,       \* names clients write to
    NoName,          \* the empty name of a WAL record for a known event
    ValueType,       \* EventValueNone, Int32Sample, Float32Sample
    Timestamp,       \* event timestamps
    PartOf,          \* the partition a timestamp belongs to (partitionKey)
    PageMaxRecords,  \* manifest: events.page.max_records
    MaxEvents,       \* MaxEventsPerDatabase
    QueryFrom,       \* the timestamps queries start at
    Limits           \* bounds of the model: how many calls, crashes, failed writes
                     \* and queries together

ASSUME EventAssumption ==
    /\ NoName \notin EventName
    /\ IsFiniteSet(EventName) /\ ValueType # {}
    /\ Timestamp \subseteq Nat \ {0}
    /\ QueryFrom \subseteq Timestamp
    /\ PartOf \in [Timestamp -> Nat \ {0}]
    /\ {PageMaxRecords, MaxEvents} \subseteq Nat \ {0}
    /\ Limits \subseteq [calls : Nat, crashes : Nat, faults : Nat, queries : Nat]

VARIABLES
    \* on disk
    wal,         \* <db>.events.wal: the records in front of the first torn one
    torn,        \* how many torn records are in it
    buried,      \* whether a whole record is behind a torn one
    file,        \* events-<part>.dat: the frames of each partition
    catalogFile, \* events.json
    \* in memory
    catalog,     \* EventCatalog.events: name to id and value type
    idToName,    \* EventCatalog.idToName
    dirty,       \* EventCatalog.dirty
    lastTS,      \* EventEntry.LastTS, 0 while LastValid is false
    page,        \* dbRuntime.openEventsDays: the open page of each partition
    sized,       \* EventsWAL.bufferSize > 0
    \* the writer and the query in progress
    pc, call, flushing, query,
    \* history
    limit,       \* the bounds of this behavior, never changed
    calls,       \* AddEvent calls so far
    latest,      \* the largest timestamp submitted so far for each partition
    newest,      \* the calls with a timestamp above every earlier one of it, behind
                 \* no torn record
    behind,      \* the calls begun while a torn record was in the log
    answered,    \* the events a call has returned for, and what it returned
    unnamed,     \* an append that was to name an event has failed and left nothing
    crashes, faults, queries

log     == <<wal, torn, buried>>
disk    == <<log, file, catalogFile>>
known   == <<catalog, idToName, dirty>>
memory  == <<known, lastTS, page, sized>>
given   == <<limit, calls, latest, newest, behind>>
history == <<given, answered, unnamed, crashes, faults, queries>>
vars    == <<disk, memory, pc, call, flushing, query, history>>

Partition == Range(PartOf)
EventID   == 1..MaxEvents
Event     == [id : EventID, ts : Timestamp, val : Nat]
Entry     == [id : EventID \cup {0}, type : ValueType]
Record    == [name : EventName \cup {NoName}, type : ValueType, event : Event]

AnyType   == CHOOSE t \in ValueType : TRUE
NoEntries == [n \in EventName |-> [id |-> 0, type |-> AnyType]]
NoIds     == [i \in EventID |-> NoName]
NoPages   == [p \in Partition |-> <<>>]
NoCall    == [op |-> "none", name |-> NoName, type |-> AnyType, ts |-> 0, val |-> 0,
              fresh |-> FALSE]
NoQuery   == [phase |-> "none", name |-> NoName, from |-> 0, parts |-> {}, got |-> <<>>,
              due |-> {}]

-----------------------------------------------------------------------------
(* The catalog.                                                            *)

Entries(c)  == {n \in EventName : c[n].id # 0}
Known(n)    == catalog[n].id # 0
NextEventID == Cardinality(Entries(catalog)) + 1

NamesById(c) == [i \in EventID |-> IF \E n \in EventName : c[n].id = i
                                   THEN CHOOSE n \in EventName : c[n].id = i
                                   ELSE NoName]

\* GetOrAssignEventID refuses a value type other than the pinned one, and a
\* new name when every id is in use.
Refused(n, t) == IF Known(n) THEN catalog[n].type # t
                 ELSE Cardinality(Entries(catalog)) >= MaxEvents

(* The log at open.                                                        *)

Named(l)    == {r \in Range(l) : r.name # NoName}
Declared(l) == {<<n, catalogFile[n]>> : n \in Entries(catalogFile)} \cup
                   {<<r.name, [id |-> r.event.id, type |-> r.type]>> : r \in Named(l)}

\* EnsureEventEntry lets a name have one id and one type, an id one name, and
\* no more names than there are ids.
Consistent(l) ==
    /\ \A d, e \in Declared(l) : d[1] = e[1] \/ d[2].id = e[2].id => d = e
    /\ Cardinality(Declared(l)) <= MaxEvents

\* A record without a name needs an entry from events.json or from a record
\* before it (ErrEventsWALUnknownEventID).
Resolved(l) ==
    \A k \in DOMAIN l : l[k].name = NoName =>
        \/ \E n \in Entries(catalogFile) : catalogFile[n].id = l[k].event.id
        \/ \E j \in 1..(k - 1) : l[j].name # NoName /\ l[j].event.id = l[k].event.id

Replayable == Consistent(wal) /\ Resolved(wal)

\* There are bytes behind a torn record for the decoder to take as its payload.
Misaligned == buried \/ torn > 1

CatalogAfter(l) ==
    [n \in EventName |-> IF \E d \in Declared(l) : d[1] = n
                         THEN (CHOOSE d \in Declared(l) : d[1] = n)[2]
                         ELSE NoEntries[n]]

\* The elements of s at the positions K, in their order.
Kept(s, K) ==
    LET kept[k \in 0..Len(s)] == IF k = 0 THEN <<>>
                                 ELSE IF k \in K THEN Append(kept[k - 1], s[k])
                                      ELSE kept[k - 1]
    IN  kept[Len(s)]

(* Frames.                                                                 *)

LastAsEnd(f)  == Last(f).ts  \* faulty: the last record is not the newest
FrameEnd(f)   == CHOOSE t \in {e.ts : e \in Range(f)} : \A e \in Range(f) : t >= e.ts
FrameIds(f)   == {e.id : e \in Range(f)}

\* A record at or below the largest timestamp of its partition's file is taken
\* as durable.
DurableAnyPart(e) ==  \* faulty
    \E p \in Partition : \E f \in Range(file[p]) : e.ts <= FrameEnd(f)
Durable(e) == \E f \in Range(file[PartOf[e.ts]]) : e.ts <= FrameEnd(f)

LogEvents(l)  == [k \in DOMAIN l |-> l[k].event]
ReplayedOf(p) ==
    Kept(LogEvents(wal),
         {k \in DOMAIN wal : PartOf[wal[k].event.ts] = p /\ ~Durable(wal[k].event)})
NewestOf(n, c) ==
    LET times == {e.ts : e \in {e \in UNION {Range(ReplayedOf(p)) : p \in Partition} :
                                    e.id = c[n].id}}
    IN IF times = {} THEN 0 ELSE CHOOSE t \in times : \A u \in times : u <= t

TypeOK ==
    /\ wal \in Seq(Record) /\ torn \in Nat /\ buried \in BOOLEAN
    /\ file \in [Partition -> Seq(Seq(Event))]
    /\ {catalog, catalogFile} \subseteq [EventName -> Entry]
    /\ idToName \in [EventID -> EventName \cup {NoName}]
    /\ dirty \in BOOLEAN
    /\ lastTS \in [EventName -> Timestamp \cup {0}]
    /\ page \in [Partition -> Seq(Event)] /\ sized \in BOOLEAN
    /\ pc \in {"down", "idle", "append", "payload", "page", "flush", "drain", "reset",
               "persist"}
    /\ call \in [op : {"none", "add", "flush", "close"}, name : EventName \cup {NoName},
                 type : ValueType, ts : Timestamp \cup {0}, val : Nat, fresh : BOOLEAN]
    /\ flushing \in Partition \cup {0}
    /\ query \in [phase : {"none", "files", "pages"}, name : EventName \cup {NoName},
                  from : Timestamp \cup {0}, parts : SUBSET Partition,
                  got : Seq(Event), due : SUBSET Nat]
    /\ latest \in [Partition -> Timestamp \cup {0}]
    /\ newest \subseteq Nat /\ behind \subseteq Nat /\ unnamed \in BOOLEAN
    /\ limit \in Limits
    /\ {calls, crashes, faults, queries} \subseteq Nat
    /\ answered \subseteq [name : EventName, type : ValueType, ts : Timestamp, val : Nat,
                           ok : BOOLEAN]

Init ==
    /\ wal = <<>> /\ torn = 0 /\ buried = FALSE
    /\ file = NoPages /\ catalogFile = NoEntries
    /\ catalog = NoEntries /\ idToName = NoIds /\ dirty = FALSE
    /\ lastTS = [n \in EventName |-> 0] /\ page = NoPages /\ sized = FALSE
    /\ pc = "down" /\ call = NoCall /\ flushing = 0 /\ query = NoQuery
    /\ limit \in Limits /\ calls = 0 /\ latest = [p \in Partition |-> 0]
    /\ newest = {} /\ behind = {} /\ answered = {} /\ unnamed = FALSE
    /\ crashes = 0 /\ faults = 0 /\ queries = 0

LoseMemory ==
    /\ catalog' = NoEntries /\ idToName' = NoIds /\ dirty' = FALSE
    /\ lastTS' = [n \in EventName |-> 0] /\ page' = NoPages /\ sized' = FALSE
    /\ pc' = "down" /\ call' = NoCall /\ flushing' = 0 /\ query' = NoQuery

\* The call in progress returns to its caller.
Return(ok) ==
    /\ pc' = "idle" /\ call' = NoCall /\ flushing' = 0
    /\ answered' = IF call.op = "add"
                   THEN answered \cup {[name |-> call.name, type |-> call.type,
                                        ts |-> call.ts, val |-> call.val, ok |-> ok]}
                   ELSE answered

-----------------------------------------------------------------------------
(* Opening: OpenEventsForDatabase and replayEventsWALIntoRuntime.  Replay   *)
(* writes nothing to disk, so it is one step.                               *)

Open ==
    /\ pc = "down"
    /\ Replayable
    /\ catalog' = CatalogAfter(wal)
    /\ idToName' = NamesById(catalog')
    /\ dirty' = (catalog' # catalogFile)
    /\ page' = [p \in Partition |-> ReplayedOf(p)]
    /\ lastTS' = [n \in EventName |-> NewestOf(n, catalog')]
    /\ sized' = (wal # <<>> \/ torn > 0)
    /\ pc' = "idle"
    /\ UNCHANGED <<disk, call, flushing, query, history>>

\* A record the decoder cannot take fails the open: in front of a torn one for its
\* name or id; behind it because the bytes are shifted, if they do not end first.
OpenFails == pc = "down" /\ (~Replayable \/ Misaligned) /\ UNCHANGED vars

-----------------------------------------------------------------------------
(* AddEvent.  A call refused before it registers its name (payload too      *)
(* large, value type, stale timestamp, no id left) changes nothing.         *)

Stale(n, t) == Known(n) /\ t < lastTS[idToName[catalog[n].id]]

\* GetOrAssignEventID enters a new name before its record is logged.
Register(n, t) ==
    IF Known(n) THEN UNCHANGED known
    ELSE /\ catalog' = [catalog EXCEPT ![n] = [id |-> NextEventID, type |-> t]]
         /\ idToName' = [idToName EXCEPT ![NextEventID] = n]
         /\ dirty' = TRUE

BeginAdd(n, t, ts) ==
    /\ pc = "idle"
    /\ calls < limit.calls
    /\ ~Refused(n, t) /\ ~Stale(n, ts)
    /\ Register(n, t)
    /\ pc' = "append"
    /\ call' = [op |-> "add", name |-> n, type |-> t, ts |-> ts, val |-> calls + 1,
                fresh |-> ~Known(n)]
    /\ calls' = calls + 1
    /\ behind' = IF torn = 0 THEN behind ELSE behind \cup {calls + 1}
    /\ IF ts > latest[PartOf[ts]]
       THEN /\ latest' = [latest EXCEPT ![PartOf[ts]] = ts]
            /\ newest' = IF torn = 0 THEN newest \cup {calls + 1} ELSE newest
       ELSE UNCHANGED <<latest, newest>>
    /\ UNCHANGED <<disk, lastTS, page, sized, flushing, query, limit, answered, unnamed,
                   crashes, faults, queries>>

CallEvent == [id |-> catalog[call.name].id, ts |-> call.ts, val |-> call.val]

\* AppendEventWithName for the first occurrence, AppendEvent for the others.
NamelessRecord == [name |-> NoName, type |-> call.type, event |-> CallEvent]  \* faulty
CallRecord == [name |-> IF call.fresh THEN call.name ELSE NoName, type |-> call.type,
               event |-> CallEvent]

\* IsFull by count; by size and age it may be at any time (MustForceFlush too).
MustFlush(p) == Len(page'[p]) >= PageMaxRecords

\* The first write: the length, or a part of it.
WriteLength ==
    /\ pc = "append"
    /\ torn' = torn + 1
    /\ pc' = "payload"
    /\ UNCHANGED <<wal, buried, file, catalogFile, memory, call, flushing, query,
                   history>>

\* The torn record at the end is completed.
Complete ==
    /\ torn' = torn - 1
    /\ IF torn = 1 THEN wal' = Append(wal, CallRecord) /\ UNCHANGED buried
                   ELSE buried' = TRUE /\ UNCHANGED wal
    /\ sized' = TRUE

\* The second write, and the fsync if there is one.
WritePayload ==
    /\ pc = "payload"
    /\ Complete
    /\ pc' = "page"
    /\ UNCHANGED <<file, catalogFile, known, lastTS, page, call, flushing, query,
                   history>>

\* EventsPage.AddEvent accepts any order; UpdateLastByEventID.
AddToPage ==
    LET p == PartOf[call.ts] IN
    /\ pc = "page"
    /\ page' = [page EXCEPT ![p] = Append(@, CallEvent)]
    /\ lastTS' = [lastTS EXCEPT ![idToName[CallEvent.id]] =
                                    IF call.ts >= @ THEN call.ts ELSE @]
    /\ \/ /\ ~MustFlush(p)
          /\ Return(TRUE)
       \/ /\ pc' = "flush" /\ flushing' = p
          /\ UNCHANGED <<call, answered>>
    /\ UNCHANGED <<disk, known, sized, query, given, unnamed, crashes, faults, queries>>

\* A write or the fsync fails: the name stays registered, the page has no event,
\* and of the record nothing, a part or all of it is in the log.
AppendFails ==
    /\ pc \in {"append", "payload"}
    /\ faults < limit.faults
    /\ faults' = faults + 1
    /\ \/ UNCHANGED <<log, sized>>
       \/ pc = "append" /\ torn' = torn + 1 /\ UNCHANGED <<wal, buried, sized>>
       \/ pc = "payload" /\ Complete
    /\ unnamed' = (unnamed \/ (call.fresh /\ torn = 0 /\ torn' = 0))
    /\ Return(FALSE)
    /\ UNCHANGED <<file, catalogFile, known, lastTS, page, query, given, crashes,
                   queries>>

-----------------------------------------------------------------------------
(* Writing pages, resetting the log: AddEvent, flushDatabasesLocked, Close. *)

BeginDrain(op) ==
    /\ pc = "idle"
    /\ pc' = "drain"
    /\ call' = [NoCall EXCEPT !.op = op]
    /\ UNCHANGED <<disk, memory, flushing, query, history>>

DrainPage(p) ==
    /\ pc = "drain"
    /\ page[p] # <<>>
    /\ pc' = "flush" /\ flushing' = p
    /\ UNCHANGED <<disk, memory, call, query, history>>

DrainDone ==
    /\ pc = "drain"
    /\ page = NoPages
    /\ pc' = "reset"
    /\ UNCHANGED <<disk, memory, call, flushing, query, history>>

\* AppendEventsPageFrame, then the caller drops the page.
AppendFrame ==
    /\ pc = "flush"
    /\ file' = [file EXCEPT ![flushing] = Append(@, page[flushing])]
    /\ page' = [page EXCEPT ![flushing] = <<>>]
    /\ pc' = IF call.op = "add" THEN "reset" ELSE "drain"
    /\ query' = [query EXCEPT !.due = @ \ {e.val : e \in Range(page[flushing])}]
    /\ UNCHANGED <<log, catalogFile, known, lastTS, sized, call, flushing, history>>

\* maybeResetEventsWAL goes on only when no page has an event.
ResetAtOnce == TRUE  \* faulty: open pages not looked at
MayReset    == page = NoPages

\* events.json is written before the log goes.
LogFirst     == FALSE  \* faulty
CatalogFirst == dirty

AfterReset ==
    IF call.op = "close" THEN pc' = "persist" /\ UNCHANGED <<call, flushing, answered>>
    ELSE Return(TRUE)

KeepWAL ==
    /\ pc = "reset" /\ ~MayReset
    /\ AfterReset
    /\ UNCHANGED <<disk, memory, query, given, unnamed, crashes, faults, queries>>

CatalogBeforeReset ==
    /\ pc = "reset" /\ MayReset /\ CatalogFirst
    /\ catalogFile' = catalog /\ dirty' = FALSE
    /\ UNCHANGED <<log, file, catalog, idToName, lastTS, page, sized, pc, call, flushing,
                   query, history>>

\* Reset leaves the file alone while bufferSize is zero: at most torn records are
\* in it then.
ResetWAL ==
    /\ pc = "reset" /\ MayReset /\ ~CatalogFirst
    /\ IF sized THEN wal' = <<>> /\ torn' = 0 /\ buried' = FALSE /\ sized' = FALSE
                ELSE UNCHANGED <<log, sized>>
    /\ AfterReset
    /\ UNCHANGED <<file, catalogFile, known, lastTS, page, query, given, unnamed, crashes,
                   faults, queries>>

\* The end of Close: the catalog, if still dirty, and the files.
PersistCatalog ==
    /\ pc = "persist"
    /\ catalogFile' = IF dirty THEN catalog ELSE catalogFile
    /\ LoseMemory
    /\ UNCHANGED <<log, file, history>>

\* A frame, its fsync, events.json or the reset fails.  The frame may be in the
\* file; the page stays.  Close goes on to the catalog, other calls return.
WriteFails ==
    /\ pc \in {"flush", "reset", "persist"}
    /\ pc = "reset" => MayReset /\ (dirty \/ sized)
    /\ pc = "persist" => dirty
    /\ faults < limit.faults
    /\ faults' = faults + 1
    /\ file' \in {file} \cup IF pc = "flush"
                             THEN {[file EXCEPT ![flushing] = Append(@, page[flushing])]}
                             ELSE {}
    /\ IF pc = "persist" THEN LoseMemory /\ UNCHANGED answered
       ELSE /\ IF call.op = "close"
               THEN pc' = "persist" /\ UNCHANGED <<call, flushing, answered>>
               ELSE Return(FALSE)
            /\ UNCHANGED <<memory, query>>
    /\ UNCHANGED <<log, catalogFile, given, unnamed, crashes, queries>>

Crash ==
    /\ pc # "down"
    /\ crashes < limit.crashes
    /\ crashes' = crashes + 1
    /\ LoseMemory
    /\ UNCHANGED <<disk, given, answered, unnamed, faults, queries>>

-----------------------------------------------------------------------------
(* QueryEvents: the files in order of their partitions, then the open       *)
(* pages.  It shares the maps and pages with the writer; where the runtime  *)
(* notices, it aborts the process, which is Crash.                          *)

Matches(e) == e.ts >= query.from /\ (query.name = NoName \/ e.id = catalog[query.name].id)

\* A frame is decoded only when its range and its ids can match.
Selected(f) ==
    /\ FrameEnd(f) >= query.from
    /\ query.name # NoName => catalog[query.name].id \in FrameIds(f)

Matching(s) == Kept(s, {k \in DOMAIN s : Matches(s[k])})
FoundIn(frames) ==
    LET found[f \in 0..Len(frames)] ==
            IF f = 0 THEN <<>>
            ELSE IF Selected(frames[f]) THEN found[f - 1] \o Matching(frames[f])
                 ELSE found[f - 1]
    IN  found[Len(frames)]

NextPart(ps) == CHOOSE p \in ps : \A r \in ps : p <= r
AllStored    == UNION {Range(page[p]) \cup UNION {Range(f) : f \in Range(file[p])} :
                           p \in Partition}

\* n is the name asked for or none; only its id and the range limit the answer.
QueryStart(n, from) ==
    LET asked(e) == e.ts >= from /\ (n = NoName \/ e.id = catalog[n].id) IN
    /\ pc # "down" /\ query = NoQuery
    /\ queries < limit.queries
    /\ n # NoName => Known(n)
    /\ query' = [phase |-> "files", name |-> n, from |-> from,
                 parts |-> {p \in Partition : file[p] # <<>>}, got |-> <<>>,
                 due |-> {e.val : e \in {e \in AllStored : asked(e)}}]
    /\ queries' = queries + 1
    /\ UNCHANGED <<disk, memory, pc, call, flushing, given, answered, unnamed, crashes,
                   faults>>

ReadFile ==
    LET p == NextPart(query.parts) IN
    /\ query.phase = "files" /\ query.parts # {}
    /\ query' = [query EXCEPT !.parts = @ \ {p}, !.got = @ \o FoundIn(file[p])]
    /\ UNCHANGED <<disk, memory, pc, call, flushing, history>>

FilesRead ==
    /\ query.phase = "files" /\ query.parts = {}
    /\ query' = [query EXCEPT !.phase = "pages",
                              !.parts = {p \in Partition : page[p] # <<>>}]
    /\ UNCHANGED <<disk, memory, pc, call, flushing, history>>

ReadPage ==
    LET p == NextPart(query.parts) IN
    /\ query.phase = "pages" /\ query.parts # {}
    /\ query' = [query EXCEPT !.parts = @ \ {p}, !.got = @ \o Matching(page[p])]
    /\ UNCHANGED <<disk, memory, pc, call, flushing, history>>

QueryDone == query.phase = "pages" /\ query.parts = {}

QueryReturn ==
    /\ QueryDone
    /\ query' = NoQuery
    /\ UNCHANGED <<disk, memory, pc, call, flushing, history>>

-----------------------------------------------------------------------------
Write ==
    \/ Open \/ OpenFails
    \/ \E n \in EventName, t \in ValueType, ts \in Timestamp : BeginAdd(n, t, ts)
    \/ WriteLength \/ WritePayload \/ AppendFails \/ AddToPage
    \/ \E op \in {"flush", "close"} : BeginDrain(op)
    \/ \E p \in Partition : DrainPage(p)
    \/ DrainDone \/ AppendFrame
    \/ KeepWAL \/ CatalogBeforeReset \/ ResetWAL \/ PersistCatalog
    \/ WriteFails \/ Crash

Query ==
    \/ \E n \in EventName \cup {NoName}, from \in QueryFrom : QueryStart(n, from)
    \/ ReadFile \/ FilesRead \/ ReadPage \/ QueryReturn

Next == Write \/ Query

Spec == Init /\ [][Next]_vars
-----------------------------------------------------------------------------
(* What the events layer promises.                                         *)

\* Where the event of call v is stored: frames of the files and open pages.
Places(v) ==
    LET frames == [p \in Partition |-> Append(file[p], page[p])] IN
    UNION {UNION {{<<p, f, k>> : k \in {k \in DOMAIN frames[p][f] :
                                          frames[p][f][k].val = v}}
                    : f \in DOMAIN frames[p]} : p \in Partition}

Acked  == {a \in answered : a.ok}
Calm   == crashes = 0 /\ faults = 0
\* A crash may cost the events at or below the largest timestamp of their
\* partition's file, which were not the newest when submitted, and the ones logged
\* behind a torn record.
Safe   == {a \in Acked : Calm \/ a.val \in newest}

\* Between calls every such event is stored, and stored once unless a write
\* failed: no crash, flush or replay loses one or takes it from both the log and
\* a frame.
EveryAckedEventKept ==
    pc = "idle" => \A a \in Safe :
        /\ Places(a.val) # {}
        /\ faults = 0 => Cardinality(Places(a.val)) = 1

\* docs/EVENTS.md, rules 1 to 4: an event is found under the name and read with the
\* value type it was written with, whichever of events.json and the log told
\* the catalog of them; frames hold only the id.  Not so an event whose record was
\* logged behind a torn one, and no event once an append that was to name one has
\* failed: later records of that name carry only its id.
EventsKeepTheirName ==
    pc = "idle" /\ ~unnamed =>
        \A a \in answered, e \in AllStored :
            e.val = a.val /\ a.val \notin behind => \A n \in EventName :
                IF n = a.name THEN catalog[n] = [id |-> e.id, type |-> a.type]
                              ELSE catalog[n].id # e.id

\* docs/EVENTS.md, rules 1 and 2, as far as the code keeps them: whatever a crash or
\* a failed write leaves, events.json and the log between them name every id, and
\* the next open succeeds.  There are two exceptions.  A call that was the first of
\* its name failed without a trace: the next one logs the id alone (AddEvent looks
\* only at the catalog).  And a record was logged behind a torn one: the decoder
\* takes its bytes for the torn record's payload and returns an error.
AlwaysReplays ==
    pc = "down" => /\ ~unnamed => Replayable
                   /\ behind = {} => ~Misaligned

\* A query returns no event twice, and every matching one that was stored when
\* it began and stayed where it was; one whose page is written meanwhile may be
\* missed, because its file was read before and its page is read after.
QueryIsExact ==
    QueryDone =>
        LET vals == {e.val : e \in Range(query.got)} IN
        /\ query.due \subseteq vals
        /\ faults = 0 => Cardinality(vals) = Len(query.got)
        /\ \A e \in Range(query.got) : e.ts >= query.from

\* The store implements SampleLog for the events that were the newest of their
\* partition and logged behind no torn record: what is stored is what the log and
\* the files hold between them.
Log == INSTANCE SampleLog WITH
    Sample <- UNION {1..l.calls : l \in Limits},
    stored <- (newest \ {a.val : a \in answered \ Acked}) \cap
                  ({r.event.val : r \in Range(wal)} \cup
                   UNION {UNION {{e.val : e \in Range(f)} : f \in Range(file[p])} :
                              p \in Partition}),
    acked  <- newest \cap {a.val : a \in Acked}
LogSpec == Log!Spec
=============================================================================
