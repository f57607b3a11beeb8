---------------------------- MODULE ThreatIntel ----------------------------
(***************************************************************************)
(* ThreatIntel::IOCManager, IOCMatcher and ThreatIntelEngine::ingestFeed():*)
(* a numbered table of indicators of compromise (IOCs), an index by which  *)
(* observed values are matched, and the ingestion of feeds, which adds to  *)
(* the table and then copies to the index what it takes for new: every     *)
(* number above the size of the table when it began.  Table and index have *)
(* a lock each, and an ingestion takes them for one IOC at a time.         *)
(* A value is a sequence of characters, "://" among them; domains are in   *)
(* lower case.  Hashes, mail addresses and paths are one type, confidence  *)
(* and scores are left out.                                                *)
(***************************************************************************)
EXTENDS Positions

CONSTANTS Ingesting,        \* threads that ingest a feed or load the matcher
          Feeds,            \* what feeds hold once parsed: sequences of IOCs
          ByHand,           \* IOCs entered and replaced by hand
          ChosenIds,        \* numbers given by hand
          Observed,         \* values looked up
          MaxIOCId, MaxIngests \* bounds

Types == {"Exact", "Domain", "IP", "URL"}
IOC   == [type : Types, value : Seq(STRING), active : BOOLEAN]

ThreatIntelAssumption ==
  /\ MaxIOCId \in Nat /\ MaxIngests \in Nat /\ ChosenIds \subseteq 1..MaxIOCId
  /\ Feeds \subseteq Seq(IOC) /\ ByHand \subseteq IOC /\ Observed \subseteq Seq(STRING)
  /\ \A f \in Feeds : \A i \in DOMAIN f : f[i].active

VARIABLES
  iocs,             \* IOCManager::iocs_
  nextIOCId,        \* IOCManager::nextId_
  index,            \* the matcher's maps and its trie: entries [map, key, id]
  iocStore,         \* IOCMatcher::iocStore_
  ingest,           \* what each thread is doing
  begun,            \* ingestions and loads begun, for MaxIngests
  ingested,         \* history: ids that ingestions added which have ended
  disturbed         \* history: ids removed, replaced or cleared away since

threatIntelVars == <<iocs, nextIOCId, index, iocStore, ingest, begun, ingested, disturbed>>
managing == <<iocs, nextIOCId>>
matching == <<index, iocStore>>

Call(at, before, feed, copy) ==
  [at |-> at, before |-> before, feed |-> feed, added |-> {}, copy |-> copy]
Idle == Call("idle", 0, <<>>, {})

Init == /\ iocs = <<>> /\ nextIOCId = 1 /\ index = {} /\ iocStore = <<>>
        /\ ingest = [t \in Ingesting |-> Idle] /\ begun = 0
        /\ ingested = {} /\ disturbed = {}
-----------------------------------------------------------------------------
(* Values and what the matcher makes of them                               *)

IsURL(v) == "://" \in ToSet(v)
Upto(v, c) == IF c \in ToSet(v) THEN SubSeq(v, 1, SelectInSeq(v, LAMBDA x : x = c) - 1) ELSE v
(* What follows "://", up to a path or a port.                             *)
Host(v) == Upto(Upto(SubSeq(v, SelectInSeq(v, LAMBDA x : x = "://") + 1, Len(v)), "/"), ":")
(* The domain itself or one below it.                                      *)
Under(v, domain) == v = domain \/ IsSuffix(<<".">> \o domain, v)

Entry(map, key, id) == [map |-> map, key |-> key, id |-> id]
(* IOCMatcher::addIOC(): a URL is found by its domain, too.                *)
Entries(id, ioc) ==
  {Entry(ioc.type, ioc.value, id)}
    \cup (IF ioc.type = "URL" /\ IsURL(ioc.value) THEN {Entry("Domain", Host(ioc.value), id)} ELSE {})

Listed(map, key) == {e.id : e \in {x \in index : x.map = map /\ x.key = key}}
DomainIds(v) == {e.id : e \in {x \in index : x.map = "Domain" /\ Under(v, x.key)}}

(* searchTrie(): the walk goes as far as some inserted key shares the way, *)
(* and collects at every node it comes by, the last among them.            *)
Reached(v)   == {n \in 0..Len(v) : \E e \in index : e.map = "IP" /\ IsPrefix(SubSeq(v, 1, n), e.key)}
ShortOfLast(v) == UNION {Listed("IP", SubSeq(v, 1, n)) :      \* slip: not the last node
                           n \in {m \in Reached(v) : m + 1 \in Reached(v)}}
SearchTrie(v)  == UNION {Listed("IP", SubSeq(v, 1, n)) : n \in Reached(v)}

MatchURL(v) == Listed("URL", v) \cup (IF IsURL(v) THEN DomainIds(Host(v)) ELSE {})
MatchAll(v) == (Listed("Exact", v) \cup DomainIds(v) \cup SearchTrie(v) \cup MatchURL(v))
                 \cap DOMAIN iocStore
-----------------------------------------------------------------------------
With(f, id, ioc) == [i \in DOMAIN f \cup {id} |-> IF i = id THEN ioc ELSE f[i]]

(* IOCManager: 0 asks for a number; one that is taken is refused.          *)
Refused(id, ioc) == ioc.value = <<>> \/ id \in DOMAIN iocs
Number(id)       == IF id = 0 THEN nextIOCId ELSE id
AddIOC(id, ioc) ==
  IF Refused(id, ioc) THEN UNCHANGED managing
  ELSE /\ Number(id) <= MaxIOCId
       /\ iocs' = With(iocs, Number(id), ioc)
       /\ nextIOCId' = IF Number(id) >= nextIOCId THEN Number(id) + 1 ELSE nextIOCId

AddByHand(id, ioc) == AddIOC(id, ioc) /\ UNCHANGED <<matching, ingest, begun, ingested, disturbed>>

RemoveIOC(id) ==
  /\ iocs' = [i \in DOMAIN iocs \ {id} |-> iocs[i]]
  /\ disturbed' = disturbed \cup {id}
  /\ UNCHANGED <<nextIOCId, matching, ingest, begun, ingested>>

UpdateIOC(id, ioc) ==
  /\ ioc.value # <<>>
  /\ iocs' = [iocs EXCEPT ![id] = ioc]
  /\ disturbed' = disturbed \cup {id}
  /\ UNCHANGED <<nextIOCId, matching, ingest, begun, ingested>>

(* IOCManager::clear(): numbers go on.                                     *)
ClearManager ==
  /\ iocs # <<>> /\ iocs' = <<>> /\ disturbed' = disturbed \cup DOMAIN iocs
  /\ UNCHANGED <<nextIOCId, matching, ingest, begun, ingested>>

ClearMatcher ==
  /\ iocStore # <<>> /\ index' = {} /\ iocStore' = <<>>
  /\ disturbed' = disturbed \cup DOMAIN iocStore
  /\ UNCHANGED <<managing, ingest, begun, ingested>>
-----------------------------------------------------------------------------
(* ThreatIntelEngine::ingestFeed() reads the size first.                   *)
IngestFeed(t, feed) ==
  /\ ingest[t].at = "idle" /\ begun < MaxIngests /\ begun' = begun + 1
  /\ ingest' = [ingest EXCEPT ![t] = Call("adding", Cardinality(DOMAIN iocs), feed, {})]
  /\ UNCHANGED <<managing, matching, ingested, disturbed>>

(* ThreatFeedManager::processFeedData() adds one IOC after the other.      *)
AddNext(t) ==
  /\ ingest[t].at = "adding" /\ ingest[t].feed # <<>>
  /\ LET c   == ingest[t]
         ioc == Head(c.feed)
     IN /\ AddIOC(0, ioc)
        /\ ingest' = [ingest EXCEPT ![t] = [c EXCEPT !.feed = Tail(c.feed),
                        !.added = IF Refused(0, ioc) THEN c.added ELSE c.added \cup {nextIOCId}]]
  /\ UNCHANGED <<matching, begun, ingested, disturbed>>

(* getActiveIOCs() copies, and those above the size are to be entered.     *)
Active == {id \in DOMAIN iocs : iocs[id].active}
BeyondLast(before) == {id \in Active : id > before + 1}       \* slip: off by one
NewSince(before)   == {id \in Active : id > before}
Copy(ids) == {<<id, iocs[id]>> : id \in ids}
CopyNew(t) ==
  /\ ingest[t].at = "adding" /\ ingest[t].feed = <<>>
  /\ ingest' = [ingest EXCEPT ![t] = [@ EXCEPT !.at = "entering",
                  !.copy = IF ingest[t].added = {} THEN {} ELSE Copy(NewSince(ingest[t].before))]]
  /\ UNCHANGED <<managing, matching, begun, ingested, disturbed>>

(* IOCMatcher::loadIOCs() enters all that are active.                      *)
LoadIOCs(t) ==
  /\ ingest[t].at = "idle" /\ begun < MaxIngests /\ begun' = begun + 1
  /\ ingest' = [ingest EXCEPT ![t] = Call("entering", 0, <<>>, Copy(Active))]
  /\ UNCHANGED <<managing, matching, ingested, disturbed>>

(* IOCMatcher::addIOC(): the content is replaced, old entries stay.        *)
EnterIOC(t) ==
  /\ ingest[t].at = "entering"
  /\ \E c \in ingest[t].copy :
       /\ iocStore' = With(iocStore, c[1], c[2])
       /\ index' = index \cup Entries(c[1], c[2])
       /\ ingest' = [ingest EXCEPT ![t].copy = @ \ {c}]
  /\ UNCHANGED <<managing, begun, ingested, disturbed>>

IngestReturns(t) ==
  /\ ingest[t].at = "entering" /\ ingest[t].copy = {}
  /\ ingested' = ingested \cup ingest[t].added
  /\ ingest' = [ingest EXCEPT ![t] = Idle]
  /\ UNCHANGED <<managing, matching, begun, disturbed>>

Next ==
  \/ \E id \in ChosenIds \cup {0}, ioc \in ByHand : AddByHand(id, ioc)
  \/ \E id \in DOMAIN iocs : RemoveIOC(id) \/ \E ioc \in ByHand : UpdateIOC(id, ioc)
  \/ ClearManager \/ ClearMatcher
  \/ \E t \in Ingesting :
       \/ \E feed \in Feeds : IngestFeed(t, feed)
       \/ AddNext(t) \/ CopyNew(t) \/ LoadIOCs(t) \/ EnterIOC(t) \/ IngestReturns(t)

Spec == Init /\ [][Next]_threatIntelVars
-----------------------------------------------------------------------------
ThreatIntelTypeOK ==
  /\ DOMAIN iocs \subseteq 1..MaxIOCId /\ nextIOCId \in 1..MaxIOCId + 1
  /\ \A e \in index : e.map \in Types /\ e.id \in DOMAIN iocStore
  /\ \A t \in Ingesting : ingest[t].at \in {"idle", "adding", "entering"}

(* What an observed value has to do with an IOC, by IOCMatcher.h.          *)
Covers(ioc, v) ==
  LET domain == IF ioc.type = "URL" THEN Host(ioc.value) ELSE ioc.value
  IN \/ v = ioc.value
     \/ ioc.type = "IP" /\ IsPrefix(ioc.value, v)
     \/ /\ ioc.type = "Domain" \/ (ioc.type = "URL" /\ IsURL(ioc.value))
        /\ Under(v, domain) \/ (IsURL(v) /\ Under(Host(v), domain))

(* Once ingestFeed() has returned, every IOC it added that nobody removed, *)
(* replaced or cleared away since is in the table and is matched, with its *)
(* content, by exactly the values it covers, although the number it got    *)
(* and the size it is compared with drift apart as IOCs are removed, added *)
(* under chosen numbers and ingested by other threads in between.          *)
IngestedFound ==
  \A id \in ingested \ disturbed :
    /\ id \in DOMAIN iocs /\ id \in DOMAIN iocStore /\ iocStore[id] = iocs[id]
    /\ \A v \in Observed : id \in MatchAll(v) <=> Covers(iocs[id], v)
=============================================================================
