--------------------------------- MODULE Hub ----------------------------------
(***************************************************************************)
(* hub.Hub: one layer-2 broadcast domain.  Sessions join and leave, learn   *)
(* and look up MAC addresses, and forward frames, each in several critical  *)
(* sections of h.mu: what a Forward read under one lock may be stale under  *)
(* the next.  The caller's per-session orderMu admits one Forward per       *)
(* session at a time; Forwards of different sessions interleave, and a      *)
(* Forward may outlive the session's membership, because handleData looked  *)
(* the session up before it was removed.                                    *)
(*                                                                          *)
(* Time is counted in minutes.  The learned IP address and the flap         *)
(* counter, which only feed the status page and the log, are left out.      *)
(***************************************************************************)
EXTENDS Integers, FiniteSets

CONSTANTS
    Sessions,      \* session identifiers
    Macs,          \* unicast MAC addresses
    Group,         \* a broadcast or multicast address
    NoSession,          \* no entry
    macTableTTL,   \* minutes a learned entry is good for (5)
    refreshBelow,  \* an entry with less than this left is written again (1)
    Loads          \* bounds: [forwarders, minutes]: the sessions that send
                   \* frames, and how long the clock runs

Entry == [sess : Sessions, left : -1 .. macTableTTL]

ASSUME HubAssumption ==
    /\ macTableTTL \in Nat /\ refreshBelow \in Nat
    /\ 0 < refreshBelow /\ refreshBelow < macTableTTL
    /\ NoSession \notin Sessions \cup Entry \cup Nat
    /\ Macs # {} /\ Group \notin Macs
    /\ \A l \in Loads : l.forwarders \subseteq Sessions /\ l.minutes \in Nat

VARIABLES
    load,       \* the bounds of this behaviour
    clients,    \* h.clients: the sessions that joined
    macTable,   \* h.macTable: [sess, left] per known address, else NoSession
    fwd,        \* per session, the Forward in progress
    clock,      \* minutes since the hub was created
    quiet       \* history: minutes since the address was last a source

hubVars == <<load, clients, macTable, fwd, clock, quiet>>

\* pc: the next critical section; dstEntry: the session found for the
\* destination; to: the sessions the frame was sent to.  steady (who was a member
\* throughout) and named (what the table said of the destination meanwhile) are
\* history.
Forwarding == [pc : {"idle", "learn", "route", "flood", "sent"},
               src : Macs, dst : Macs \cup {Group},
               dstEntry : Sessions \cup {NoSession}, to : SUBSET Sessions,
               steady : SUBSET Sessions,
               named : SUBSET (Sessions \cup {NoSession})]

Idle == [pc |-> "idle", src |-> CHOOSE m \in Macs : TRUE, dst |-> Group,
         dstEntry |-> NoSession, to |-> {}, steady |-> {}, named |-> {}]

-------------------------------------------------------------------------------

HubInit ==
    /\ load \in Loads
    /\ clients = {}
    /\ macTable = [m \in Macs |-> NoSession]
    /\ fwd = [s \in Sessions |-> Idle]
    /\ clock = 0
    /\ quiet = [m \in Macs |-> NoSession]

\* The session an entry names.
SessionOf(e) == IF e = NoSession THEN NoSession ELSE e.sess

Lookup(table, dst) == IF dst = Group THEN NoSession ELSE SessionOf(table[dst])

\* History of every Forward in progress after a change of membership or table.
Watch(f, members, table) ==
    IF f.pc \in {"idle", "sent"} THEN f
    ELSE [f EXCEPT !.steady = @ \cap members,
                   !.named = @ \cup {Lookup(table, f.dst)}]

WatchAll(fs, members, table) == [s \in Sessions |-> Watch(fs[s], members, table)]

Join(s) ==
    /\ s \notin clients
    /\ clients' = clients \cup {s}
    /\ fwd' = WatchAll(fwd, clients', macTable)
    /\ UNCHANGED <<load, macTable, clock, quiet>>

Leave(s) ==
    /\ s \in clients
    /\ clients' = clients \ {s}
    /\ fwd' = WatchAll(fwd, clients', macTable)
    /\ UNCHANGED <<load, macTable, clock, quiet>>

\* Mutant of NeedUpdate: an entry is never refreshed.
NeedUpdate_NoRefresh(s, src) == macTable[src] = NoSession \/ macTable[src].sess # s

\* needUpdate: the source is unknown, known elsewhere, or about to expire.
NeedUpdate(s, src) ==
    \/ macTable[src] = NoSession
    \/ macTable[src].sess # s
    \/ macTable[src].left < refreshBelow

\* Whether a frame has a unicast destination the table knows.
Next_pc(entry) == IF entry = NoSession THEN "flood" ELSE "route"

\* Forward, first critical section (read lock): source and destination entries.
Begin(s, src, dst) ==
    /\ fwd[s].pc = "idle"
    /\ LET entry == Lookup(macTable, dst)
       IN fwd' = [fwd EXCEPT ![s] =
            [pc |-> IF NeedUpdate(s, src) THEN "learn" ELSE Next_pc(entry),
             src |-> src, dst |-> dst, dstEntry |-> entry, to |-> {},
             steady |-> clients, named |-> {entry}]]
    /\ quiet' = IF NeedUpdate(s, src) THEN quiet ELSE [quiet EXCEPT ![src] = 0]
    /\ UNCHANGED <<load, clients, macTable, clock>>

\* Forward, slow path (write lock): learn the source, read the destination again.
Learn(s) ==
    /\ fwd[s].pc = "learn"
    /\ macTable' = [macTable EXCEPT
                      ![fwd[s].src] = [sess |-> s, left |-> macTableTTL]]
    /\ LET entry == Lookup(macTable', fwd[s].dst)
       IN fwd' = WatchAll([fwd EXCEPT ![s].pc = Next_pc(entry),
                                      ![s].dstEntry = entry], clients, macTable')
    /\ quiet' = [quiet EXCEPT ![fwd[s].src] = 0]
    /\ UNCHANGED <<load, clients, clock>>

\* Mutants of Route: the frame is dropped when the destination has left, flooded
\* when the destination is the source itself.
Route_DropStale(s) ==
    /\ fwd[s].pc = "route"
    /\ fwd' = [fwd EXCEPT ![s].pc = "sent",
                          ![s].to = ({fwd[s].dstEntry} \cap clients) \ {s}]
    /\ UNCHANGED <<load, clients, macTable, clock, quiet>>

Route_FloodSelf(s) ==
    /\ fwd[s].pc = "route"
    /\ LET c == fwd[s].dstEntry
       IN fwd' = [fwd EXCEPT
            ![s].pc = IF c \in clients \ {s} THEN "sent" ELSE "flood",
            ![s].to = {c} \cap (clients \ {s})]
    /\ UNCHANGED <<load, clients, macTable, clock, quiet>>

\* Forward to a known unicast destination (read lock): the frame goes to the
\* session of the entry, nowhere when that is the source itself, and is flooded
\* when the entry's session has left.
Route(s) ==
    /\ fwd[s].pc = "route"
    /\ LET c == fwd[s].dstEntry
       IN fwd' = [fwd EXCEPT
            ![s].pc = IF c \in clients THEN "sent" ELSE "flood",
            ![s].to = IF c \in clients /\ c # s THEN {c} ELSE {}]
    /\ UNCHANGED <<load, clients, macTable, clock, quiet>>

\* Forward to everyone but the source (read lock for the list of targets).
Flood(s) ==
    /\ fwd[s].pc = "flood"
    /\ fwd' = [fwd EXCEPT ![s].pc = "sent", ![s].to = clients \ {s}]
    /\ UNCHANGED <<load, clients, macTable, clock, quiet>>

\* Forward returns.
Return(s) ==
    /\ fwd[s].pc = "sent"
    /\ fwd' = [fwd EXCEPT ![s] = Idle]
    /\ UNCHANGED <<load, clients, macTable, clock, quiet>>

\* The ticker of StartMACPurge: entries past their expiry are deleted.
purgeMACTable ==
    /\ \E m \in Macs : macTable[m] # NoSession /\ macTable[m].left < 0
    /\ macTable' = [m \in Macs |-> IF macTable[m] # NoSession /\ macTable[m].left < 0
                                   THEN NoSession ELSE macTable[m]]
    /\ fwd' = WatchAll(fwd, clients, macTable')
    /\ UNCHANGED <<load, clients, clock, quiet>>

\* A minute passes.  An expired entry is not told apart from a longer expired one.
Minute ==
    /\ clock < load.minutes
    /\ clock' = clock + 1
    /\ macTable' = [m \in Macs |-> IF macTable[m] # NoSession /\ macTable[m].left >= 0
                                   THEN [macTable[m] EXCEPT !.left = @ - 1]
                                   ELSE macTable[m]]
    /\ quiet' = [m \in Macs |-> IF quiet[m] = NoSession \/ quiet[m] > refreshBelow
                                THEN quiet[m] ELSE quiet[m] + 1]
    /\ UNCHANGED <<load, clients, fwd>>

HubNext ==
    \/ \E s \in Sessions : Join(s) \/ Leave(s)
    \/ \E s \in load.forwarders, src \in Macs, dst \in Macs \cup {Group} : Begin(s, src, dst)
    \/ \E s \in load.forwarders : Learn(s) \/ Route(s) \/ Flood(s) \/ Return(s)
    \/ purgeMACTable
    \/ Minute

HubSpec == HubInit /\ [][HubNext]_hubVars

-------------------------------------------------------------------------------

\* The type invariant of the hub: entries name sessions and never have more than
\* macTableTTL left.
HubTypeOK ==
    /\ clients \subseteq Sessions /\ clock \in 0 .. load.minutes
    /\ macTable \in [Macs -> Entry \cup {NoSession}]
    /\ fwd \in [Sessions -> Forwarding]
    /\ quiet \in [Macs -> (0 .. refreshBelow + 1) \cup {NoSession}]

Done(s) == fwd[s].pc = "sent"

\* A frame is neither echoed nor silently dropped: a finished Forward reached
\* every session that was a member throughout, or exactly the session the table
\* named for the destination at some moment of the Forward, which may be the
\* source itself, learned or moved while the Forward was under way; and it never
\* reached the session it came from.
ReachesDestination ==
    \A s \in Sessions : Done(s) =>
        /\ s \notin fwd[s].to
        /\ \/ fwd[s].steady \ {s} \subseteq fwd[s].to
           \/ /\ fwd[s].dst # Group
              /\ \E c \in fwd[s].named \cap Sessions : fwd[s].to = {c} \ {s}

\* A unicast frame reaches a session the table did not name only if, during the
\* Forward, the table had no entry for its destination or named a session that
\* was gone: learned traffic does not leak to third parties.
FloodsOnlyTheUnknown ==
    \A s \in Sessions : Done(s) /\ fwd[s].dst # Group =>
        \/ fwd[s].to \subseteq fwd[s].named
        \/ fwd[s].named \ fwd[s].steady # {}

\* An address that was a source within the last minute is in the table and not
\* expired, so unicast to an active station is never flooded by a purge: the
\* refresh threshold and the purge do not leave a gap between them.
TalkersStayKnown ==
    \A m \in Macs : quiet[m] \in 0 .. refreshBelow =>
        macTable[m] # NoSession /\ macTable[m].left >= 0
===============================================================================
