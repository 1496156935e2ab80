---------------------------- MODULE EngineTopics ----------------------------
(***************************************************************************)
(* The process that follows the engine's topics (pkg/kafka/consumer): each *)
(* message is handed to the FIX acceptor and to the engine service at      *)
(* once.  They share the process, which a panic of the acceptor ends for   *)
(* both, and what the engine writes to MongoDB, which both read.           *)
(***************************************************************************)
EXTENDS FixSessions

CONSTANTS Subs, Clients, Expired, Public, Replies, MaxAsked

VARIABLES engineLog, quote, subscribed, work, stale, lost, heard, newest,
          excused

Redis == INSTANCE EngineService

acceptor == <<running, memory, ghosts>>
service == <<engineLog, quote, subscribed, work, stale, lost, heard, newest,
             excused>>
all == <<engine, acceptor, service>>

InitBoth == Init /\ Redis!Init

AcceptorStep == running /\ Acceptor /\ UNCHANGED service
ServiceStep == running /\ Redis!Service /\ UNCHANGED acceptor
EngineStep == running /\ EngineNext /\ UNCHANGED <<acceptor, service>>

NextBoth == AcceptorStep \/ ServiceStep \/ EngineStep

SpecBoth == InitBoth /\ [][NextBoth]_all

-----------------------------------------------------------------------------
(* Properties of the process.                                              *)

(* All variables have their types.                                         *)
TypesOK == TypeOK /\ Redis!TypeOK

(* The lists of messages in Redis have what they should, see EngineService.*)
LogKept == Redis!LogKept

(* A subscriber to quote.<instrument> has been sent every change that was  *)
(* handled, but for what EngineService excepts.                            *)
QuoteSettles == Redis!QuoteSettles

(* A quote made for one client is never broadcast to others.               *)
PrivateViewOnlyInitially == Redis!PrivateViewOnlyInitially

(* Quotes are computed for FIX sessions and for WebSocket clients by two   *)
(* goroutines, from two readings of the book.  Whatever else they do, what *)
(* either sends because of a change that is saved has that change in it,   *)
(* unless a query for that very quote failed: then it has no book or half  *)
(* of one, never an older one.                                             *)
Feed == INSTANCE FreshFeed WITH Receivers <- Sessions \cup Subs,
                                shown <- QuoteReports \cup Redis!QuoteUpdates

QuotesAreFresh == Feed!Spec
=============================================================================
