--------------------------- MODULE MessageReading ---------------------------
(***************************************************************************)
(* The handlers of the message service that show what MessagePipeline      *)
(* stores: GetHistoryMsg, GetRecentMsg and MsgSearch of                    *)
(* server/message/source/message_server.hpp, with the queries of           *)
(* mysql_message.hpp and data_es.hpp and the reading half of               *)
(* server/file/source/file_server.hpp.                                     *)
(*                                                                         *)
(* A handler queries MySQL or elasticsearch, then fetches the files, then  *)
(* the users, while the event loop goes on storing.  Handlers only read,   *)
(* so one at a time is enough.                                             *)
(***************************************************************************)
EXTENDS MessagePipeline

CONSTANT PageSizes   \* msg_count of GetRecentMsg

ASSUME ReadingAssumption == PageSizes \subseteq Nat \ {0}

VARIABLES
  kind, call, page   \* a handler: what it serves, its next call, what it found

reader == <<kind, call, page>>
allVars == <<vars, reader>>

Kinds == {"none", "history", "recent", "search"}
Calls == {"none", "files", "users"}

(* A call is to be made for a page, and a page is never empty: an empty    *)
(* one is answered at once.                                                *)
ReadingTypeOK ==
  /\ TypeOK
  /\ kind \in Kinds /\ call \in Calls /\ page \subseteq Messages
  /\ (kind = "none") <=> (call = "none")
  /\ (kind = "none") <=> (page = {})
  /\ kind = "search" => (call = "users" /\ page \subseteq Texts)

ReadingInit ==
  /\ Init
  /\ kind = "none" /\ call = "none" /\ page = {}

-----------------------------------------------------------------------------

Done == kind' = "none" /\ call' = "none" /\ page' = {}

(* A query that finds nothing, or fails, is answered with success and      *)
(* without messages, which changes nothing.                                *)
Found(what, messages, next) ==
  /\ kind = "none" /\ messages # {}
  /\ kind' = what /\ call' = next /\ page' = messages
  /\ UNCHANGED vars

(* recent() sorts by create_time, which has seconds and was taken before   *)
(* the message was published: which of the rows are the latest is open.    *)
Recent(n) ==
  {p \in SUBSET Rows : Cardinality(p) = IF Cardinality(Rows) < n THEN Cardinality(Rows) ELSE n}

(* range() over all the time there is. *)
AllTime == Rows

(* The search is for some words: those texts that have them. *)
Search == SUBSET es

(* A bug: the history ends after so many messages. *)
LimitedHistoryMsg == \E m \in AllTime : Found("history", {m}, "files")

GetHistoryMsg == Found("history", AllTime, "files")

GetRecentMsg == \E n \in PageSizes : \E p \in Recent(n) : Found("recent", p, "files")

MsgSearch == \E p \in Search : Found("search", p, "users")

(* GetMultiFile: a file is read as it is on the disk; a row without a      *)
(* file_id is left out.                                                    *)
GetMultiFile ==
  /\ call = "files"
  /\ call' = "users"
  /\ UNCHANGED <<vars, kind, page>>

(* GetMultiUserInfo, and the answer. *)
GetMultiUserInfo ==
  /\ call = "users"
  /\ Done
  /\ UNCHANGED vars

(* Either call fails: the answer is an error. *)
CallFails ==
  /\ call # "none"
  /\ Done
  /\ UNCHANGED vars

-----------------------------------------------------------------------------

ReadStep ==
  \/ GetHistoryMsg \/ GetRecentMsg \/ MsgSearch
  \/ GetMultiFile \/ GetMultiUserInfo \/ CallFails

(* A kill of the message service ends its reading handlers too. *)
ReadingNext ==
  \/ PipelineNext /\ UNCHANGED reader
  \/ MessageServiceKilled /\ Done
  \/ ReadStep

ReadingSpec == ReadingInit /\ [][ReadingNext]_allVars

(* The event loop of the message service runs, whatever handlers run       *)
(* beside it, and is started again when it was killed.                     *)
FairReadingSpec == ReadingSpec /\ WF_allVars(StoreStep /\ UNCHANGED reader)

-----------------------------------------------------------------------------
(* Properties. *)

(* A history that is about to be shown has no gap: with a message, it has  *)
(* every message that was published before it, but for those a store       *)
(* failed on and those that were lost.                                     *)
HistoryHasNoGaps ==
  kind = "history" =>
    \A i, j \in DOMAIN published :
      (i < j /\ published[j] \in page) => published[i] \in page \cup refused \cup lost

(* What a search shows is in the history or will be, with the same         *)
(* exception: a text is indexed before it is stored, and between the two   *)
(* the service may be killed.                                              *)
SearchShowsWhatIsSent ==
  kind = "search" => page \subseteq Rows \cup ToSet(queue) \cup refused \cup lost
=============================================================================
