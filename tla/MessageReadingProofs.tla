------------------------ MODULE MessageReadingProofs ------------------------
(***************************************************************************)
(* Theorems about MessageReading, for any senders, messages, page sizes    *)
(* and bounds.  A step of it is a step of the pipeline, or of the reader   *)
(* beside it: what MessagePipelineProofs shows of the pipeline stays true. *)
(***************************************************************************)
EXTENDS MessageReading, MessagePipelineProofs

-----------------------------------------------------------------------------
(* The pipeline does not notice the reader. *)

LEMMA StepIsPipelineStep ==
  ASSUME [ReadingNext]_allVars
  PROVE  [Next]_vars
BY DEF ReadingNext, allVars, Next, ReadStep, GetHistoryMsg, GetRecentMsg, MsgSearch, Found,
       GetMultiFile, GetMultiUserInfo, CallFails

LEMMA PipelineBeside == ReadingSpec => Spec
<1>1. ReadingInit => Init
  BY DEF ReadingInit
<1>2. [ReadingNext]_allVars => [Next]_vars
  BY StepIsPipelineStep
<1> QED
  BY <1>1, <1>2, PTL DEF ReadingSpec, Spec

(* What the reader does: it goes on with its page, begins with another or  *)
(* has none.                                                               *)
LEMMA ReaderStep ==
  ASSUME [ReadingNext]_allVars
  PROVE  \/ UNCHANGED <<kind, page>> /\ (call' = call \/ (call = "files" /\ call' = "users"))
         \/ GetHistoryMsg \/ GetRecentMsg \/ MsgSearch
         \/ Done
BY DEF ReadingNext, allVars, reader, ReadStep, GetMultiFile, GetMultiUserInfo, CallFails

-----------------------------------------------------------------------------
(* Types. *)

PageTyped ==
  /\ kind \in Kinds /\ call \in Calls /\ page \subseteq Messages
  /\ (kind = "none") <=> (call = "none")
  /\ (kind = "none") <=> (page = {})
  /\ kind = "search" => (call = "users" /\ page \subseteq Texts)

LEMMA RowsAreMessages ==
  ASSUME TypeInv
  PROVE  Rows \subseteq Messages
BY SequencesTyped, InToSet DEF Rows

LEMMA StepPageTyped == TypeInv /\ PageTyped /\ [ReadingNext]_allVars => PageTyped'
<1> SUFFICES ASSUME TypeInv, PageTyped, [ReadingNext]_allVars
             PROVE  PageTyped'
  OBVIOUS
<1>1. CASE UNCHANGED <<kind, page>> /\ (call' = call \/ (call = "files" /\ call' = "users"))
  BY <1>1 DEF PageTyped, Calls, Kinds
<1>2. CASE GetHistoryMsg
  BY <1>2, RowsAreMessages DEF GetHistoryMsg, Found, AllTime, PageTyped, Kinds, Calls
<1>3. CASE GetRecentMsg
  BY <1>3, RowsAreMessages DEF GetRecentMsg, Found, Recent, PageTyped, Kinds, Calls
<1>4. CASE MsgSearch
  <2>1. es \subseteq Texts /\ Texts \subseteq Messages
    BY PipelineAssumption DEF TypeInv, StoresTyped
  <2> QED
    BY <1>4, <2>1 DEF MsgSearch, Found, Search, PageTyped, Kinds, Calls
<1>5. CASE Done
  BY <1>5 DEF Done, PageTyped, Kinds, Calls
<1> QED
  BY <1>1, <1>2, <1>3, <1>4, <1>5, ReaderStep

(* The pipeline and its reader have their types: a page is never empty,    *)
(* and a search shows texts.                                               *)
THEOREM ReadingTypeCorrect == ReadingSpec => []ReadingTypeOK
<1>1. ReadingInit => PageTyped
  BY DEF ReadingInit, PageTyped, Kinds, Calls
<1>2. TypeInv /\ PageTyped => ReadingTypeOK
  BY TypeInvGivesTypeOK DEF ReadingTypeOK, PageTyped
<1> QED
  BY <1>1, <1>2, StepPageTyped, PipelineBeside, TypeInvHolds, PTL DEF ReadingSpec

-----------------------------------------------------------------------------
(* Histories. *)

(* What is known of the pipeline: see MessagePipelineProofs. *)
PipelineInv == TypeInv /\ PublishedOnce /\ OrderInv /\ KeptInv

LEMMA PipelineInvHolds == ReadingSpec => []PipelineInv
BY PipelineBeside, OrderInvHolds, KeptInvHolds, PTL DEF PipelineInv

(* A message that was published before one of the history is there too.    *)
LEMMA RowsHaveNoGaps ==
  ASSUME PipelineInv, NEW m \in Rows, NEW n, Before(n, m)
  PROVE  n \in Rows \cup refused \cup lost
<1>1. n \in Sent
  BY DEF Before, Sent
<1>2. n \notin ToSet(queue)
  <2>1. m # n /\ ~Before(m, n)
    BY BeforeNotAfter DEF PipelineInv
  <2> QED
    BY <2>1 DEF PipelineInv, OrderInv, RowsFirst
<1> QED
  BY <1>1, <1>2 DEF PipelineInv, KeptInv, Kept

(* The page of a history was all there was when it was queried, and what   *)
(* is published later comes after it.                                      *)
HistoryInv ==
  kind = "history" =>
    /\ page \subseteq Sent
    /\ \A m \in page : \A n : Before(n, m) => n \in page \cup refused \cup lost

LEMMA StepHistory == PipelineInv /\ HistoryInv /\ [ReadingNext]_allVars => HistoryInv'
<1> SUFFICES ASSUME PipelineInv, HistoryInv, [ReadingNext]_allVars, kind' = "history"
             PROVE  HistoryInv'
  BY DEF HistoryInv
<1>1. TypeInv /\ PublishedOnce /\ [Next]_vars
  BY StepIsPipelineStep DEF PipelineInv
<1>2. CASE GetHistoryMsg
  <2>1. page' = Rows /\ UNCHANGED <<published, refused, lost>>
    BY <1>2 DEF GetHistoryMsg, Found, AllTime, vars, troubles
  <2>2. Rows \subseteq Sent
    BY DEF PipelineInv, OrderInv, AllSent
  <2>3. \A m \in Rows : \A n : Before(n, m) => n \in Rows \cup refused \cup lost
    BY RowsHaveNoGaps
  <2> QED
    BY <2>1, <2>2, <2>3 DEF HistoryInv, Sent, Before
<1>3. CASE UNCHANGED <<kind, page>>
  <2>1. /\ page \subseteq Sent
        /\ \A m \in page : \A n : Before(n, m) => n \in page \cup refused \cup lost
    BY <1>3 DEF HistoryInv
  <2>2. refused \subseteq refused' /\ lost \subseteq lost'
    BY <1>1, TroublesGrow
  <2>3. Sent \subseteq Sent' /\ \A n : \A m \in Sent : Before(n, m)' => Before(n, m)
    BY <1>1, OrderGrows
  <2> QED
    BY <1>3, <2>1, <2>2, <2>3 DEF HistoryInv
<1>4. GetHistoryMsg \/ UNCHANGED <<kind, page>>
  BY ReaderStep DEF GetRecentMsg, MsgSearch, Found, Done
<1> QED
  BY <1>2, <1>3, <1>4

(* A history that is about to be shown has, with a message, every message  *)
(* that was published before it, but for those a store failed on and those *)
(* that were lost: whatever is published, stored, refused or lost while    *)
(* its files are fetched.                                                  *)
THEOREM HistoriesAreWhole == ReadingSpec => []HistoryHasNoGaps
<1>1. ReadingInit => HistoryInv
  BY DEF ReadingInit, HistoryInv
<1>2. PipelineInv /\ HistoryInv => HistoryHasNoGaps
  <2> SUFFICES ASSUME PipelineInv, HistoryInv, kind = "history",
                      NEW i \in DOMAIN published, NEW j \in DOMAIN published,
                      i < j, published[j] \in page
               PROVE  published[i] \in page \cup refused \cup lost
    BY DEF HistoryHasNoGaps
  <2>1. DOMAIN published = 1..Len(published)
    BY SequencesTyped DEF PipelineInv
  <2>2. Before(published[i], published[j])
    BY <2>1 DEF Before
  <2> QED
    BY <2>2 DEF HistoryInv
<1> QED
  BY <1>1, <1>2, StepHistory, PipelineInvHolds, PTL DEF ReadingSpec

-----------------------------------------------------------------------------
(* Searches. *)

(* A text is indexed when it has been published. *)
SearchInv ==
  /\ es \subseteq Sent
  /\ kind = "search" => page \subseteq Sent

LEMMA StepSearch == PipelineInv /\ SearchInv /\ [ReadingNext]_allVars => SearchInv'
<1> SUFFICES ASSUME PipelineInv, SearchInv, [ReadingNext]_allVars PROVE SearchInv'
  OBVIOUS
<1>1. TypeInv /\ PublishedOnce /\ [Next]_vars
  BY StepIsPipelineStep DEF PipelineInv
<1>2. Sent \subseteq Sent'
  BY <1>1, OrderGrows
<1>3. es' \subseteq Sent'
  <2>1. CASE IndexMessage
    <3>1. es' = es \cup {current} /\ step # "idle"
      BY <2>1 DEF IndexMessage
    <3>2. current \in Sent
      BY <3>1 DEF PipelineInv, OrderInv, CurrentBetween
    <3> QED
      BY <1>2, <3>1, <3>2 DEF SearchInv
  <2>2. CASE UNCHANGED es
    BY <1>2, <2>2 DEF SearchInv
  <2>3. IndexMessage \/ UNCHANGED es
    BY <1>1 DEF Next, PipelineNext, vars, stores, NewMessage, RequestStep, GetMembers, Publish,
                PublishRaced, PublishFails, ReplyAndNotify, StoreStep, Consume, PutFile,
                InsertMessage, Ack, StoreFails, PutFileUnanswered, TransmitKilled,
                BrokerRestarts, MessageServiceKilled
  <2> QED
    BY <2>1, <2>2, <2>3
<1>4. kind' = "search" => page' \subseteq Sent'
  <2>1. CASE MsgSearch
    <3>1. page' \subseteq es
      BY <2>1 DEF MsgSearch, Found, Search
    <3> QED
      BY <1>2, <3>1 DEF SearchInv
  <2>2. CASE UNCHANGED <<kind, page>>
    BY <1>2, <2>2 DEF SearchInv
  <2>3. MsgSearch \/ UNCHANGED <<kind, page>> \/ kind' # "search"
    BY ReaderStep DEF GetHistoryMsg, GetRecentMsg, Found, Done
  <2> QED
    BY <2>1, <2>2, <2>3
<1> QED
  BY <1>3, <1>4 DEF SearchInv

(* What a search is about to show is in the history or in the queue, but   *)
(* for messages a store failed on and messages that were lost: however     *)
(* often the message service was killed between the two stores.            *)
THEOREM SearchesAreSent == ReadingSpec => []SearchShowsWhatIsSent
<1>1. ReadingInit => SearchInv
  BY DEF ReadingInit, Init, SearchInv
<1>2. PipelineInv /\ SearchInv => SearchShowsWhatIsSent
  BY DEF PipelineInv, KeptInv, Kept, SearchInv, SearchShowsWhatIsSent
<1> QED
  BY <1>1, <1>2, StepSearch, PipelineInvHolds, PTL DEF ReadingSpec
=============================================================================
