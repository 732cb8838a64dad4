----------------------------- MODULE Conversations -----------------------------
(***************************************************************************)
(* Support conversations between the users of an organization, its security *)
(* staff and its administrators.  Sending and resolving read the            *)
(* conversation, check it, and write in a later transaction.                *)
(***************************************************************************)
EXTENDS Naturals, FiniteSets

CONSTANTS
  People, RoleOf, OrganizationOf,  \* the signed-in users
  ConversationIds,
  MessageRequests,                 \* requests in flight
  MaxLate                          \* bound: messages counted per conversation

Roles == {"USER", "SECURITY", "ADMIN", "TENANT_ADMIN", "SUPER_ADMIN"}

ASSUME ConversationAssumption ==
  /\ RoleOf \in [People -> Roles]
  /\ IsFiniteSet(MessageRequests) /\ MessageRequests # {}
  /\ MaxLate \in Nat

VARIABLES
  conversation,    \* rows of conversations
  authors,         \* senders of the messages of each conversation
  lateMessages,    \* messages stored after the conversation was resolved
  messageRequest   \* a request that has read its conversation and passed its checks

conversationVars == <<conversation, authors, lateMessages, messageRequest>>

ConversationTypes == {"SECURITY", "CUSTOMER_CARE"}
NoConversation == [status |-> "none"]
Conversation == [status : {"OPEN", "RESOLVED"}, type : ConversationTypes, createdBy : People]
IdleMessageRequest == [at |-> "idle"]

ConversationTypeOK ==
  /\ conversation \in [ConversationIds -> Conversation \cup {NoConversation}]
  /\ authors \in [ConversationIds -> SUBSET People]
  /\ lateMessages \in [ConversationIds -> 0 .. MaxLate]
  /\ messageRequest \in [MessageRequests ->
       {IdleMessageRequest} \cup [at : {"send", "resolve"}, by : People, to : ConversationIds, read : Conversation]]

ConversationInit ==
  /\ conversation = [c \in ConversationIds |-> NoConversation]
  /\ authors = [c \in ConversationIds |-> {}]
  /\ lateMessages = [c \in ConversationIds |-> 0]
  /\ messageRequest = [r \in MessageRequests |-> IdleMessageRequest]

isUser(p) == RoleOf[p] = "USER"
isSecurity(p) == RoleOf[p] = "SECURITY"
isTenantAdminRole(p) == RoleOf[p] \in {"ADMIN", "TENANT_ADMIN"}
Exists(c) == conversation[c].status # "none"
OrganizationOfConversation(c) == OrganizationOf[conversation[c].createdBy]

\* The query of findVisibleConversationOrThrow, then canViewConversation.
canViewConversation(p, c) ==
  /\ Exists(c)
  /\ OrganizationOf[p] = OrganizationOfConversation(c)
  /\ CASE isUser(p)            -> conversation[c].createdBy = p
       [] isSecurity(p)        -> conversation[c].type = "SECURITY"
       [] isTenantAdminRole(p) -> TRUE
       [] OTHER                -> FALSE

\* listConversations without a filter; SUPER_ADMIN is refused.
buildListWhere(p) ==
  {c \in ConversationIds :
     /\ Exists(c)
     /\ OrganizationOf[p] = OrganizationOfConversation(c)
     /\ isUser(p) => conversation[c].createdBy = p
     /\ isSecurity(p) => conversation[c].type = "SECURITY"
     /\ isUser(p) \/ isSecurity(p) \/ isTenantAdminRole(p)}

\* startSecurityConversation and startCustomerCareConversation: the lot or the
\* booking it is about only decides whether it is refused.
createConversationWithMessage(p, c, type) ==
  /\ isUser(p) /\ ~ Exists(c)
  /\ conversation' = [conversation EXCEPT ![c] = [status |-> "OPEN", type |-> type, createdBy |-> p]]
  /\ authors' = [authors EXCEPT ![c] = {p}]
  /\ UNCHANGED <<lateMessages, messageRequest>>

\* Fault: a resolved conversation still takes messages.
assertConversationOpenNever(c) == TRUE

assertConversationOpen(c) == conversation[c].status # "RESOLVED"

\* sendMessage: assertCanSendMessage lets through whoever may view it.
sendMessage(r, p, c) ==
  /\ messageRequest[r].at = "idle"
  /\ canViewConversation(p, c)
  /\ assertConversationOpen(c)
  /\ messageRequest' = [messageRequest EXCEPT ![r] = [at |-> "send", by |-> p, to |-> c, read |-> conversation[c]]]
  /\ UNCHANGED <<conversation, authors, lateMessages>>

\* Fault: the row read before the transaction is written back with the message.
storeMessageWithRow(r) ==
  /\ messageRequest[r].at = "send"
  /\ conversation' = [conversation EXCEPT ![messageRequest[r].to] = messageRequest[r].read]
  /\ authors' = [authors EXCEPT ![messageRequest[r].to] = @ \cup {messageRequest[r].by}]
  /\ messageRequest' = [messageRequest EXCEPT ![r] = IdleMessageRequest]
  /\ UNCHANGED lateMessages

\* The transaction writes lastMessageAt and nothing else of the conversation.
storeMessage(r) ==
  /\ messageRequest[r].at = "send"
  /\ LET c == messageRequest[r].to
         late == conversation[c].status = "RESOLVED"
     IN /\ late => lateMessages[c] < MaxLate
        /\ lateMessages' = IF late THEN [lateMessages EXCEPT ![c] = @ + 1] ELSE lateMessages
        /\ authors' = [authors EXCEPT ![c] = @ \cup {messageRequest[r].by}]
  /\ messageRequest' = [messageRequest EXCEPT ![r] = IdleMessageRequest]
  /\ UNCHANGED conversation

\* resolveConversation; assertCanResolveConversation refuses users.
resolveConversation(r, p, c) ==
  /\ messageRequest[r].at = "idle"
  /\ canViewConversation(p, c) /\ ~ isUser(p)
  /\ messageRequest' = [messageRequest EXCEPT ![r] = [at |-> "resolve", by |-> p, to |-> c, read |-> conversation[c]]]
  /\ UNCHANGED <<conversation, authors, lateMessages>>

storeResolution(r) ==
  /\ messageRequest[r].at = "resolve"
  /\ conversation' = [conversation EXCEPT ![messageRequest[r].to].status = "RESOLVED"]
  /\ messageRequest' = [messageRequest EXCEPT ![r] = IdleMessageRequest]
  /\ UNCHANGED <<authors, lateMessages>>

ConversationNext ==
  \/ \E p \in People, c \in ConversationIds, type \in ConversationTypes : createConversationWithMessage(p, c, type)
  \/ \E r \in MessageRequests, p \in People, c \in ConversationIds :
       sendMessage(r, p, c) \/ resolveConversation(r, p, c)
  \/ \E r \in MessageRequests : storeMessage(r) \/ storeResolution(r)

ConversationSpec == ConversationInit /\ [][ConversationNext]_conversationVars

-----------------------------------------------------------------------------
(* Properties                                                              *)

\* A message can reach a conversation that was resolved in the meantime, but only
\* one for each request that was on its way: the one that resolved it is not.
LateMessagesBounded ==
  \A c \in ConversationIds :
    lateMessages[c] + Cardinality({r \in MessageRequests : messageRequest[r].at = "send" /\ messageRequest[r].to = c
                                                             /\ conversation[c].status = "RESOLVED"})
      <= Cardinality(MessageRequests) - 1

\* No message on its way brings a resolved conversation back.
ResolvedForGood ==
  [][\A c \in ConversationIds : conversation[c].status = "RESOLVED" => conversation'[c].status = "RESOLVED"]_conversationVars

\* The list and the single conversation agree: a person finds in the list exactly
\* the conversations he can open.
ListShowsWhatOpens ==
  \A p \in People : buildListWhere(p) = {c \in ConversationIds : canViewConversation(p, c)}

\* There is no conversation without a message of its creator, and nobody has
\* written in one that he cannot open any more.
CreatorWrote ==
  \A c \in ConversationIds : Exists(c) =>
    conversation[c].createdBy \in authors[c] /\ \A p \in authors[c] : canViewConversation(p, c)
\* Requests that overlap neither part a conversation from its messages and readers
\* nor write more late messages than there were requests on their way.
ConversationsSound == LateMessagesBounded /\ ListShowsWhatOpens /\ CreatorWrote
===============================================================================
