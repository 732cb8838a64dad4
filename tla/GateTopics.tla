----------------------------- MODULE GateTopics -----------------------------
(***************************************************************************)
(* The two MQTT topics between the backend and the gateway of a gate:      *)
(* /commands carries OPEN commands, /acks their answers.                   *)
(***************************************************************************)
CONSTANTS
  Commands,   \* commandIds
  Expiring,   \* bound: commands that may outlive their expiresAt
  Lossy       \* whether messages may be lost or repeated, and the gateway cut off

VARIABLES
  openTopic,  \* commands on their way to the gateway
  ackTopic    \* answers on their way to the backend

topics == <<openTopic, ackTopic>>

AckStatus == {"RECEIVED", "EXECUTED", "FAILED"}
Answer == [command : Commands, status : AckStatus]

TopicsTypeOK == openTopic \subseteq Commands /\ ackTopic \subseteq Answer

TopicsInit == openTopic = {} /\ ackTopic = {}

\* What a publication that the broker accepted leaves in the topic: sessions are
\* clean, so that a message for a subscriber that is not connected is gone.
Accepted(topic, message) ==
  {topic \cup {message}} \cup (IF Lossy THEN {topic} ELSE {})

\* What a publication that failed leaves: the client was not connected, or the
\* connection was lost after the broker had the message.
Rejected(topic, message) == {topic, topic \cup {message}}

\* What a delivery leaves: at QoS 1 a message may come again.
Delivered(topic, message) ==
  {topic \ {message}} \cup (IF Lossy THEN {topic} ELSE {})
=============================================================================
