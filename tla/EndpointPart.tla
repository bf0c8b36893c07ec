----------------------------- MODULE EndpointPart -----------------------------
(***************************************************************************)
(* The two ends of a stream socket (Endpoint) as a part of the components  *)
(* of the vhost crate, and what is promised of them.                       *)
(***************************************************************************)
CONSTANTS HdrLen, BodyLens, ReplyLen, MaxMsgs, Errnos

VARIABLES
    mode, msgs, done, sender, wire, phase, buf, files, header, outcome, accepted
-------------------------------------------------------------------------------
E == INSTANCE Endpoint

ASSUME EndpointAssumption == E!Framed

endpointVars == <<mode, msgs, done, sender, wire, phase, buf, files, header, outcome, accepted>>
-------------------------------------------------------------------------------
\* A message is accepted with the data and the descriptors it was sent with.
AcceptedAsSent == E!AcceptedAsSent

\* Disconnected is reported at the end of a message only.
DisconnectedAtBoundary == E!DisconnectedAtBoundary
===============================================================================
