-------------------------- MODULE ProtocolComponents --------------------------
(***************************************************************************)
(* The components of the vhost crate in one specification, with event      *)
(* dispatch.  They share no state: a behaviour is one of the component     *)
(* that the variable component names; the others stay in their initial     *)
(* states, in which nothing that fairness is assumed for can happen.       *)
(***************************************************************************)
EXTENDS Session, ProtocolParts, DispatchPart, EndpointPart

CONSTANTS
    \* Rendezvous
    Listeners, Clients, Retries

VARIABLES
    component,
    \* Rendezvous
    file, listener, client, queue, retry_count
-------------------------------------------------------------------------------
R == INSTANCE Rendezvous

ASSUME SessionAssumption == Fitting
-------------------------------------------------------------------------------
\* The variables of each component.
channelVars == <<channel, negotiated, node, handler, up, channelCall, requests, replies,
                 channelReturned>>
rendezvousVars == <<file, listener, client, queue, retry_count>>
messageVars == <<hdr_flags, request, reply, verdict>>
kernelVars == <<kind, acked, kernel, agreed, calls>>

allVars == <<component, vars, channelVars, rendezvousVars, endpointVars, messageVars, kernelVars,
             dispatchVars>>

Components == {"Session", "BackendChannel", "Rendezvous", "Endpoint", "Messages", "VhostKernel",
               "EventDispatch"}

ComponentsInit ==
    /\ component \in Components
    /\ Init /\ B!Init /\ R!Init /\ E!Init /\ M!Init /\ K!Init /\ V!Init
    /\ component # "BackendChannel" => channel = "req"
    /\ component # "Endpoint" => mode = "request"
    /\ component # "VhostKernel" => kind = "net"

\* What stays as it is while a component takes a step.
Others ==
    /\ component # "Session" => UNCHANGED vars
    /\ component # "BackendChannel" => UNCHANGED channelVars
    /\ component # "Rendezvous" => UNCHANGED rendezvousVars
    /\ component # "Endpoint" => UNCHANGED endpointVars
    /\ component # "Messages" => UNCHANGED messageVars
    /\ component # "VhostKernel" => UNCHANGED kernelVars
    /\ component # "EventDispatch" => UNCHANGED dispatchVars
    /\ UNCHANGED component

ComponentsNext ==
    \/ component = "Session" /\ Next /\ Others
    \/ component = "BackendChannel" /\ B!Next /\ Others
    \/ component = "Rendezvous" /\ R!Next /\ Others
    \/ component = "Endpoint" /\ E!Next /\ Others
    \/ component = "Messages" /\ M!Next /\ Others
    \/ component = "VhostKernel" /\ K!Next /\ Others
    \/ component = "EventDispatch" /\ V!Next /\ Others

ComponentsSpec ==
    /\ ComponentsInit /\ [][ComponentsNext]_allVars
    /\ Fairness /\ B!Fairness /\ R!Fairness
-------------------------------------------------------------------------------
\* The types of all the components, and the inductive invariant of the stream between two
\* endpoints: whose bytes the sender has written and the receiver holds.
TypesOK ==
    CASE component = "Session"        -> TypeOK
      [] component = "BackendChannel" -> B!TypeOK
      [] component = "Rendezvous"     -> R!TypeOK
      [] component = "Endpoint"       -> E!TypeOK /\ E!StreamInv
      [] component = "Messages"       -> M!TypeOK
      [] component = "VhostKernel"    -> K!TypeOK
      [] component = "EventDispatch"  -> V!TypeOK

\* Every method call on a Frontend, a Backend or a GpuBackend returns.
CallsReturn == EveryCallReturns /\ B!ChannelCallsReturn

\* Frontend::connect returns, whatever listeners come and go.
ConnectReturns == R!ConnectReturns
===============================================================================
