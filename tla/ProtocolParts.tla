----------------------------- MODULE ProtocolParts -----------------------------
(***************************************************************************)
(* The channel from the backend to the frontend, the bodies of messages    *)
(* and the in-kernel back ends as parts of the components of the vhost     *)
(* crate: an instance of each and what is promised of it.                  *)
(***************************************************************************)
EXTENDS Integers

CONSTANTS
    \* BackendChannel
    ChannelThreads, ReqFiles, ChannelPending,
    \* Messages
    Word, Samples, Lengths, HdrFlags,
    \* VhostKernel
    KernelWord, GuestRam, Sizes, Configs, MaxSize, MaxRegions, MaxCalls

VARIABLES
    \* BackendChannel
    channel, negotiated, node, handler, up, channelCall, requests, replies, channelReturned,
    \* Messages
    hdr_flags, request, reply, verdict,
    \* VhostKernel
    kind, acked, kernel, agreed, calls
-------------------------------------------------------------------------------
B == INSTANCE BackendChannel WITH
    Threads <- ChannelThreads, MaxPending <- ChannelPending,
    kind <- channel, acked <- negotiated, call <- channelCall, returned <- channelReturned

M == INSTANCE Messages

K == INSTANCE VhostKernel WITH Word <- KernelWord

ASSUME WordAssumption == M!Words
ASSUME KernelAssumption == K!Numbers
-------------------------------------------------------------------------------
\* The backend's proxy, its socket and the handler of the other side implement one
\* mailbox per thread.
ChannelImplementsRpc == B!ChannelImplementsRpc

\* What a validator lets through is sound in the arithmetic of the machine.
OnlySoundServed == M!OnlySoundServed

\* What the frontend's methods send is not refused for its contents when it is sound.
SoundNotRefused == M!SoundNotRefused

\* IOTLB messages have the layout that the kernel agreed to.
IotlbLayoutAgreed == K!IotlbLayoutAgreed

\* No part of a ring of vhost-net or vhost-vsock begins, ends or wraps outside of guest memory.
RingsInsideMemory == K!RingsInsideMemory

\* Each part of a valid ring lies in the mapping of one region.
ValidRingIsMapped == K!ValidRingIsMapped
================================================================================
