# libmediasoupclient in TLA+

A verification project for this fork of libmediasoupclient: TLA+ models of the
parts of the library that keep state, TLC configurations that check them on
small instances, and theorems about them with proofs that TLAPS checks.
Paths are relative to the repository; `H:204` is line 204 of
`src/Handler.cpp`, `T:` is `src/Transport.cpp`, `R:` is
`src/sdp/RemoteSdp.cpp`, `M:` is `src/sdp/MediaSection.cpp`, `O:` is
`src/ortc.cpp`, `D:` is `src/Device.cpp`, `P:` is `src/PeerConnection.cpp`.

## 1. The system

The library is the client side of the mediasoup SFU.  The server does not speak
SDP, libwebrtc speaks nothing else, and this library plays *both* ends of an
SDP negotiation: it drives the local peer connection and invents the session
description of a remote peer that does not exist.  Everything in it that is hard
follows from that: three parties (the handler, the remote description, the
peer connection) keep their own table of m= lines and have to agree on it
without ever comparing it.

### Components

| component | state | operations | talks to |
|---|---|---|---|
| `Sdp::RemoteSdp` | vector of sections, map mid → index, first mid, the SDP object, ICE and DTLS parameters | `Send`, `Receive`, `Send-`/`RecvSctpAssociation`, `CloseMediaSection`, `DisableMediaSection`, `UpdateIceParameters`, `UpdateDtlsRole`, `GetNextMediaSectionIdx`, `GetSdp` | owned by a handler |
| `MediaSection` (answer, offer) | one m= line | `Close`, `Disable`, `SetIceParameters`, `SetDtlsRole` | owned by `RemoteSdp` |
| `SendHandler` / `SendTransport` | forced DTLS role, `transportReady`, map localId → transceiver, data section flag, next stream id, `closed` | `Produce`/`Send`, `ProduceData`/`SendDataChannel`, `CloseProducer`/`StopSending`, `RestartIce`, `Close`, `ReplaceTrack`, `SetMaxSpatialLayer`, statistics | peer connection (blocking calls), listener `OnConnect` (waits for a future), server |
| `RecvHandler` / `RecvTransport` | the same, and `probatorConsumerCreated` | `Consume`/`Receive`, `ConsumeData`/`ReceiveDataChannel`, `CloseConsumer`/`StopReceiving`, `RestartIce`, `Close`, statistics | as above |
| `PeerConnection` | the libwebrtc object and its three threads | `CreateOffer`, `CreateAnswer`, `Set{Local,Remote}Description` block the caller until the signaling thread has fulfilled a promise; the rest are direct calls | libwebrtc |
| `Device` | `loaded`, extended capabilities, receive capabilities, `canProduceByKind` | `Load`, `CanProduce`, `CreateSendTransport`, `CreateRecvTransport` | `ortc`, `Handler::GetNativeRtpCapabilities` |
| `ortc` | none: pure functions on JSON | validation, `getExtendedRtpCapabilities` and what is derived from it, `canSend`, `canReceive`, `reduceCodecs` | called by Device, transports and handlers |
| `Sdp::Utils` | none | parses local offers | called by the handlers |
| `Producer`, `Consumer`, `DataProducer`, `DataConsumer` | `closed`, `paused` | never created in this fork: the code that would is commented out (T:253-265, 301-315) | |
| Android and iOS bindings | a native handle per device and transport, the listener | wrap `Device` and the transports; `close`, `dispose`, `dealloc` free them | Java/ObjC application |
| `Logger`, `scalabilityMode`, errors, `Initialize`/`Cleanup` | log level, handler | | |

### Threads, and what can interleave

No class takes a lock.  An application thread calls a transport and stays in
the call until it is done.  Inside, the call waits in two places: for the
future that the application's `OnConnect` returned (T:119), and for the
promise of a libwebrtc observer (P:173, 188, 218, 248).  libwebrtc's signaling
thread calls back `OnConnectionStateChange` (T:122) on its own.  `Close` may be
called by another thread, or from a callback, at any time; it neither waits for
the call in progress nor wakes it.

### What makes each component correct

* `RemoteSdp`: map, vector and published SDP always describe the same table of
  m= lines; lines keep their place; a closed line is recycled in the order in
  which libwebrtc recycles; line 1, which carries the bundled transport, is
  never rejected; all lines present the current transport parameters.
* Send and receive handler: between two calls the peer connection and
  `RemoteSdp` agree line by line; a call affects only the producer or consumer it
  names; the DTLS role told to the server is the one negotiated; a call that
  fails leaves a transport that either works or is recognisably dead.
* `Device` and `ortc`: what is announced to the server is what both sides have,
  at the server's payload types; what we say we send is what we write, in the
  server's name, into the answer to ourselves.
* Producers and consumers: the sender, the section, the server and the answer in
  the server's name say the same of a stream; what is said of one producer has
  no effect on another; what the server was not told of is not sent.
* Bindings and threads: no callback to an object that is gone; no wait that
  nobody ends.

Every place where this is hard to test is listed in `PROJECT.json` under
`hazards`, at its line.

## 2. The models

```
MLineTable  <--refines--  RemoteSdp  <--INSTANCE--  SendHandler --INSTANCE--> Jsep
                             ^  ^
                             |  +--INSTANCE--  RecvHandler --INSTANCE--> JsepAnswerer
                     RemoteSdpProofs
Ortc  <--EXTENDS--  SdpCapabilities  <--EXTENDS--  Device
 ^ ^
 | +--EXTENDS--  SdpStreams  <--EXTENDS--  MediaSections  <--+
 |                                                           +--EXTENDS--  Media
 +----EXTENDS--  DataChannels  <-----------------------------+
Calls
Lifetime

SendHandlerProofs  --EXTENDS-->   SendHandler
                   --INSTANCE-->  JsepProofs  --EXTENDS-->  Jsep
RecvHandlerProofs  --EXTENDS-->   RecvHandler
                   --INSTANCE-->  RemoteSdpProofs
DeviceProofs, MediaProofs, CallsProofs, LifetimeProofs  --EXTENDS-->  their module
```

| module | models | how state and actions correspond |
|---|---|---|
| `MLineTable` | the promise: how a table of m= lines may change over offers and answers | one variable, the lines; add, recycle, reject |
| `RemoteSdp` | `RemoteSdp`, and of `MediaSection` the mid, port 0, direction, ICE credentials, `a=setup` | one variable per member, one operator per method with the names of the source; `answering` tells the two subclasses of section apart. Its `Next` calls the methods the way a handler does. Indices count from 1 |
| `Jsep` | external: what `SendHandler` relies on of libwebrtc's offer/answer machine as the offerer | operators on a record `peer` (closed, signaling state, transceivers, local and remote lines, data channels) |
| `SendHandler` | `SendHandler` and `SendTransport` | each public call is an action up to the point where it waits in `OnConnect`, and one from there to the end; `call` holds the locals of the waiting call |
| `JsepAnswerer` | external: the same, as the answerer | operators on a record |
| `RecvHandler` | `RecvHandler` and `RecvTransport`, with the probator | as `SendHandler`; `SetupTransport` is a step of its own because the offer has been applied before it |
| `Calls` | the threads of one transport: application threads, the signaling thread and its queue, the promises of the observers, the future of `OnConnect`, the callback | a call is the sequence of its waits, read off the handler's methods; `frame` holds where each thread is. What the calls do to the descriptions is in the handlers' modules |
| `Ortc` | codec and header-extension negotiation | pure operators, one per function, on records that hold the fields the negotiation compares |
| `SdpCapabilities` | `GetNativeRtpCapabilities` and `extractRtpCapabilities`: the offer that `Load` reads | operators on an offer with its rtpmap, fmtp and rtcp-fb lines |
| `Device` | `Device`, and what transports keep of it | `Load`, also when it throws halfway, and `CreateSendTransport` |
| `SdpStreams` | the a=ssrc and a=ssrc-group lines: `addLegacySimulcast`, `getCname`, `getRtpEncodings`, `parseScalabilityMode` | one operator per function; SSRCs are counted modulo `SsrcSpace` |
| `MediaSections` | what the two `MediaSection` constructors write for audio and video, `applyCodecParameters`, the validation of RTP parameters and codec options | a validator is two operators, when it does not throw and what it fills in; what the answer's constructor writes into the parameters of the offer is `Told` |
| `DataChannels` | the arguments of `ProduceData` and `ConsumeData` on their way to libwebrtc and to the server | each call is an action, with the open channels as state |
| `Media` | `Produce`, `SetMaxSpatialLayer`, `Consume` by their data | each call is an action; a producer is a record of what was asked for, the section, the sender, the answer in the server's name and what the server is told. `Next` is that of `Media` or of `DataChannels` |
| `Lifetime` | the Java and the Objective-C binding: wrappers, native objects, the pointers between them | `handle` is what a wrapper holds, `alive` the native objects that exist, `call` where each thread is; a method of a transport is what it reads. `broken` records the rules that the application has broken, and no step follows the use of a deleted object |

### What is abstracted, and why that is sound for the properties

* Codecs, SSRCs, candidates, fingerprints and the text of the SDP do not decide
  which m= line is which; they are left out of `RemoteSdp` and the handlers. The
  session version is written and never read.
* mids are numbers. libwebrtc numbers the mids of its own offers by a counter,
  so that transceiver *n* gets mid *n*; the server numbers those of consumers.
* `Ortc` keeps of a codec its MIME type, kind, channels, payload type, apt, the
  H264 level, level asymmetry and RTCP feedback; `profile` stands for what else a
  strict match compares (H264 profile and packetization mode, VP9 `profile-id`).
  Parameters that nobody looks at are left out. An RTX codec without `apt` is
  not modelled. A codec of the router may come without a payload type, which
  validation allows: what reads it through `operator[]` then finds null
  (`PayloadTypeOf`).
* `SendHandler` and `RecvHandler` have the order and the failures of a call and
  no media, `Media` has the media and no order: a call is one step there. The
  two halves meet in the sections, whose lines `Media` takes from a libwebrtc
  that gives them the SSRCs and extensions of its choice. `Media` has no `codec`
  argument (`Device` has it) and no kind without a codec (`DeviceKind`).
* Of an encoding, `Media` keeps `active`, RID, maximal bitrate and scalability
  mode; the other members are copied like the bitrate. A scalability mode is
  its letter and its numbers of layers.
* `UpdateIceServers`, `ReplaceTrack` and the statistics change nothing that is
  modelled (they touch the configuration, or the track of a live sender).
* Calls that throw before they have changed anything are not steps.
* `Close` falls between any two *steps*: before or after the part of a call in
  front of its wait, and before or after the part behind it. A `Close` in the
  middle of one part ends the call with a throw at the next use of the peer
  connection; the states it leaves are not modelled one by one. The peer
  connection is closed in all of them, and every property that follows is about
  a transport that is not, or about what the call may not undo.
* What two threads in calls of the same transport at once do to its data is not
  modelled: the code has no protection at all there, and the headers promise none.
  `Calls` lets such calls interleave, and asks only whether they return.
* Errors of libwebrtc other than those the handlers provoke (a closed connection,
  a description that does not fit, a stream id in use) are left out.

## 3. The runs

| run | checks | shows | instance |
|---|---|---|---|
| `RemoteSdp` | `MidIndexExact`, `PublishedSdpIsCurrent`, `FirstSectionKeepsBundle`, `SectionsShareTransport`, `ImplementsMLineTable` | in every order of adding, closing, recycling, ICE restarts and role changes, the object is consistent and the SDP it publishes moves as `MLineTable` allows | 4 RTP mids and the data mid, 2 sets of credentials, both kinds of owner |
| `SendHandler` | `NegotiationInStep`, `ProducersMatchSections`, `DtlsRoleSettled`, `RemoteSdpUsedAsSpecified`, `FailedSendIsFinal` | as long as no call has failed halfway, peer connection and `RemoteSdp` agree; no call ever harms another producer, failed calls included; the handler meets the assumptions of `RemoteSdp!Next`; and after a `Send` that was undone no later one succeeds | 3 transceivers, 4 sections, 2 stream ids, 2 sets of credentials, all 3 DTLS roles |
| `SendUndo` | `UndoneSendLeavesNoTrace` is **violated** | the catch block that says "Try to undo things" leaves a transceiver that every later offer contains | 2 transceivers |
| `RecvHandler` | `NegotiationInStep`, `RetryWithNewMidFits`, `ConsumersMatchSections`, `OwnMidsAreNew`, `RemoteSdpUsedAsSpecified` | the same for the receiving side; a consumer that failed in `OnConnect` can be followed by one with another mid | 3 server mids, the probator, data, 4 sections, 2 stream ids |
| `RecvRole` | `AnnouncedDtlsRoleIsTaken` is **violated** | with a forced role the application is told one DTLS role and the peer connection takes the other | 1 mid |
| `Device` | `RecvCapsMatchRouter`, `ConsumableIffAnnounced`, `SendParamsAgree`, `FeedbackHasItsExtension` | negotiation is right for every ordered choice of up to 4 of 8 router codecs, after a `Load` that failed as well | 2 offers of libwebrtc, ~25 000 capability states |
| `DeviceCodec` | `GivenCodecIsFound` is **violated** | `reduceCodecs` with a given codec reads behind the end | 1 router codec |
| `DeviceKind` | `KindWithoutCodecIsRefused` is **violated** | the guard of `Produce` asks for a map entry that is always there | 1 router codec |
| `Calls` | `EveryCallReturns`, `NothingEndsSelfWait`, `QuietAfterClose` | every call returns, whatever interleaves with it, except one that the application makes from `OnConnectionStateChange` and that has to wait for an observer: that one never returns, and takes the whole transport with it; and when `Close` returns, no callback runs or will run | one thread that makes any call, one that closes or restarts ICE, any call from a callback, one queued ICE change |
| `Lifetime` | `CallbackHasItsObjects`, `CallHasItsObjects`, `OnlyListenersLeak` | two rules are enough for an application to never meet a deleted object: in Java, nothing is called on a transport from the start of `close()` on, and `close()` not during a call; in both bindings, the device outlives the last `Produce`, `Consume` and creation. Callbacks are safe without the second, and whether or not a transport is closed before it is deleted. Listeners are all that is never deleted | two transports, one device, two threads, one queued ICE change each; both bindings |
| `Media` | `EncodingsDescribeSection`, `SenderMatchesTold`, `OptionsStayWithTheirProducer`, `AnswerAgreesWithTold`, `RefusedProduceSendsNothing`, `ProducedIsConsumable`, `ConsumedStreamIsOffered`, `ChannelIsAsTold` | four parties are told about one stream by separate code (libwebrtc's sender, the section, the server, the answer in the server's name) and agree; codec options do not spread to the next producer; a refused `Produce` is undone; what is produced can be consumed | 3 devices, 6 choices of encodings, 2 of codec options, 2 producers, 2 calls of `Consume`, SSRCs that wrap around; channels with 2 stream ids and all limits of -1, 0, 1 |
| `DataLimits` | `OneLimitIsAccepted` is **violated** | no call of `ProduceData` can give a channel a packet lifetime | the first call |

Every run also has a `TypeOK`, and every property of a passing run has in
`PROJECT.json` a mutant of the code, a plausible bug written as an operator
marked "Fault" beside the operator it replaces, under which TLC finds the
property violated.

### Bounds, and why they are enough

* `RemoteSdp`: no bound besides the mids; a mid that was replaced is free again,
  so behaviours are infinite. Recycling needs a first section, two closed ones
  (to tell the first closed from the last) and a mid to put in their place: four.
* `SendHandler`: `MaxTransceivers` = 3 gives the section that cannot be closed,
  one that is closed, and one that recycles it or meets the remains of a failed
  call. `MaxSections` = 4 lets the data section in beside them.
  `SctpNumStreams` = 2 for 1024 makes the stream id wrap while channels are open.
* `RecvHandler`: `MaxSections` = 4. `NotRepeated` is a state constraint:
  a state in which a mid was given to a second section is checked, and not
  continued, because nothing can be claimed after it (finding out that it is
  reached is what `OwnMidsAreNew` and `RemoteSdpUsedAsSpecified` are stated around).
* `Device`: `MaxCodecs` = 4 lets two codecs match the same local one, each with
  or without its RTX codec, in any order. Beside these lists there are four with
  a codec that has no payload type, among them an RTX codec that hides the one
  behind it.
* `Media`: one to three encodings, the third of them the last that
  `SetMaxSpatialLayer` knows. Two producers are enough for one to find what the other has left; a
  third finds no more, because what a call of `Produce` reads of the past is
  `sendingRtpParametersByKind` alone. Two calls of `Consume` tell the first
  video consumer from the next. `SsrcSpace` = 20 for 2^32 lets three layers wrap
  around once without meeting their RTX SSRCs. No mode has more than three spatial
  layers, as in VP9: with four, `SetMaxSpatialLayer`, which knows three encodings,
  would leave the fourth on above one that is off, and `SenderMatchesTold` would
  not hold. `OneSideAtATime` leaves out the
  interleaving of media and data channels, which share no variable: a step of
  one changes no property of the other.
* `Calls`: one thread in a call and one that closes put `Close` on every step of
  every call; `MaxChanges` = 1 bounds the ICE changes *waiting*, not their number,
  so callbacks come between any two steps, again and again.
* `Lifetime`: two transports share the signaling thread and the device; of two
  threads, one calls or is called back for one transport while the other closes,
  deletes or disposes. Transports, and threads, are symmetric.
* `CHECK_DEADLOCK FALSE` in the runs of the handlers, of `Media`, `Calls` and
  `Lifetime`: `Media` stops at its bounds; a transport that is closed does nothing any more, nor does a
  signaling thread that waits for itself, or a program whose behaviour is undefined.

### Fairness

Only `Calls` assumes any; all other properties are safety and action properties.
Its fairness is weak, per thread: the operating system schedules the application
threads; the signaling thread takes the messages of its queue in order (weak
fairness is enough because a caller *posts* its use of the peer connection and
keeps its place in the queue); the application returns from its callbacks, and
answers the future of `OnConnect`. The last is the interface's one demand on the
application, and it holds after `Close` as well: `Close` neither answers nor
abandons the future (T:119). Nobody has to start a call, and the ICE
state need not change.

## 4. What is proved

`RemoteSdpProofs` holds machine-checked proofs about `RemoteSdp`, for any set of
mids, credentials and any number of sections, from the one assumption
`RemoteSdpAssumption` (the data mid is a mid, the empty string is not).

| theorem | states |
|---|---|
| `TypeCorrect` | `Spec => []TypeOK` |
| `MidIndexAlwaysExact` | `Spec => []MidIndexExact` |
| `PublishedSdpAlwaysCurrent` | `Spec => []PublishedSdpIsCurrent` |
| `FirstSectionAlwaysBundled` | `Spec => []FirstSectionKeepsBundle` |
| `TransportAlwaysShared` | `Spec => []SectionsShareTransport` |
| `Refinement` | `Spec => ImplementsMLineTable` |

None of the invariants is inductive alone. `MidIndexExact` is lost if the
operations are looked at without it (replacing a section erases the entry of the
mid that stood there: only if the map was exact is that the entry of this
section), and it is what turns "a new mid" from `mid \notin DOMAIN midToIndex`,
which is what the code can see, into "a mid of no section", which is what the
table needs. `FirstSectionKeepsBundle` needs it in turn: `CloseMediaSection`
spares the section whose *mid* is `firstMid`, and only exactness says that this
is the section at the front. `PublishedSdpIsCurrent` makes all of it a statement
about what the peer connection reads. The inductive invariant `IInv` is the
conjunction of all of them with `TypeOK`. `InitIInv` and `NextIInv` prove it,
with one step per operation. Most of the work is in lemmas on the three shapes
an operation has: a section is appended, a section takes the place of another,
sections are changed in place. `Refinement` maps each step to `AddLine`,
`Recycle`, `Reject` or a stutter under the invariant.

`MediaProofs` holds proofs about `Media`, for any capabilities, encodings,
options, SSRCs, limits and number of streams.

| theorem | states |
|---|---|
| `ChannelAlwaysAsTold` | `Spec => []ChannelIsAsTold` |
| `ProducersInvariance` | `Spec => []ProducersInv` |
| `OptionsAlwaysStay` | `Spec => []OptionsStayWithTheirProducer` |
| `AnswerAlwaysAgrees` | `Spec => []AnswerAgreesWithTold` |
| `ProducedAlwaysConsumable` | `Spec => []ProducedIsConsumable` |
| `StreamsInvariance` | `Spec => []StreamsInv` |
| `MediaTypeCorrect` | `Spec => []TypeOK` |
| `EncodingsAlwaysDescribe` | `Spec => []EncodingsDescribeSection` |
| `SenderAlwaysMatches` | `ThreeLayers`: `Spec => []SenderMatchesTold` |
| `RefusedAlwaysSendsNothing` | `Spec => []RefusedProduceSendsNothing` |
| `ConsumersInvariance` | `Spec => []ConsumersInv` |
| `ConsumedAlwaysOffered` | `Spec => []ConsumedStreamIsOffered` |

The first rests on `DataChannelsAssumption`: limits are integers, and the
absence of a member is none of its values. The property is inductive by itself,
since no channel is changed after it has been made; the work is in the lemmas on
one channel: what `EffectiveLimit` makes of a limit for libwebrtc and what the
validation makes of it for the server mean the same (0, which is "not given" for
`ProduceData` and "none" for the server, is where they could part), and an
ordered channel never gets that far with a limit. Two producers differ because
libwebrtc refuses an id that is in use, not because ids do not come back.

The next three follow from `ProducersInv`. It has, beside what they say of each
producer, the form of the records and that what was negotiated for a kind is
what it was when the transport was created (`NegotiatedKept`, which is false of
code that works on the member instead of a copy). The lemmas follow the codecs
through `Send`: `ReduceCodecs` leaves the codec and its RTX codec, both in what
is offered and in what is answered, at the same payload types
(`AnsweringCodecs`); so the answer has an opus codec at the payload type of the
first codec exactly if that is opus (`AnsweringFirst`); `WithOptions` changes
the keys of the given options and no other (`OptionsGiven`, from the
injectivity of both tables of option names, `ToldKeys` and `OpusKeys`), so that
an option has the same value in the answer and in what the server is told
(`AnswerIsTold`); and neither validation nor a spatial layer touches the codecs.
`ProducedAlwaysConsumable` adds that options are numbers by then
(`ToldIsNumbers`), since a boolean parameter is what validation refuses. It rests
on `ExtendedCapsAssumption`: no negotiated codec is RTX and none has a boolean
parameter, both as `GetExtendedRtpCapabilities` and the validation of
capabilities (`src/src/ortc.cpp:150`) leave it, and the router gives its codecs
payload types, its own to the RTX codec of each. The last is not checked by the
code; `Device` also covers a router that does not.

`StreamsInv` adds to `ProducersInv` that each producer is sent as it is told
(`SendsAsTold`): either the server was told of it, and sender, section and
encodings fit (`TellsTruly`), or it was refused and has nothing left
(`RefusedQuietly`). That is decided in one call of `Produce`, so the work is in
what the call computes, in the three cases of `SendSends`: simulcast with RIDs
(`SendsSimulcast`), one stream (`SendsOne`), and VP9 with as many layers as its mode
has (`SendsSvc`). Only the first SSRC and its RTX SSRC are told of a section with
layers, and `TellsStreams` says that they head as many streams as there are
layers, all different. `getRtpEncodings` has to find that first SSRC in a list
with two lines for each stream and RTX stream: `FlattenedLines` says where each
line of the list comes from, by the least index at which it would not;
`RtxIs` and `FidOfLayer` find the group of an SSRC, and `SvcCount` counts the
SSRCs by their injection from the layers, which is where the wrap at 2^32 comes in
(`WrapsInjective`). `ValidTells` and `RefusedTells` then take the two ends of the
call: nothing but an empty scalability mode can be refused (`ToldCodecsValid`),
validation fills in defaults and leaves the streams, and `CloseSection` leaves no
line of a stream. `SetMaxSpatialLayer` changes the sender alone (`LayerTells`).

These theorems rest on three more assumptions.
`EncodingsAssumption`: at most three encodings, the number that has RIDs in the
model (the code numbers any number of them). `StreamsAssumption`: the SSRCs of
the layers and of their RTX streams are apart; `addLegacySimulcast` counts on from
two numbers that libwebrtc drew at random of 2^32 and never compares them, so this
holds but for a chance of about one in a billion, and without it two streams
would share an SSRC. `ThreeLayers`, the hypothesis of `SenderAlwaysMatches` alone:
no mode has more than three spatial layers. `parseScalabilityMode` would take
more, and of four `SetMaxSpatialLayer` would leave the fourth as it was; the
other theorems hold for up to 99 layers.

`ConsumersInv` says of each consumer that its section says what the server sends and
that the answer has its codecs (`OfferedAsSent`), and of the probator that it is
there once from the first consumer of video on, directly behind it. It needs
`StreamsInv`: a consumer is told apart from the probator by its CNAME, which is that
of a producer (`TellsTruly`). Reading a section back is the same
`getRtpEncodings`, of one stream (`StreamRead`).

`SendHandlerProofs` holds proofs about `SendHandler`, for any values of its
bounds. It assumes what `SendHandlerAssumption` says of the constants: the
markers for no mid and for the data section are not numbers of transceivers.

| theorem | states |
|---|---|
| `TypeCorrect` | `Spec => []TypeOK` |
| `AlwaysInStep` | `Spec => []NegotiationInStep` |
| `ProducersAlwaysMatch` | `Spec => []ProducersMatchSections` |
| `DtlsRoleAlwaysSettled` | `Spec => []DtlsRoleSettled` |
| `FailedSendAlwaysFinal` | `Spec => FailedSendIsFinal` |
| `RemoteSdpAlwaysUsedAsSpecified` | `Spec => RemoteSdpUsedAsSpecified` |

The properties speak of the moments between two calls and mostly of transports
on which nothing has failed; the inductive invariant has to say what is left when
a call waits, and when one has failed. Its parts: the peer connection is well
formed and a section stands where the peer connection has the line with its mid,
unless the transceiver of that mid is gone (`Aligned`); the offer in the locals
of a waiting call is one that was made of this peer connection, up to what may have
changed since (`Waiting`, `Offers!OfferOf`); what a producer has it keeps
whatever fails (`Producers`); without a failure both tables have the same lines
(`InStep`); and after a `Send` that was undone there is a transceiver that no
answer accounts for, which is why no answer will ever fit again (`Lagging`). That
the two tables recycle the *same* line is the crux: `RemoteSdp` looks for the first
closed section, the peer connection for the first line whose transceiver has
stopped, and only while nothing has failed are these the same lines. The lemmas
on offers (which lines they have and where, what an answer does to transceivers)
are in `JsepProofs`, which knows nothing of the handler.

`RecvHandlerProofs` holds those about `RecvHandler`, for any finite or infinite
set of server mids, from `RecvHandlerAssumption`.

| theorem | states |
|---|---|
| `TypeCorrect` | `Spec => []TypeOK` |
| `AlwaysInStep` | `Spec => []NegotiationInStep` |
| `RetryAlwaysFits` | `Spec => []RetryWithNewMidFits` |
| `ConsumersAlwaysMatch` | `Spec => []ConsumersMatchSections` |
| `OwnMidsAlwaysNew` | `Spec => []OwnMidsAreNew` |
| `RemoteSdpAlwaysUsedAsSpecified` | `Spec => RemoteSdpUsedAsSpecified` |

As long as no mid is given to a second section the handler uses `RemoteSdp` as
its specification says, so `RecvHandlerProofs` takes the lemmas of
`RemoteSdpProofs` by `INSTANCE` and has its invariant as the part `Exact`. What
the peer connection was offered is what `RemoteSdp` would offer now, *also while
nobody has answered* (`Offered`), because the offer is applied before the wait:
that is why a retry fits. `Numbered` is what makes the handler's own mids new: a
mid is the number of consumers so far, and every mid in the table is below
that number, but for the probator's and the data section's. With a repeated mid
only the types and the range of the indices survive (`Arrays`); the run does not
go there, the theorem `TypeCorrect` does.

`DeviceProofs` holds those about `Device`, for any offers of libwebrtc and any
capabilities of routers that `DeviceAssumption` calls well formed: lists are
finite, an offer has at most one section of a kind and one fmtp line of a codec,
a line with `apt` is one of an RTX codec, and no payload type is given twice.

| theorem | states |
|---|---|
| `TypeCorrect` | `Spec => []TypeOK` |
| `RecvCapsAlwaysMatchRouter` | `Spec => []RecvCapsMatchRouter` |
| `AlwaysConsumableIffAnnounced` | `Spec => []ConsumableIffAnnounced` |
| `SendParamsAlwaysAgree` | `Spec => []SendParamsAgree` |
| `FeedbackAlwaysHasItsExtension` | `Spec => []FeedbackHasItsExtension` |

The invariant is short: a device has never been loaded, or has exactly what the
last `Load` negotiated, and a transport has what follows from that. The work is in
what `Load` computes. Its lists are built by a fold over the codecs of the
router, by a concatenation of lists and in the order of a map, and no induction
principle can be cited; the lemmas argue from the least index at which they would fail
(`AllNumbers`). `Negotiated` is the invariant of the fold: each codec so far
comes from one of ours and one of the router, our level has only been lowered,
payload types of the router differ, and no match is left out. `OrderedByPt`
shows by counting that the order by payload type loses no codec, `FlattenPlaces`
says where each element of a concatenation comes from, which is what "right
behind its codec" needs, and `AddRtxAgrees` when a codec gets its RTX codec.

`CallsProofs` holds those about `Calls`, for any set of application threads and
any rules of who may call what. `CallsAssumption` asks that the signaling
thread is not one of the application's, and no thread is the marker for none.

| theorem | states |
|---|---|
| `TypeCorrect` | `Spec => []TypeOK` |
| `AlwaysQuietAfterClose` | `Spec => []QuietAfterClose` |
| `SelfWaitIsFinal` | `Spec => NothingEndsSelfWait` |

Each thread that waits for the queue has exactly one message about it there
(`Promised`, `OnlyOne`), and that message fits its wait (`Expected`).
`SelfWaitIsFinal` needs that the signaling thread is inside its callback when it
waits for itself, so that it takes no message; `AlwaysQuietAfterClose` that
`Close` on an application thread is itself a turn of the signaling thread, taken
when no callback runs.

`LifetimeProofs` holds those about `Lifetime`, for any set of transports and
threads and any number of queued ICE changes.

| theorem | states |
|---|---|
| `TypeCorrect` | `Spec => []TypeOK` |
| `CallbackAlwaysHasItsObjects` | `Spec => []CallbackHasItsObjects` |
| `CallAlwaysHasItsObjects` | `Spec => []CallHasItsObjects` |
| `OnlyListenersEverLeak` | `Spec => []OnlyListenersLeak` |

The invariant says for each state of a handle which objects exist and which calls may
still be in progress on it (`Handles`), which calls have a transport to
themselves (`Exclusive`), and, for each rule that the application has not
broken, what it buys: with the first, one `close()` of Java is the only one and
leaves no callback before it deletes the listener (`ClosedOnce`); with the second,
nothing is in progress that needs the device when the device goes (`DeviceLives`).

### What is only model-checked

* Liveness, `EveryCallReturns`: it needs fairness and `ENABLED`. Every other property of a
  passing run is a theorem.
* What libwebrtc does (`Jsep`, `JsepAnswerer`) is assumed, in the model
  and in the proofs alike.

No module declares a `RECURSIVE` operator; recursion is in functions and in the
folds of the community modules.

## 5. Where code and comments disagree

1. `SendUndo`: H:274 says "Panic here. Try to undo things."; the catch block
   makes the transceiver inactive but leaves it in the peer connection. The next
   offer has an m= line for it, `RemoteSdp` answers with one line less, and every
   later `Produce`, `CloseProducer` or ICE restart on that transport throws. A
   rejected `OnConnect`, the failure an application expects, is enough.
2. `RecvRole`: `include/Handler.hpp:77` says a role other than "auto" "will
   force the opposite value in client side". In an offer `SetDtlsRole` (M:591)
   writes `actpass` whatever the role, libwebrtc answers as the client, and
   `OnConnect` has announced "server".
3. `DeviceCodec`: O:1587 reads `codecs[idx + 1]` unasked where O:1575 asks. The
   JSON array grows by a null and the call throws: `Produce` with a given codec
   works only if there is an RTX codec behind it.
4. `DeviceKind`: T:208 asks `find(kind) == end()` of a map that has both kinds
   from the start (`include/Device.hpp:69`), so a kind that cannot be
   produced gets through and `Send` fails after it has added a transceiver,
   with the consequence of 1.
5. `DataLimits`: T:284 reads a `maxRetransmits` of -1 as "not given", T:288 one
   of 0, which is the default (`include/Transport.hpp:122`). With the default a
   packet lifetime is refused with "Cannot set both maxRetransmits and
   maxPacketLifeTime"; with -1 it gets further, and O:675 refuses the -1 as a
   second limit. No call can set a packet lifetime.

`applyCodecParameters` (`src/sdp/Utils.cpp:524`) looks for a `sprop-stereo`
that is a boolean, and O:394 throws for a codec parameter that is one: the
branch is dead. `MediaSections` has it as it is; no text says what was meant, so
there is no property about it.

## 6. Not modelled, and why

* `DisableMediaSection` (R:247): no caller.
* `Producer`, `Consumer`, `DataProducer`, `DataConsumer`: never constructed.
* The validators of ICE, DTLS and SCTP parameters and of SCTP capabilities: they
  look at the shape of JSON that the application hands through, and nothing
  depends on them but that they throw. `extractDtlsParameters`: only the
  fingerprint of its result is used, which no module has. `Logger`.
* In all validators, members of a wrong JSON type: the application's and the
  server's JSON is taken to have the members of its documentation, some of
  which may be missing.
* `src/jni/TransportJni.hpp`: all of it is commented out.
* Of the bindings, the conversion of arguments and results, and the methods of
  the device that create nothing. That nothing in `jni/` catches what C++ throws
  is in `Lifetime` as the end of the behaviour: on Android a failed `produce`
  ends the process, so the states behind a failure that `SendHandler` and
  `RecvHandler` explore belong to C++ and Objective-C applications.
* A second `Close` on another thread returns at once, while the first may still
  wait (T:58): `QuietAfterClose` is about the `Close` that closes.
* Tests, vendored libraries (libsdptransform, nlohmann/json, catch), build files.

## 7. Plan

Done: all modules of section 2 with their runs, and the proofs of section 4.

Open: nothing that a run checks, but liveness. What section 6 leaves out is left
out for the reasons given there.
