---------------------------- MODULE ExchangeStreams ----------------------------
(***************************************************************************)
(* One thermal exchange of CHT is submitted to eleven streams by five      *)
(* owners that lend each other their buffers.  The host waits for nothing  *)
(* but downloads; all other order is made by events.  What a kernel reads  *)
(* has to be what it would read if every call were synchronous.            *)
(*                                                                         *)
(* A kernel waits for a set of kernels: those its stream had to follow     *)
(* when it was submitted.  The content of a buffer is the number of the    *)
(* kernel that wrote it.                                                   *)
(*                                                                         *)
(* The specification is StreamsSpec, since its proofs extend this module   *)
(* together with ThermalExchange, the host's view of the same exchanges.   *)
(***************************************************************************)
EXTENDS Integers, Sequences

CONSTANT MaxExchanges   \* bound of the exploration

Regions == {"primary", "auxiliary"}

\* Each region has its own iteration graph, its owners of properties and diffusion, and
\* their buffers.
Solid == [primary |-> "primary solid", auxiliary |-> "auxiliary solid"]
Properties == [primary |-> "primary properties", auxiliary |-> "auxiliary properties"]
Diffusion == [primary |-> "primary diffusion", auxiliary |-> "auxiliary diffusion"]
Temperature == [primary |-> "primary temperature", auxiliary |-> "auxiliary temperature"]
Evaluation == [primary |-> "primary evaluation", auxiliary |-> "auxiliary evaluation"]

Streams == {"null", "transport", "material", "contact", "energies"}
  \union UNION {{Solid[r], Properties[r], Diffusion[r]} : r \in Regions}

Temperatures == {Temperature[r] : r \in Regions}
SolidBuffers == Temperatures \union {Evaluation[r] : r \in Regions}
Buffers == {"parcels", "moments", "ledger", "sums", "wall", "input", "result",
            "heat", "boundaryHeat", "interval", "preview", "contactEnergy",
            "interface"} \union SolidBuffers

VARIABLES
  threeRegion,  \* a second solid, in contact with the first
  exchange,     \* how many have been started
  stage,        \* the next call of the host
  due,          \* radiation is part of this exchange
  writing,      \* the exchange is at a write time
  follows,      \* for each stream, the kernels that its next one follows
  program,      \* content of the buffers if all that is submitted had run
  memory,       \* content of the buffers
  pending,      \* submitted kernels that have not run
  submitted,    \* their number so far
  awaited,      \* the download that blocks the host, or 0
  misread       \* history: buffers that were read too early or too late

hostVars == <<threeRegion, exchange, stage, due, writing>>
deviceVars == <<follows, program, memory, pending, submitted, awaited, misread>>
streamsVars == <<hostVars, deviceVars>>

Region == IF threeRegion THEN Regions ELSE {"primary"}

StreamsInit ==
  /\ threeRegion \in BOOLEAN
  /\ exchange = 0 /\ stage = "advance"
  /\ due = FALSE /\ writing = FALSE
  /\ follows = [s \in Streams |-> {}]
  /\ program = [b \in Buffers |-> 0] /\ memory = program
  /\ pending = {} /\ submitted = 0 /\ awaited = 0
  /\ misread = {}

----------------------------------------------------------------------------
(* What the host submits: kernels, and events that one stream records and  *)
(* another waits for.                                                      *)

Kernel(stream, reads, writes) ==
  [kind |-> "kernel", stream |-> stream, reads |-> reads, writes |-> writes]
\* One event of the producer, for all of these streams.
WaitsFor(streams, producer) == [kind |-> "wait", streams |-> streams, producer |-> producer]

\* cudaEventRecord takes in all that the producer has been given so far.
Submitted(call, s) ==
  IF call.kind = "wait"
    THEN [s EXCEPT !.follows = [t \in Streams |->
            IF t \in call.streams THEN s.follows[t] \union s.follows[call.producer]
                                  ELSE s.follows[t]]]
    ELSE LET number == s.submitted + 1 IN
         [submitted |-> number,
          follows |-> [s.follows EXCEPT ![call.stream] = {number}],
          program |-> [b \in Buffers |-> IF b \in call.writes THEN number ELSE s.program[b]],
          pending |-> s.pending \union
            {[number |-> number, after |-> s.follows[call.stream],
              writes |-> call.writes, expects |-> [b \in call.reads |-> s.program[b]]]}]

\* What has been submitted so far, and after each of the calls.
Present == [submitted |-> submitted, follows |-> follows, program |-> program, pending |-> pending]
Course(calls) ==
  LET s[n \in 0 .. Len(calls)] == IF n = 0 THEN Present ELSE Submitted(calls[n], s[n - 1])
  IN s
Submit(calls) ==
  LET s == Course(calls)[Len(calls)]
  IN /\ submitted' = s.submitted /\ follows' = s.follows
     /\ program' = s.program /\ pending' = s.pending
     /\ UNCHANGED <<memory, misread>>

Unfinished == {k.number : k \in pending}
Calls(at, next) == stage = at /\ awaited \notin Unfinished /\ stage' = next
Asynchronous == UNCHANGED awaited

\* A kernel runs once all it follows have run.
Execute(k) ==
  /\ k.after \cap Unfinished = {}
  /\ pending' = pending \ {k}
  /\ memory' = [b \in Buffers |-> IF b \in k.writes THEN k.number ELSE memory[b]]
  /\ misread' = misread \union {b \in DOMAIN k.expects : memory[b] # k.expects[b]}
  /\ UNCHANGED <<hostVars, follows, program, submitted, awaited>>

----------------------------------------------------------------------------
(* The calls of an exchange, in the order of the host.                     *)

\* Gas and particle steps up to the next exchange, on the null stream.
AdvanceFluid ==
  /\ exchange < MaxExchanges
  /\ due' \in BOOLEAN /\ writing' \in BOOLEAN
  /\ Calls("advance", IF due' THEN "borrow" ELSE "preview")
  /\ exchange' = exchange + 1
  /\ Submit(<<Kernel("null", {"wall", "parcels", "ledger"}, {"parcels", "moments", "ledger"})>>)
  /\ Asynchronous /\ UNCHANGED <<threeRegion>>

BorrowRadiationParticleState ==
  /\ Calls("borrow", "transport")
  /\ Submit(<<Kernel("null", {"parcels"}, {"sums"})>>)
  /\ Asynchronous /\ UNCHANGED <<threeRegion, exchange, due, writing>>

\* The inputs are imported; what was lent is free again; the solve goes on alone.
TransportSolve ==
  /\ Calls("transport", "material")
  /\ Submit(<<WaitsFor({"transport"}, "null"),
              Kernel("transport", {"sums", "wall"}, {"input"}),
              WaitsFor({"null"}, "transport"),
              Kernel("transport", {"input"}, {"result"})>>)
  /\ Asynchronous /\ UNCHANGED <<threeRegion, exchange, due, writing>>

\* The response reads the parcels themselves, not the imported sums.
MaterialSolve ==
  /\ Calls("material", "preview")
  /\ Submit(<<WaitsFor({"material"}, "transport"),
              Kernel("material", {"parcels", "input", "result"}, {"heat", "boundaryHeat"}),
              WaitsFor({"transport"}, "material")>>)
  /\ Asynchronous /\ UNCHANGED <<threeRegion, exchange, due, writing>>

PreviewCallsAtOnce ==
  <<Kernel("null", {}, {"interval"}),
    Kernel("null", {"ledger"} \union (IF due THEN {"boundaryHeat"} ELSE {}), {"preview"})>>
PreviewCalls ==
  IF due
    THEN <<Kernel("null", {}, {"interval"}),
           WaitsFor({"null"}, "material"),
           Kernel("null", {"ledger", "boundaryHeat"}, {"preview"}),
           WaitsFor({"material"}, "null")>>
    ELSE <<Kernel("null", {}, {"interval"}), Kernel("null", {"ledger"}, {"preview"})>>

PreviewInterfaceExchangeDevice ==
  /\ Calls("preview", "solid")
  /\ Submit(PreviewCalls)
  /\ Asynchronous /\ UNCHANGED <<threeRegion, exchange, due, writing>>

\* The graph of one region works on the buffers of two owners, in a stream of its own.
SolidKernel ==
  Kernel(Solid["primary"], {"preview", "interval", Temperature["primary"]},
         {Temperature["primary"], Evaluation["primary"]})
SolidCallsUnowned ==
  <<WaitsFor({Solid["primary"]}, "null"), SolidKernel, WaitsFor({"null"}, Solid["primary"])>>
SolidCalls ==
  <<WaitsFor({Solid["primary"]}, "null"), SolidKernel,
    WaitsFor({"null", Properties["primary"], Diffusion["primary"]}, Solid["primary"])>>

\* acceptExternalExecution: the region's stream and its owners follow the contact graph.
AcceptedBy(region) == {Solid[region], Properties[region], Diffusion[region]}

ContactCalls ==
  <<WaitsFor({"contact"}, "null"),
    Kernel("contact", {"preview", "interval"} \union Temperatures,
           SolidBuffers \union {"contactEnergy"}),
    WaitsFor(AcceptedBy("primary") \union AcceptedBy("auxiliary"), "contact"),
    WaitsFor({"null", "energies"}, "contact")>>

EnqueueSolid ==
  /\ Calls("solid", IF due THEN "apply" ELSE "reset")
  /\ Submit(IF threeRegion THEN ContactCalls ELSE SolidCalls)
  /\ Asynchronous /\ UNCHANGED <<threeRegion, exchange, due, writing>>

ApplyParticleRadiationDeviceEnergy ==
  /\ Calls("apply", "reset")
  /\ Submit(<<WaitsFor({"null"}, "material"),
              Kernel("null", {"heat", "parcels"}, {"parcels", "sums"}),
              WaitsFor({"material"}, "null")>>)
  /\ Asynchronous /\ UNCHANGED <<threeRegion, exchange, due, writing>>

Publish == [primary |-> "publish primary", auxiliary |-> "publish auxiliary"]

ResetWallLedgers ==
  /\ Calls("reset", IF writing THEN Publish["primary"] ELSE "map")
  /\ Submit(<<Kernel("null", {}, {"ledger"})>>)
  /\ Asynchronous /\ UNCHANGED <<threeRegion, exchange, due, writing>>

\* A download waits in the owner's stream and the host waits for it.
Download(stream, buffer) ==
  /\ Submit(<<Kernel(stream, {buffer}, {})>>)
  /\ awaited' = submitted'

PublishResident(region) ==
  /\ Calls(Publish[region], IF region = "primary" /\ threeRegion THEN Publish["auxiliary"] ELSE "map")
  /\ Download(Diffusion[region], Temperature[region])
  /\ UNCHANGED <<threeRegion, exchange, due, writing>>

\* updateSolidInterfaceState: the fluid reads what the owner of the properties has made.
UpdatedUnordered == <<Kernel("null", {"interface"}, {"wall"})>>
Updated ==
  <<WaitsFor({"null"}, Properties["primary"]),
    Kernel("null", {"interface"}, {"wall"}),
    WaitsFor({Properties["primary"]}, "null")>>

\* interfaceState by the owner of the properties, whose results share their diagnostics with
\* the solid graph; then the update of the fluid.
MapSolidWallTemperatureToFluid ==
  /\ Calls("map", IF due THEN "refresh" ELSE IF writing THEN "mirror" ELSE "advance")
  /\ Submit(<<WaitsFor({Properties["primary"]}, Diffusion["primary"]),
              WaitsFor({Properties["primary"]}, "null"),
              Kernel(Properties["primary"],
                     {Temperature["primary"]}, {"interface", Evaluation["primary"]}),
              Kernel(Properties["primary"], {Evaluation["primary"]}, {})>>
            \o Updated)
  /\ Asynchronous /\ UNCHANGED <<threeRegion, exchange, due, writing>>

RefreshParticleEnthalpy ==
  /\ Calls("refresh", IF writing THEN "mirror" ELSE "advance")
  /\ Submit(<<Kernel("null", {"parcels"}, {"moments"})>>)
  /\ Asynchronous /\ UNCHANGED <<threeRegion, exchange, due, writing>>

\* downloadToHostMirror and collectInterfaceExchange; the preview outlives the ledgers.
DownloadMirrors ==
  /\ Calls("mirror", "advance")
  /\ Submit(<<Kernel("null", {"parcels", "moments", "wall"}, {}),
              Kernel("null", {"preview"}, {})>>)
  /\ awaited' = submitted'
  /\ UNCHANGED <<threeRegion, exchange, due, writing>>

AllDone ==
  stage = "advance" /\ exchange = MaxExchanges /\ pending = {} /\ UNCHANGED streamsVars

StreamsNext ==
  \/ AdvanceFluid \/ BorrowRadiationParticleState \/ TransportSolve \/ MaterialSolve
  \/ PreviewInterfaceExchangeDevice \/ EnqueueSolid \/ ApplyParticleRadiationDeviceEnergy
  \/ ResetWallLedgers \/ MapSolidWallTemperatureToFluid \/ RefreshParticleEnthalpy
  \/ DownloadMirrors \/ AllDone
  \/ \E region \in Region : PublishResident(region)
  \/ \E k \in pending : Execute(k)

StreamsSpec == StreamsInit /\ [][StreamsNext]_streamsVars

----------------------------------------------------------------------------
(* Properties.                                                             *)

\* However far the device is behind the host, and in whatever order the streams get on, a
\* kernel finds in every buffer, its own or lent, what it would find if each
\* call had waited for its kernels; and so does a download.
AsIfSynchronous ==
  /\ misread = {}
  /\ pending = {} => memory = program
=============================================================================
