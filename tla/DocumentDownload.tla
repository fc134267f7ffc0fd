---------------------------- MODULE DocumentDownload ----------------------------
(***************************************************************************)
(* The documents of one connection: its capability document, the visual     *)
(* assets which that declares, the public identity both belong to, and what *)
(* the page shows of them.  Documents are read range by range in bursts     *)
(* after a heartbeat, over sessions that end when the device restarts,      *)
(* perhaps with another firmware; the identity is read outside the session. *)
(*                                                                         *)
(* A document is known by its firmware, its bytes by the number of ranges   *)
(* and by whether all of them are right; a range is an exchange that only   *)
(* reads, so that one that is lost leaves nothing on the device.            *)
(***************************************************************************)
EXTENDS Integers, Sequences, SequencesExt

CONSTANTS
    Firmwares,        \* firmware builds, positive numbers
    CapabilityRanges, \* ranges of a firmware's capability document
    Visuals,          \* assets a firmware's capability declares, with repetitions
    Ranges,           \* ranges of an asset
    BurstOps,         \* CAPABILITY_RANGES_PER_HEARTBEAT, VISUAL_RANGES_PER_HEARTBEAT
    MaxAsset,         \* MAXIMUM_VISUAL_ASSET_BYTES
    MaxTotal,         \* MAXIMUM_VISUAL_ASSET_TOTAL_BYTES
    MaxBoots,         \* bound on device boots
    MaxLosses,        \* bound on exchanges that fail with a live device
    MaxGlitches,      \* bound on wrong ranges
    MaxQueue          \* bound on messages the page has not taken

VARIABLES
    state,     \* the DeviceState
    step,      \* the exchange the connection's task awaits, and what is left of its burst
    posted,    \* messages posted to the page, oldest first
    page,      \* the page's last snapshot and the documents it shows
    boot,      \* the device's boot
    firmware,  \* the firmware of that boot
    losses, glitches   \* disturbances so far

device == <<boot, firmware>>
faults == <<losses, glitches>>
vars == <<state, step, posted, page, device, faults>>

-----------------------------------------------------------------------------
(* Values.                                                                 *)

\* A document under way: how many ranges it has, and whether they are right.
NewDownload == [received |-> 0, right |-> TRUE, complete |-> FALSE]
NewVisual(asset, limit) ==
    [asset |-> asset, limit |-> limit, received |-> 0, right |-> TRUE, complete |-> FALSE]

\* DeviceState; 0 stands for none, <<0>> for visual assets not initialised.
NoAssets == <<0>>
NewState ==
    [session |-> 0, clock |-> 0, identity |-> 0,
     capability |-> NewDownload, of |-> 0, announced |-> FALSE, failed |-> FALSE,
     assets |-> NoAssets, downloads |-> <<>>, visualsPublished |-> 0]

Step(exchange, left) == [exchange |-> exchange, left |-> left]
Idle == Step("None", 0)
Finishing == Step("Finish", 0)

Initialized(s) == s.assets # NoAssets

\* What a snapshot says of the documents.
Snapshot(s) ==
    [kind |-> "Snapshot", identity |-> s.identity, capability |-> s.of,
     complete |-> s.capability.complete, failed |-> s.failed, asset |-> 0]
Capability(s) == [Snapshot(s) EXCEPT !.kind = "Capability"]
Visual(s, i) == [Snapshot(s) EXCEPT !.kind = "Visual", !.asset = s.downloads[i].asset]

-----------------------------------------------------------------------------
(* CapabilityDownloadMachine and VisualAssetDownloadMachine.               *)

\* accept_response: the last range counts only if the whole document is right.
AfterRange(download, total, right) ==
    LET last == download.received + 1 = total
    IN  IF last /\ ~ (download.right /\ right) THEN download
          ELSE [download EXCEPT !.received = @ + 1, !.right = @ /\ right, !.complete = last]

-----------------------------------------------------------------------------
(* The connection's state.                                                 *)

\* reset_capability_for_new_boot
ResetCapability(s) ==
    [s EXCEPT !.capability = NewDownload, !.of = 0, !.announced = FALSE, !.failed = FALSE,
              !.assets = NoAssets, !.downloads = <<>>, !.visualsPublished = 0]

\* capability_reconciles_identity
Reconciles(s) == s.of = s.identity

\* The assets to be read, each once (initialize_visual_assets).
Distinct(assets) ==
    LET found[n \in 0..Len(assets)] ==
          IF n = 0 THEN <<>>
          ELSE LET before == found[n - 1]
               IN  IF assets[n] \in ToSet(before) THEN before ELSE Append(before, assets[n])
    IN  found[Len(assets)]

\* What each capability declares.
Declares == [f \in Firmwares |-> Distinct(Visuals[f])]

InitializeVisuals(s) == [s EXCEPT !.assets = Declares[s.of]]

\* The sum of the first values of f.
SumTo(f, count) ==
    LET sum[n \in 0..count] == IF n = 0 THEN 0 ELSE sum[n - 1] + f[n] IN sum[count]

Retained(downloads) ==
    SumTo([i \in DOMAIN downloads |->
             IF downloads[i].complete THEN Ranges[downloads[i].asset] ELSE 0], Len(downloads))

\* The bound of the next download: its own, within what the others leave.
Limit(downloads) ==
    LET remaining == MaxTotal - Retained(downloads)
    IN  IF remaining < MaxAsset THEN remaining ELSE MaxAsset

Underway(s) == s.downloads # <<>> /\ ~ Last(s.downloads).complete

\* ensure_next_visual_download: Ok(true)...
NextVisual(s) ==
    Len(s.downloads) < Len(s.assets) /\ (Underway(s) \/ Limit(s.downloads) > 0)
\* ... and the download it leaves as the last.
EnsureNextVisual(s) ==
    IF Underway(s) THEN s
      ELSE [s EXCEPT !.downloads =
              Append(@, NewVisual(s.assets[Len(s.downloads) + 1], Limit(s.downloads)))]

\* Once a capability is complete it must name the connection's device; then a burst
\* of visual ranges begins (probe_device).
AfterCapability(s) ==
    IF ~ s.capability.complete THEN [state |-> s, step |-> Finishing]
    ELSE IF ~ Reconciles(s)
      THEN [state |-> [s EXCEPT !.failed = TRUE, !.session = 0], step |-> Finishing]
      ELSE LET initialized == IF Initialized(s) THEN s ELSE InitializeVisuals(s)
           IN  [state |-> IF NextVisual(initialized) THEN EnsureNextVisual(initialized)
                                                     ELSE initialized,
                step |-> IF NextVisual(initialized) THEN Step("Visual", BurstOps)
                                                    ELSE Finishing]

-----------------------------------------------------------------------------
(* The worker's task.                                                      *)

Go(next) == state' = next.state /\ step' = next.step

\* An exchange fails with a live device: the session is kept or opened again.
Loss(exchange, after) ==
    /\ step.exchange = exchange
    /\ losses < MaxLosses /\ losses' = losses + 1
    /\ state' \in {after, [after EXCEPT !.session = 0]}
    /\ step' = Finishing
    /\ UNCHANGED <<posted, page, device, glitches>>

\* connect_device: the session is opened...
Connect ==
    /\ step = Idle /\ state.session = 0
    /\ step' = Step("Identity", boot)
    /\ UNCHANGED <<state, posted, page, device, faults>>

\* Mutation: another device's documents are kept.
AfterIdentityKept(s, identity) == s

\* What an identity that is new to the connection discards.
AfterIdentity(s, identity) ==
    IF (s.identity # 0 /\ s.identity # identity) \/ (s.of # 0 /\ s.of # identity)
      THEN [ResetCapability(s) EXCEPT !.clock = IF s.identity = 0 THEN @ ELSE 0]
      ELSE s

\* ... and the public identity is read, perhaps of a later boot.
FetchIdentity ==
    /\ step.exchange = "Identity"
    /\ state' = [AfterIdentity(state, firmware) EXCEPT !.identity = firmware, !.session = step.left]
    /\ step' = Finishing
    /\ UNCHANGED <<posted, page, device, faults>>
IdentityLost == Loss("Identity", state)

\* The session of an earlier boot is refused, whatever is asked.
Refused ==
    /\ step.exchange \in {"Heartbeat", "Capability", "Visual"}
    /\ state.session # boot
    /\ state' = [state EXCEPT !.session = 0, !.failed = @ \/ step.exchange = "Capability"]
    /\ step' = Finishing
    /\ UNCHANGED <<posted, page, device, faults>>

\* probe_device: first the heartbeat.
Probe ==
    /\ step = Idle /\ state.session # 0
    /\ step' = Step("Heartbeat", 0)
    /\ UNCHANGED <<state, posted, page, device, faults>>

\* A clock model of another boot is an error that resets the connection.
Heartbeat ==
    /\ step.exchange = "Heartbeat" /\ state.session = boot
    /\ IF state.clock \notin {0, boot}
         THEN Go([state |-> [ResetCapability(state) EXCEPT !.clock = 0, !.identity = 0,
                                                           !.session = 0],
                  step |-> Finishing])
         ELSE LET sampled == [state EXCEPT !.clock = boot]
              IN  Go(IF sampled.capability.complete THEN AfterCapability(sampled)
                       ELSE [state |-> sampled, step |-> Step("Capability", BurstOps)])
    /\ UNCHANGED <<posted, page, device, faults>>
HeartbeatLost == Loss("Heartbeat", state)

\* A range arrives, right or wrong; a wrong last one is an error.
Arrives(right) ==
    IF right THEN UNCHANGED glitches ELSE glitches < MaxGlitches /\ glitches' = glitches + 1
IsError(before, after) == after.received = before.received

\* download_capability
CapabilityRange(right) ==
    /\ step.exchange = "Capability" /\ state.session = boot
    /\ Arrives(right)
    /\ LET after == AfterRange(state.capability, CapabilityRanges[firmware], right)
           error == IsError(state.capability, after)
           s == [state EXCEPT !.capability = after, !.of = firmware, !.failed = error]
       IN  Go(IF error \/ after.complete \/ step.left = 1
                THEN AfterCapability(s)
                ELSE [state |-> s, step |-> Step("Capability", step.left - 1)])
    /\ UNCHANGED <<posted, page, device, losses>>
CapabilityLost == Loss("Capability", [state EXCEPT !.failed = TRUE])

\* download_visual_assets
VisualRange(right) ==
    /\ step.exchange = "Visual" /\ state.session = boot
    /\ Arrives(right)
    /\ LET i == Len(state.downloads)
           before == state.downloads[i]
           after == IF Ranges[before.asset] > before.limit THEN before
                      ELSE AfterRange(before, Ranges[before.asset], right)
           s == [state EXCEPT !.downloads[i] = after]
       IN  Go(IF IsError(before, after) \/ step.left = 1 \/ ~ NextVisual(s)
                THEN [state |-> s, step |-> Finishing]
                ELSE [state |-> EnsureNextVisual(s), step |-> Step("Visual", step.left - 1)])
    /\ UNCHANGED <<posted, page, device, losses>>
VisualLost == Loss("Visual", state)

\* Mutation: a snapshot is posted before the visuals it allows.
PublishesLate(capability, visuals) == visuals \o capability

Publishes(capability, visuals) == capability \o visuals

\* The visuals published after this step: the complete ones, up to the first that is not
\* (publish_visual_asset_documents).
PublishedNow ==
    CHOOSE n \in state.visualsPublished..Len(state.downloads) :
        /\ \A i \in (state.visualsPublished + 1)..n : state.downloads[i].complete
        /\ n < Len(state.downloads) => ~ state.downloads[n + 1].complete

VisualsDue ==
    [k \in 1..(PublishedNow - state.visualsPublished) |-> Visual(state, state.visualsPublished + k)]

\* finish_device_step: the capability, its visuals, then the snapshot.
FinishStep ==
    /\ step = Finishing
    /\ LET due == ~ state.announced /\ state.capability.complete
       IN  /\ posted' = posted
                 \o Publishes(IF due THEN <<Capability(state)>> ELSE <<>>, VisualsDue)
                 \o <<Snapshot(state)>>
           /\ Len(posted') <= MaxQueue
           /\ state' = [state EXCEPT !.announced = @ \/ due,
                                     !.visualsPublished = PublishedNow]
    /\ step' = Idle
    /\ UNCHANGED <<page, device, faults>>

-----------------------------------------------------------------------------
(* The page.                                                               *)

\* DeviceSessionSnapshot::validate, of the documents.
Valid(message) ==
    /\ message.complete => message.capability # 0 /\ ~ message.failed
    /\ message.capability # 0 => message.identity = message.capability

\* A visual is shown under the capability that declares it (apply_visual_transfer).
Admits(message) ==
    /\ page.capability = message.capability
    /\ page.capability # 0
    /\ \E i \in DOMAIN Visuals[page.capability] : Visuals[page.capability][i] = message.asset

\* apply_snapshot keeps the documents that the snapshot names as complete.
Keeps(message) == message.complete /\ message.capability = page.capability

PageReceives ==
    /\ posted # <<>>
    /\ posted' = Tail(posted)
    /\ LET message == Head(posted)
       IN  page' =
             CASE message.kind = "Capability" -> [page EXCEPT !.capability = message.capability]
               [] message.kind = "Visual" /\ Admits(message) ->
                    [page EXCEPT !.visuals = @ \cup {<<message.capability, message.asset>>}]
               [] message.kind = "Snapshot" /\ Valid(message) ->
                    IF Keeps(message) THEN page ELSE [capability |-> 0, visuals |-> {}]
               [] OTHER -> page
    /\ UNCHANGED <<state, step, device, faults>>

\* The device restarts, perhaps after an update.
Restart ==
    /\ boot < MaxBoots
    /\ boot' = boot + 1
    /\ firmware' \in Firmwares
    /\ UNCHANGED <<state, step, posted, page, faults>>

-----------------------------------------------------------------------------
(* The specification.                                                      *)

Init ==
    /\ state = NewState /\ step = Idle
    /\ posted = <<>> /\ page = [capability |-> 0, visuals |-> {}]
    /\ boot = 1 /\ firmware \in Firmwares
    /\ losses = 0 /\ glitches = 0

Answered ==
    \/ FetchIdentity \/ Refused \/ Heartbeat \/ CapabilityRange(TRUE) \/ VisualRange(TRUE)

Next ==
    \/ Connect \/ Probe \/ FinishStep \/ PageReceives \/ Restart
    \/ Answered
    \/ CapabilityRange(FALSE) \/ VisualRange(FALSE)
    \/ IdentityLost \/ HeartbeatLost \/ CapabilityLost \/ VisualLost

Spec == Init /\ [][Next]_vars

\* Heartbeats repeat, every exchange ends, and the page takes its messages.
FairSpec ==
    /\ Spec
    /\ WF_vars(Connect) /\ WF_vars(Probe) /\ WF_vars(Answered)
    /\ WF_vars(FinishStep) /\ WF_vars(PageReceives)

-----------------------------------------------------------------------------
(* Properties.                                                             *)

Assets == UNION {{Visuals[f][i] : i \in DOMAIN Visuals[f]} : f \in Firmwares}
Download == [received : Nat, right : BOOLEAN, complete : BOOLEAN]

\* The types of the worker's state and the page, and the bound on the bytes of
\* visual assets that the browser holds (ensure_next_visual_download).
TypeOK ==
    /\ state.session \in 0..MaxBoots /\ state.clock \in 0..MaxBoots
    /\ state.identity \in Firmwares \cup {0} /\ state.of \in Firmwares \cup {0}
    /\ state.capability \in Download
    /\ step.left \in 0..(IF step.exchange = "Identity" THEN MaxBoots ELSE BurstOps)
    /\ Initialized(state) \/ state.downloads = <<>>
    /\ state.visualsPublished \in 0..Len(state.downloads)
    /\ Retained(state.downloads) <= MaxTotal
    /\ page.capability \in Firmwares \cup {0}
    /\ page.visuals \subseteq (Firmwares \X Assets)
    /\ Len(posted) <= MaxQueue

\* Whatever the page shows is of one capability, complete and right, and the visuals
\* are among those it declares.
ShownBelongs ==
    \A v \in page.visuals :
        /\ v[1] = page.capability
        /\ \E i \in DOMAIN Visuals[v[1]] : Visuals[v[1]][i] = v[2]

\* No complete document holds a wrong range (accept_response).
CompleteIsRight ==
    /\ state.capability.complete =>
         state.capability.right /\ state.capability.received = CapabilityRanges[state.of]
    /\ \A i \in DOMAIN state.downloads :
         state.downloads[i].complete =>
            /\ state.downloads[i].right
            /\ state.downloads[i].received = Ranges[state.downloads[i].asset]

\* An honest device's capability always agrees with its public identity, although the
\* two are read by different exchanges over restarts and updates: no snapshot that is
\* posted is rejected by the page (capability_reconciles_identity, validate).
EverySnapshotIsValid ==
    \A i \in DOMAIN posted : posted[i].kind = "Snapshot" => Valid(posted[i])

\* Once the messages are taken, the page shows of an idle connection exactly the
\* documents that are complete, each published once.
ShownAtRest ==
    (posted = <<>> /\ step.exchange # "Finish") =>
        /\ page.capability = (IF state.announced THEN state.of ELSE 0)
        /\ page.visuals = {<<state.of, state.downloads[i].asset>> : i \in 1..state.visualsPublished}

\* The assets that fit, in the order they are declared.
Fits(assets, n) ==
    LET sizes == [i \in 1..n |-> Ranges[assets[i]]]
    IN  /\ \A i \in 1..n : sizes[i] <= MaxAsset
        /\ SumTo(sizes, n) <= MaxTotal
Fitting == [f \in Firmwares |->
    {Declares[f][i] : i \in {n \in DOMAIN Declares[f] : Fits(Declares[f], n)}}]

Spoiled(s) ==
    ~ s.capability.right \/ \E i \in DOMAIN s.downloads : ~ s.downloads[i].right

\* What is declared last.
LastOf(f) == {Declares[f][n] : n \in {Len(Declares[f])} \ {0}}

\* The page shows of the firmware no asset but these.
Shows(assets) == page.visuals = {<<firmware, a>> : a \in assets}

\* After the last restart the page comes to show the capability of the firmware and every
\* visual that fits, but perhaps the last, for good, unless the device has sent a wrong range.
AllShown ==
    (boot = MaxBoots) ~>
        \/ Spoiled(state)
        \/ [](/\ page.capability = firmware
              /\ Shows(Fitting[firmware]) \/ Shows(Fitting[firmware] \ LastOf(firmware)))

\* Refuted (MCVisualLast.cfg).  As the documentation has it, each declared visual is
\* downloaded, the last one too.
EachShown == (boot = MaxBoots) ~> Spoiled(state) \/ []Shows(Fitting[firmware])
=============================================================================
