-------------------------------- MODULE Slots --------------------------------
(***************************************************************************)
(* The clocks of kozi-cli's devices, in minutes, each with an error and a  *)
(* time zone of its own, and the hour each would look up a slot for.       *)
(***************************************************************************)
EXTENDS Integers

CONSTANTS
    Devices,
    Zones,     \* offsets from UTC in minutes
    Skew,      \* how far a clock may be from the true time
    MaxNow     \* bound: minutes modelled

ASSUME SlotsAssumption == Zones \subseteq Int /\ Skew \in Nat /\ MaxNow \in Nat

VARIABLES now, skew, zone

vars == <<now, skew, zone>>

Hour == 60

\* time.Now() on a device: the wall clock it shows and its zone.
Time(d) == [wall |-> now + skew[d] + zone[d], zone |-> zone[d]]

\* Mutant: the hour as displayed.
localHourBucket(t) == t.wall \div Hour
hourBucket(t) == (t.wall - t.zone) \div Hour

deriveSlotID(sharedSecret, bucket) == <<sharedSecret, bucket>>

Init ==
    /\ now = Hour
    /\ skew \in [Devices -> -Skew..Skew]
    /\ zone \in [Devices -> Zones]

Minute ==
    /\ now < MaxNow
    /\ now' = now + 1
    /\ UNCHANGED <<skew, zone>>

SetClock(d) ==
    /\ \E k \in -Skew..Skew : skew' = [skew EXCEPT ![d] = k]
    /\ UNCHANGED <<now, zone>>

Travel(d) ==
    /\ \E z \in Zones : zone' = [zone EXCEPT ![d] = z]
    /\ UNCHANGED <<now, skew>>

Next == Minute \/ \E d \in Devices : SetClock(d) \/ Travel(d)
=============================================================================
