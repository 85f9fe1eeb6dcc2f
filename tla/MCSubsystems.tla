---------------------------- MODULE MCSubsystems ----------------------------
(* The subsystems on small instances. *)
EXTENDS Subsystems

\* Interchangeable threads and subsystem ids.
SubsystemSymmetry == Permutations(RtIds) \cup Permutations(MemThreads)

SubsystemIds == <<"Logger", "Config", "Memory", "Kernel", "Filesystem", "Loader", "KytyAdapter",
                  "Renderer", "GPU", "Audio", "Input", "Debugger", "UI">>

\* The default table sorts completely, each subsystem once and after its dependencies
\* (with the maps walked in the order of the ids and in the reverse order), and no
\* required subsystem depends on an optional one, which may be missing at run time.
ASSUME DefaultsAssumption ==
    /\ Range(SubsystemIds) = DOMAIN DefaultDeps
    /\ \A table, keys \in {SubsystemIds, Reverse(SubsystemIds)} :
          LET order == Kahn(DefaultDeps, table, keys)
          IN  /\ Len(order) = Len(keys)
              /\ \A i \in DOMAIN order : order[i] \notin {order[j] : j \in 1..i - 1}
              /\ \A i \in DOMAIN order : DefaultDeps[order[i]] \subseteq {order[j] : j \in 1..i - 1}
    /\ \A k \in DOMAIN DefaultDeps : DefaultDeps[k] \cap DefaultOptional # {} => k \in DefaultOptional

\* A frontend's own profile: an inverted trigger, and a stick that is scaled by two
\* and has a large deadzone.
CustomProfile ==
    [name |-> "mine", entries |->
       << [Entry("L2", "Gamepad", 4, 1) EXCEPT !.inverted = TRUE],
          [Entry("L3", "Gamepad", 0, 3) EXCEPT !.scale = 2 * ImOne] >>]
CustomProfiles == {CustomProfile}

\* Three buckets: of one value each, and the overflow.
TwoBounds == <<1, 2>>
=============================================================================
