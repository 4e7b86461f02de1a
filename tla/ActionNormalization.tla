------------------------ MODULE ActionNormalization ------------------------
(***************************************************************************)
(* From the numbers a StarVLA policy computes to the actions a robot takes *)
(* (src/models/starvla/normalization.cpp).  A column of the actions is     *)
(* continuous, scaled between two quantiles of the data the policy was     *)
(* trained on, or binary, compared with a threshold.  A checkpoint carries *)
(* a profile of quantiles for each robot.  A number is a float, and every  *)
(* operation on it is rounded.                                             *)
(***************************************************************************)
EXTENDS FloatArithmetic, Sequences, FiniteSets

CONSTANT NotFinite      \* stands for every number that is not finite

(* The columns of one of the two lists are columns, each there once.       *)
NoneTwice(columns) ==
    \A i, j \in 1 .. Len(columns) : columns[i] = columns[j] => i = j

Elements(columns) == {columns[i] : i \in 1 .. Len(columns)}

(* What validate_normalization_config asks of one profile.                 *)
ProfileIsValid(config, profile, action_dim) ==
    /\ profile.key # ""
    /\ \A list \in {profile.q01, profile.q99, profile.mask} :
          Len(list) = action_dim
    /\ \A dim \in 1 .. action_dim :
          /\ profile.q01[dim] # NotFinite
          /\ profile.q99[dim] # NotFinite
          /\ dim \in Elements(config.continuous) =>
                profile.q99[dim] >= profile.q01[dim] /\ profile.mask[dim] = 1
          /\ dim \in Elements(config.binary) => profile.mask[dim] = 0

(* validate_normalization_config; the columns are numbered from 1.         *)
ConfigIsValid(config, action_dim) ==
    LET keys == [i \in 1 .. Len(config.profiles) |-> config.profiles[i].key]
    IN  /\ action_dim > 0
        /\ config.comparison \in {"gt", "ge"}
        /\ config.profiles # <<>>
        /\ NoneTwice(config.continuous \o config.binary)
        /\ Elements(config.continuous \o config.binary) = 1 .. action_dim
        /\ NoneTwice(keys)
        /\ \A i \in 1 .. Len(config.profiles) :
              ProfileIsValid(config, config.profiles[i], action_dim)
        /\ config.default # ""
        /\ config.default \in Elements(keys)

(* resolve_normalization_profile: no key stands for the default.           *)
Profiles(config, key) ==
    LET wanted == IF key = "" THEN config.default ELSE key
    IN  {i \in 1 .. Len(config.profiles) :
            config.profiles[i].key = wanted}

(* Mutant: a number outside of the trained range is scaled as it is.       *)
UnclippedValue(config, value) == value

Clipped(config, value) ==
    IF ~config.clip THEN value
    ELSE IF value < -Unit THEN -Unit
    ELSE IF value > Unit THEN Unit
    ELSE value

(* A binary column: 1 above one half.                                      *)
Active(config, value) ==
    IF config.comparison = "ge"
    THEN value >= Unit \div 2
    ELSE value > Unit \div 2

(* One number of a column: (value + 1) * 0.5 * (high - low) + low.  It is  *)
(* not finite when an operation on the way to it was not.                  *)
Scaled(config, profile, dim, value) ==
    LET low == profile.q01[dim]
        sum == Round(value + Unit, 1)
        share == Round(sum * (Unit \div 2), Unit)
        width == Round(profile.q99[dim] - low, 1)
        part == Round(share * width, Unit)
        action == Round(part + low, 1)
    IN  IF dim \in Elements(config.binary)
        THEN IF Active(config, value) THEN Unit ELSE 0
        ELSE IF {sum, share, width, part, action} \subseteq Float
        THEN action
        ELSE NotFinite

NoActions == [ok |-> FALSE, actions |-> <<>>]

(* denormalize_actions: row after row.                                     *)
DenormalizeActions(config, key, normalized, horizon, action_dim) ==
    LET column(i) == 1 + ((i - 1) % action_dim)
        profile == config.profiles[CHOOSE i \in Profiles(config, key) : TRUE]
    IN  IF \/ ~ConfigIsValid(config, action_dim)
           \/ horizon <= 0
           \/ Len(normalized) # horizon * action_dim
        THEN NoActions
        ELSE IF Profiles(config, key) = {} THEN NoActions
        ELSE IF \E i \in 1 .. Len(normalized) : normalized[i] = NotFinite
        THEN NoActions
        ELSE [ok |-> TRUE,
              actions |-> [i \in 1 .. Len(normalized) |->
                              Scaled(config, profile, column(i),
                                     Clipped(config, normalized[i]))]]

---------------------------------------------------------------------------
(* Properties                                                              *)

(* A quantile whose double is still a float's.                             *)
Moderate(quantile) == 2 * Magnitude(quantile) < Infinity

(* Whatever a policy that clips computes, each of its actions is, in a     *)
(* binary column, 0 or 1, and in a continuous one a finite number that is  *)
(* never below the lower quantile of the profile that was asked for, and   *)
(* above the upper one by no more than two roundings make.  The actions    *)
(* are not clamped again, so that the excess is there.  Of quantiles so    *)
(* large that their difference may be infinite nothing is said             *)
(* (denormalize_actions, for every configuration that                      *)
(* validate_normalization_config accepts).                                 *)
ActionsInQuantilesOn(config, key, normalized, horizon, action_dim) ==
    LET result ==
            DenormalizeActions(config, key, normalized, horizon, action_dim)
    IN  result.ok /\ config.clip =>
            \E p \in 1 .. Len(config.profiles) :
                LET profile == config.profiles[p] IN
                /\ profile.key = IF key = "" THEN config.default ELSE key
                /\ \A i \in 1 .. Len(normalized) :
                      LET dim == 1 + ((i - 1) % action_dim)
                          action == result.actions[i]
                          low == profile.q01[dim]
                          high == profile.q99[dim]
                      IN  IF \E j \in 1 .. Len(config.binary) :
                                config.binary[j] = dim
                          THEN action \in {0, Unit}
                          ELSE Moderate(low) /\ Moderate(high) =>
                                /\ action \in Float
                                /\ action >= low
                                /\ Precision * (action - high)
                                      <= 2 * (high - low) + Magnitude(high)
=============================================================================
