-------------------------- MODULE SagaDefinitions --------------------------
(***************************************************************************)
(* What an application registers with the bus: the sagas, the message      *)
(* types each one handles, and its initial-state factory and handlers.     *)
(* The DSL (packages/core/src/dsl) builds these; every other module takes  *)
(* them as constants, so that what is checked and proved about the runtime *)
(* holds for every set of saga definitions.                                *)
(*                                                                         *)
(* A message is its type and the correlation id the saga extracts from it: *)
(* the runtime looks at nothing else.  Distinct payloads that a handler    *)
(* tells apart are distinct message types.                                 *)
(***************************************************************************)
EXTENDS Naturals, Sequences

CONSTANTS
    SagaNames,        \* definition.name of every registered saga
    CorrelationIds,   \* the non-empty correlation ids messages carry
    NoCorrelation,    \* getCorrelationId returned null (or "")
    MessageTypes,     \* message.type discriminators
    HandledTypes,     \* saga -> definition.handledMessageTypes
    StartTypes,       \* saga -> the types whose correlation says canStart
    Data,             \* the user part of a saga state
    Initial,          \* <<saga, type>> -> what the initial factory builds
    Handler           \* <<saga, type, data>> -> outcomes of the matching handler

(***************************************************************************)
(* What one handler run asks for: the new user state, whether the saga is  *)
(* complete (result.isCompleted ?? ctx.isCompleted), the pending timeout   *)
(* change, and the messages it hands to ctx.publish, in order.             *)
(***************************************************************************)
Outcome ==
    [ data        : Data,
      isCompleted : BOOLEAN,
      timeout     : {"keep", "set", "clear"},
      sends       : Seq(MessageTypes) ]

(***************************************************************************)
(* The handler of a type is the first registration whose guard accepts the *)
(* state; Handler maps to {} where there is none.  The state then comes    *)
(* back unchanged, and the runtime saves it like any other result.         *)
(***************************************************************************)
Unchanged(data) ==
    [data |-> data, isCompleted |-> FALSE, timeout |-> "keep", sends |-> << >>]

Outcomes(saga, type, data) ==
    IF Handler[saga, type, data] = {}
    THEN {Unchanged(data)}
    ELSE Handler[saga, type, data]

ASSUME DefinitionsAssumption ==
    /\ NoCorrelation \notin CorrelationIds
    /\ HandledTypes \in [SagaNames -> SUBSET MessageTypes]
    /\ StartTypes \in [SagaNames -> SUBSET MessageTypes]
    /\ Initial \in [SagaNames \X MessageTypes -> Data]
    /\ DOMAIN Handler = SagaNames \X MessageTypes \X Data
    /\ \A s \in SagaNames, t \in MessageTypes, d \in Data :
          \A o \in Handler[s, t, d] : o \in Outcome

=============================================================================
