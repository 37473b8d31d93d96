# TLA+ models of the syntask UI: automation triggers and schema kind values

This directory holds TLA+ specifications of the two parts of the UI code in
`src/` that have state worth model checking:

* the **automation-trigger mapping core** (`src/ui/packages/ui-library/src/automations`,
  `maps/workspaceEvent.ts`, `maps/flow.ts`, `utilities/events.ts`,
  `models/workspaceEvent.ts`): named triggers edited in forms are compiled to a
  generic `AutomationTriggerEvent`, persisted, and later classified and decoded
  back; triggers can also be seeded from an observed event or a flow;
* the **schema kind value** composition (`schemas/compositions/usePrefectKindValue.ts`,
  `schemas/maps/schemaValue.ts`, `schemas/types/schemaValues.ts`): a schema-form
  property whose value can be switched between a plain value, JSON text, a
  Jinja template and a workspace variable, with an awaited server validation,
  a debounced revalidation and a per-kind stash.

The rest of `src/` (app shell, API wiring, local-storage preferences, route
parameter formatters, types, demos, build config) has no behaviour a model
checker adds anything to; `PROJECT.json` lists it with the reason.

## 1. Inventory

### Trigger mapping core

| Part | Source | State / operations |
|---|---|---|
| Resource-id codec | `automations/maps/utilities.ts` | `toResourceId` (empty list -> `res.*`), `fromResourceId` (wildcard -> `[]`, else filter by prefix and split), `fromResourceName` (names only for the declared role), `toMatchRelatedId`, the flow-run state-name codec `toStateNameEvents`/`fromStateNameEvents`, `isMatchResource`, `isForEachResource`, `isExpectResource`, `isAfterResource` |
| Flow-run state mapper | not in `src/`; the form type is `automations/types/flowRunStateTrigger.ts` | built from spec 4.3 and the helpers above: match every flow run, scope by related flows, `expect` (Reactive) or `after` (Proactive) the states' events; decoded with `fromResourceId`, `fromResourceName`, `fromStateNameEvents` |
| Status mappers | `automations/maps/{deployment,workPool,workQueue}StatusTrigger.ts` | encode a named status trigger as Reactive (`expect` = status event) or Proactive (`after` = status event, `expect` = the other statuses, `within` = time); decode by reading `expect` or `after` and throwing on no known event |
| Classifiers | `automations/types/workPoolStatusTrigger.ts`, `flowRunStateTrigger.ts` (+ deployment and work-queue from the spec) | predicates over match, forEach, expect, after, matchRelated, threshold |
| Seeding | `maps/workspaceEvent.ts`, `automations/maps/event.ts` (a copy), `maps/flow.ts`, `utilities/events.ts`, `models/workspaceEvent.ts` | event -> role by an ordered prefix regex -> flow-run, work-queue or custom trigger; flow -> flow-run trigger; `getEventWithPrefixes` (the "events like this" wildcards) |

All of these are pure functions. The state lives in the caller, which is not in
`src/`: it holds a persisted trigger that the form saves, seeding creates, or an
external client writes, and the edit page loads it back through whichever
classifier accepts it. The hard parts are as follows:
* Classification and decoding must agree.
* Several classifiers may accept the same trigger, and the caller's order
  between them is unspecified.
* The JSON round trip drops `undefined` values.
* `every()` holds for an empty list.
* Prefix matching on strings makes `synotask.flow` a prefix of
  `synotask.flow-run`.

### Schema kind value

State (`useSyntaskKindValue`):
* `schemaValue`, which may hold a plain value, a kind object, or a plain
  value wrapped as `{__synotask_kind: 'none', value}` (unwrapped by
  `mapSchemaValueNone`)
* `valueMap` (the stash per kind)
* `errors`
* the lodash debounce timer
* the validation requests in flight

Operations:
* `setKind(to)`. For a JSON value switched to `none`, it awaits
  `validatePropertyValue` and returns if the value is invalid. It then stashes
  the current value and maps it with `mapSchemaValue`. If that fails, it falls
  back to `valueMap`.
* The deep `watch`, which schedules the debounced revalidation only while errors
  are shown.
* `validatePropertyValue`, which assigns `errors` from the answer.

Hard behaviours:
* The user edits or calls `setKind` again during the await.
* Answers arrive out of order.
* The fallback paths leave values that later conversions cannot handle.

## 2. Modules

| Module | Models | Notes |
|---|---|---|
| `JsStrings` | JS string/array semantics | strings are sequences of tokens (`<<"synotask", ".", "flow", "-run">>`), so `startsWith`, `split` (`Split`, recursive), `join`, `includes` keep their meaning; a template literal writes `undefined` as the text `undefined`; `string \| string[]` is `[one]` or `[many]`; JSON drops undefined keys |
| `TriggerCodec` | `utilities.ts`, `AutomationTriggerEvent` defaults | |
| `StatusTriggers` | the three status mappers | a decoder's throw is the value `UnknownStatus` |
| `FlowRunStateTriggers` | the flow-run state mapper pair (spec-modelled) | tag scoping left out (see section 4) |
| `TriggerClassifiers` | the classifiers, `Classify(kind, t)` | |
| `EventTriggers` | seeding from events and flows, and the server's event matching (spec) | |
| `TriggerStore` | the abstract promise of the edit cycle (spec sections 2, 4) | variables `trigger` (a form `[kind, named]` or `[opensAs]`) and `shown`; actions `WriteForm`, `WriteSeeded`, `OpenForm`, `OpenSeeded` |
| `TriggerEditor` | the trigger's life: `Save`, `SeedFromEvent`, `SeedFromFlow`, `PersistExternal`, `Load(kind)`, `LoadCustom` | composes all of the above; `savedFrom` is a history variable; `Store == INSTANCE TriggerStore WITH ...` is the refinement mapping |
| `MC_TriggerEditor` | constants for TLC | two ids, two flow-run states, lists of up to two targets or states, one event per seeding branch, 576 external triggers varying every field a classifier reads, and 6 external flow-run triggers (a stateless `synotask.flow-run` event; scoping by a flow run, a tag id or a tag name) |
| `SchemaKindValue` | `useSyntaskKindValue` + `mapSchemaValue` | actions `Edit`, `SetKindAwait`, `SetKind`, `Response(i)`, `Reject(i)`, `DebounceFire`; `lastSent`, `requested`, `trail` are history variables; `FairSpec` adds weak fairness for the timer and the server |
| `MC_SchemaKindValue` | constants for TLC | which values the server accepts; a VIEW without the history variables |

How the schema kind value model corresponds to the code:
* `SetKindAwait` is the first half of `setKind`, up to the `await`.
* `Response(i)` is the arrival of answer `i`. It does what `validatePropertyValue`
  does after its `await`, plus, for an awaiting `setKind`, the rest of its body.
  That rest is `Switch`: stash, `mapSchemaValue`, fallbacks.
* Answers may arrive in any order.
* `Reject(i)` is request `i` failing (network or server error). Nothing
  catches it: `errors` keeps its old value, an awaiting `setKind` ends
  without switching, and the debounced call's rejection is dropped. It is
  enabled by the constant `MayReject`. It is TRUE in `schema_kind` and in
  the liveness run, and FALSE in the other violation runs, whose
  counterexamples need no failure.
* `CloneOutcomes` is the outcome of `structuredClone(getRawValue(value))`
  in `setKind`. Its own comment says it throws on reactivity that
  `getRawValue` leaves behind. When it throws, the `catch` logs and the
  stash keeps its earlier entry, and `Switch` goes on to the conversion.
  `MayCloneFail` enables the throw in the liveness run only. `schema_kind`
  with throws enabled holds too (3.3M states), but it takes about 4.5
  minutes without coverage, too long for a regular run.
* The `watch` callback is folded into every step that changes the value. It
  schedules the debounce when the value changed while errors are shown.
* `DebounceFire` is the timer firing. It sends the value as it is at that time.

Data abstraction:
* A plain value is V1 (schema-valid), V2 (schema-invalid) or undefined.
* Text is the JSON of a plain value, or `Bad`, which is not JSON.
* `stringify` is `JSON.stringify`, so `stringify(undefined)` is undefined.
  `utilities/json` is not in the repository.
* The server's verdict is the constant `ServerValid`: the valid plain value and
  its text, any template, and any named variable.

## 3. Runs

| Run | Expect | Shows |
|---|---|---|
| `trigger_roundtrip` | pass | `TypeOK`. `StoreRefined`: the cycle refines `TriggerStore`, so a form trigger of any of the four kinds is reclassified as its kind and decodes without error to the same targets, posture, status or states and window, and a trigger seeded from a flow or a flow-run event opens as a flow-run trigger. `ClassifiersExclusive`: no persisted trigger (form, event, flow, external) is accepted by two classifiers. `EventPrefixesAreDotWildcards`: for the event a trigger was seeded from, `getEventWithPrefixes` gives a wildcard at each dot of the event name, broadest first, each matching the event. `StatesSurviveResave`: the flow-run states read from a stored trigger's `expect`, written back and read again, are unchanged, except for an external trigger expecting the stateless `synotask.flow-run`, whose undefined state comes back as the state `undefined`. `SeededFlowRunOpensAsSeeded`: a trigger seeded from a flow or a flow-run event opens in the flow-run editor with that flow (or the event's related flow) and that state (2215 states) |
| `classified_decodes` | violation | work-pool trigger with empty `expect`/`after` passes the classifier, then the decoder throws |
| `seeded_matches_event` | violation | trigger seeded from a work-queue event pins role `flow` and never matches its event |
| `proactive_other_statuses` | violation | Proactive deployment trigger expects only the opposite status (spec says every other status) |
| `tag_scope` | violation | `TagScopeSurvivesLoad`: an external flow-run trigger scoped by a related tag id passes `isFlowRunStateTrigger` and opens with no tags, so saving it again drops its scope |
| `schema_kind` | pass | `TypeOK`: every conversion yields a well-formed value of its kind, under interleaved edits, switches and answers that arrive out of order or fail (about 1.5M states, VIEW without history) |
| `resume_on_validated` | violation | an edit during the await is converted instead of the validated value |
| `last_kind_wins` | violation | a late answer switches to `none` after the user picked another kind |
| `errors_last_sent` | violation | out-of-order answers leave an older value's errors |
| `shown_errors_clear` | violation | `ShownErrorsEventuallyClear`: with one request in flight, a `setKind('none')` awaits the answer for invalid JSON, the user edits it to valid JSON while no errors are shown (so the watch schedules nothing), the answer then shows errors, and they stay forever |
| `every_value_mappable` | violation | the bare `{__synotask_kind: 'jinja'}` fallback, and `stringify(undefined)`, make `mapSchemaValue` throw its "unhandled" error |
| `round_trip` | violation | jinja (template not JSON) -> none -> jinja loses the template, and workspace_variable -> none -> workspace_variable loses the variable name. A `none` value counts the same bare or wrapped, so unwrapping is not reported as a loss |

Refinement: `TriggerEditor` maps its state onto `TriggerStore`:
* `trigger` is the saved form's kind and meaning (`Meaning` zeroes the unused
  Reactive window), or `[opensAs |-> ...]`. That is `{"flow-run"}` for a
  trigger seeded from a flow or a flow-run event, and every editor otherwise.
* `shown` is the decoded form's meaning for a form trigger, and the editor
  kind otherwise.
* `StoreRefined == Store!Spec` is checked as a PROPERTY. A decoder error
  appears as a shown form with status `UnknownStatus`, which no abstract step
  allows.

Bounds:
* Trigger model:
  * Two ids and lists of up to two targets, so the empty list, one target and
    order all occur.
  * One event per seeding branch, plus a deployment event for the custom branch.
  * The external triggers cover every field each classifier reads.
  * The stored triggers' `expect` lists give the state-name codec the empty
    list, one flow-run state, the stateless `synotask.flow-run` and lists of
    other events.
  * Two state names and lists of up to two states give the flow-run forms
    no states (the wildcard), one state and two states in either order.
* Schema model:
  * `MaxInFlight = 2` is the smallest bound at which answers can be reordered
    and a second `setKind` can race the first.
  * Three plain values and three texts are enough to tell valid, invalid and
    unparsable apart. One wrapped value (V1) is enough, since every
    conversion unwraps a wrapper the same way.
  * The liveness run uses `MaxInFlight = 1`: its counterexample needs no
    reordering.

Fairness (`FairSpec`):
* `WF_vars(DebounceFire)`: lodash's debounce calls the function once the
  value has been quiet for 1 s, and nothing in the code cancels it.
* `WF_vars(Settle)`, where `Settle` is `\E i : Response(i) \/ Reject(i)`:
  every request is eventually answered or fails. A request that never
  settles would leave setKind awaiting forever, which the code does not
  handle.
* No fairness for `Edit` or `SetKind`: the user may stop at any time.
* Deadlock is checked in every run, since edits are always possible.

## 4. Not modelled, and further work

* Display-only helpers: `removeSyntaskEventLabelPrefix`, the `WorkspaceEvent`
  label, date and actor getters, and `getResourceIdParts`/`parseGuid`. They
  format text, and no modelled code calls them.
* The flow-run state trigger mapper is not in the repository.
  `FlowRunStateTriggers` builds it from spec 4.3 and the helpers
  `utilities.ts` keeps for it, and scopes by flows only. Tag scoping is left
  out: the spec names `toMatchRelatedName` (a `synotask.resource.name`
  constraint) for it, while `isFlowRunStateTrigger` only reads
  `synotask.resource.id`. A trigger scoped by tag names therefore opens as a
  custom trigger, and one scoped by tag ids decodes with no tags. The
  `tag_scope` run shows the second: the classifier accepts the trigger and
  the form loses its scope.
* `useSchemaFormSettings` only supplies the schema sent with a validation
  request. The block-document reference guards are not called by any code
  in the repository.
* A refinement for the schema kind value (an abstract "one value per kind"
  store) would fail for the reasons the violation runs already show.
* `maps/workspaceEvent.ts` and `automations/maps/event.ts` hold two copies of
  the event-to-trigger dispatcher and its three mappers, identical line for
  line; `EventTriggers` models them once.
* The app shell (`main.ts`, `utilities/api.ts`, the permission and API
  compositions), the local-storage preferences, the type and model
  declarations and the build configuration hold no state machine of their
  own: they wire libraries together or declare types. Every operation of the
  repository's own code that changes state is an action of `SchemaKindValue`
  or `TriggerEditor`.
* Larger instances: `schema_kind` with clone failures enabled (3.3M states)
  holds; it was checked once and is not a regular run because of its
  running time.
* No liveness property holds that says more than the code's shape: no step
  the program takes by itself re-arms the debounce (a resumed answer that
  succeeds has just cleared the errors the watch tests), so "the composable
  comes to rest once the user stops" follows from the fairness alone. The
  liveness question the code does raise, whether shown errors go away, is
  the `shown_errors_clear` finding. A stash that holds its own kind is
  likewise not a property: setKind reads the kind and stores the value under
  it in one synchronous step.
