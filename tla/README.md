# TLA+ models of the cppagent core

These modules model the core of the MTConnect agent in this repository. That core is:

- the `DataItem` metadata, attribute and unit-conversion code (`src/agent/data_item.cpp`);
- the latest-state `Checkpoint`;
- the XML printer that turns devices, a flat stream of observations, and assets into namespace-aware documents (`src/src/xml_printer.cpp`).

Every module is checked with TLC through a `.cfg` file.
`PROJECT.json` records:

- each component and its status;
- each run and the properties it checks;
- the mutants that show each property can fail;
- the source lines every definition translates;
- the findings and the hazards of the code.

## 1. The system

### Components, their state and their operations

| Component | Source | State | Operations |
|---|---|---|---|
| DataItem latest-event cell | `data_item.cpp:181-201` | `mLatestEvent` (heap pointer), `mLatestEventLock` | `setLatestEvent` (lock, delete old, `new` copy, unlock), `getLatestEvent` (lock, copy pointer, unlock, return the pointer) |
| DataItem unit conversion | `data_item.cpp:68-101, 226-345` | `mNativeUnits`, `mNativeScale`/`mHasNativeScale`, `mConversionDetermined`, `mConversionRequired`, `mHasFactor`, `mConversionFactor`, `mConversionOffset` | constructor (units fall back to nativeUnits), `conversionRequired` (decided once), `convertValue` (derive the factor and offset once, memoise, apply), `simpleFactor` (table; sets the FAHRENHEIT offset) |
| DataItem attributes | `data_item.cpp:68-169, 203-224` | the members the constructor sets from the attribute map, `mCamelType` | constructor, `getAttributes`, `getCamelType` |
| Checkpoint | not in the repository (spec §3, §8) | per item: the latest observation, or the ordered list of active conditions keyed by native code | `addObservation`, `getObservations` |
| NamespaceRegistry | `xml_printer.cpp:105-277` | four `std::map<prefix, {urn, location}>`, four style URLs, `m_schemaVersion` | `add*Namespace` (`map::insert`), `clear*Namespaces`, `set*Style`, `setSchemaVersion` |
| Root element | `xml_printer.cpp:1059-1150` (`initXmlDoc`) | reads the registry | stylesheet PI; `xmlns:m`, `xmlns`, `xmlns:xsi`, one `xmlns:p` per non-`m` prefix; `xsi:schemaLocation` |
| printSample grouping | `xml_printer.cpp:322-384, 822-897` | the markers `deviceElement`, `componentStreamElement`, `categoryElement`; the writer's stack | sort; per row reset category/component/device, then `addObservation`; close; catch → `""` |
| addObservation | `xml_printer.cpp:967-1057` | none | element name from the Streams registry; time series, data set and table rendering |
| printProbe | `xml_printer.cpp:440-821` | none; recursion over the device tree | configurations, data items, components named by registered prefix, compositions, version-gated references |
| printAssets / CuttingTool | `xml_printer.cpp:899-965, 1202-1349` | per call: the `std::set remaining` | `printAssetNode`; known properties printed and erased from `remaining`, then the remaining ones; lives, measurements, items |
| Header | `xml_printer.cpp:1152-1199` (`initXmlDoc`) | the function-local `static std::string sHostname` | test `empty()`, resolve with `get_local_hostname` or fall back to `"localhost"`, copy into `sender`; the kind-specific attributes |
| printError | `xml_printer.cpp:407-438` | per call: the writer and `ret` | writer, `initXmlDoc`, `Errors/Error`, `getContent`; catch → `""` |
| JsonPrinter, CoordinateSystems | | | not modelled (section 4) |

### How they interact

- Adapter threads store observations in a data item's latest-event cell. Other threads read it through `getLatestEvent` and use the returned pointer.
- Threads converting values of one item share its memoised factor and offset.
- Observations feed the Checkpoint. `getObservations` flattens it into the list that `printSample` is given for a current document.
- Every printer entry point calls `initXmlDoc`, which reads the registry of its document kind and the hostname cache, which it may also write. Printer calls run on any thread (spec §5).
- `printSample` sorts the observations and groups them through three `AutoElement` markers that share one writer. `addObservation` looks each item's prefix up in the Streams registry.
- `printProbe` looks each child component's prefix up in the Devices registry, writes each data item's `getAttributes`, and reads `m_schemaVersion` to choose the shape of references.
- `printAssets` dispatches a CuttingTool asset to `printCuttingTool` through `getContent`, and writes the string it returns as raw content.

## 2. Modules

| Module | Models | Kind |
|---|---|---|
| `LatestEvent` | the latest-event cell, with writer and reader threads | the threads interleave |
| `UnitConversion` | the constructor, `conversionRequired`, `convertValue`, `simpleFactor` | state machine over exact rationals |
| `ConvertRace` | two threads inside `convertValue` | EXTENDS `UnitConversion`; the derivation split into its unsynchronised steps |
| `Namespaces` | the registry and the root element `initXmlDoc` writes | state machine |
| `ObservationElement` | `addObservation` and the Streams registry | INSTANCEs `Namespaces` for the root element |
| `ObservationSort` | the observation list and its stable sort | pure operators (the comparator is spec-modelled) |
| `StreamsDocument` | what `printSample` promises | abstract specification |
| `SampleGrouping` | `printSample` with `AutoElement` and the writer's stack | refines `StreamsDocument` |
| `ProbeReferences` | the References block and `std::string` comparison | operators |
| `ProbeDocument` | `printProbe`, `printProbeHelper`, `printDataItem`, the DataItem constructor, `getAttributes` and `getCamelType` | EXTENDS `ProbeReferences` |
| `CuttingTool` | `printCuttingTool`, `printCuttingToolItem` | operators and one step |
| `AssetsDocument` | `printAssets`, `printAssetNode`, with both failure points | EXTENDS `CuttingTool` |
| `PrinterHeader` | the Header element of `initXmlDoc` written by concurrent printer calls, and `printError` whole | threads interleave on `sHostname` |
| `Checkpoint` | the checkpoint semantics of spec §3 and §8 | state machine with a history variable |

The `MC_*` modules give the constants their values: small sets, and the orderings and tables that a `.cfg` cannot express.

### How the state and actions correspond to the code

**LatestEvent.**
- `pc` is each thread's position. `owner` is the mutex.
- Events are numbered in allocation order. `freed` is the set of deleted events.
- `Replace` is the body of `setLatestEvent`, atomic under the lock. `Read` is `toReturn = mLatestEvent`.
- `Use` is a caller dereferencing the returned pointer. No caller is in the repository, so `Use` is spec-modelled (spec §5: readers copy out and release).

**UnitConversion and ConvertRace.**
- The variables are the data members. `Init` is the constructor. The uninitialised members start at any value of `Garbage`.
- `mHasNativeScale` is raised, as at `data_item.cpp:96-100`, for any non-empty `nativeScale`, `"0"` included. `NativeScales` holds what `atof` reads from a present attribute.
- `ConvertValue(raw)` has one disjunct per branch of `convertValue`.
- In `ConvertRace`, each caller's derivation is split at the points where another caller can run: check, reset the offset, derive the factor, divide by the scale, set the flag, apply.

**Namespaces and ObservationElement.**
- `AddNamespace` is `map::insert`, which keeps an existing key.
- `InitXmlDoc(k)` writes the root's attributes in the order the code writes them.
- `AddObservationElement` is the element `addObservation` writes. It is named by the condition level, or by the item's name, prefixed only when the prefix is registered. It holds one `Entry` per data-set entry, and a table entry holds one `Cell` per cell of a leaf type.

**SampleGrouping.**
- `stack` is the writer's stack of open elements. Each element has an instance number, so that two elements with one name can be told apart.
- The three marker variables are the `AutoElement`s. `RowStep` is the three `if` blocks of the loop body.
- `Begin` covers `initXmlDoc` to the sort. `Row` is one iteration. `Finish` is the closing. `Fail` is the `catch`.

**ProbeDocument.**
- An element is a record `[parent, id, name, attrs]`. An id is the path of `<<name, index>>` steps from the root.
- `PrintProbeHelper` is recursive, like the code.
- `ConfigElems` is the `dynamic_cast` dispatch and the four configuration printers. It includes the sensor's two `FirmwareVersion` elements.
- `DataItemMembers` is the constructor. `GetAttributes` is `getAttributes`, with `nativeScale` and `significantDigits` kept as the numbers `atof` and `atoi` read.
- `GetCamelType` is `getCamelType`: the name lower-cased after its first character, then `CamelLoop`, which recurses over the code's in-place loop (erase the `_`, capitalise the next character, search on from that position). `CamelReference` is the declarative camel case it is checked against.
- `PrintReferencesBlock` is the References block at the end of `printProbeHelper`, for every component that has references. It holds what `ProbeReferences!PrintReferences` gives. Below 1.4, a component whose references are all components gets an empty `References` element, as in the code.
- `PrintCellDefinitions` writes each `CellDefinition` with its key and, when its description is non-empty, its `Description`.
- Actions: `BeginProbe`; `PrintDevice`, one turn of the loop over the device list, with `next` the index; `FinishProbe`; `FailProbe`.

**AssetsDocument.**
- `WriteAsset` is the loop body for a generic asset.
- `ToolContent` calls `CallPrintCuttingTool` of `CuttingTool` as its `getContent`. `ToolContentFails` is the `catch` inside `printCuttingTool`, which returns `""`. `WriteRaw` writes that content.
- `Fail` is the `catch` of `printAssets`.

**PrinterHeader.**
- `sHostname` is the static string. `hpc` is each thread's position in the header code.
- A string assignment and the copy `addAttribute` makes are each a begin step and an end step: `Resolve`/`Resolved`, `Fallback`/`FellBack`, `Send`/`Sent`. `Check` is the `empty()` test.
- `Sent` writes the whole header: `creationTime`, `sender` (skipped when empty), and the attributes of the document kind.
- `Begin` is any entry point other than `printError`, whose body its own module models. `PrintError` starts a `printError` call. `ErrorsWritten` writes `Errors/Error`: `errorCode` is skipped when empty, as `addAttributes` skips it. `ErrorsWritten` also returns the document. `ErrorFails` is the `catch`: a libxml failure before the header or in the body returns the empty `NoDocument`.

**Checkpoint.** `hist` is a history variable holding every observation added.

### Composition and refinement

- `SampleGrouping` instantiates `StreamsDocument` with `doc <- AbstractDoc`, the emitted observations with their paths and without instance numbers. `ImplementsStreamsDocument == Document!Spec` is a PROPERTY of the `sample_grouping` run. Each `Row` step is an `Emit`, `Finish` is a `Complete`, `Fail` is an `Abort`, and `Begin` stutters.
- `ConvertRace` composes two callers over the members of `UnitConversion`.
- `ObservationElement` composes `addObservation` with the root element of `Namespaces`.
- `ProbeDocument` uses the reference rendering of `ProbeReferences` in every component's References block.
- `AssetsDocument` composes `printAssets` with `printCuttingTool`.

## 3. Runs

| Run | Config | Expect | Checks |
|---|---|---|---|
| `sample_grouping` | `MC_SampleGrouping.cfg` | pass | `TypeOK`, `MarkersMatchWriter`, `GroupsContiguous`, `ImplementsStreamsDocument` |
| `latest_event_uaf` | `MC_LatestEvent_uaf.cfg` | violation | `NoUseAfterFree` |
| `unit_conversion` | `MC_UnitConversion.cfg` | violation | `ConvertedCorrectly` |
| `convert_race` | `MC_ConvertRace.cfg` | violation | `ConcurrentConvertedCorrectly` |
| `namespaces` | `MC_Namespaces.cfg` | pass | `TypeOK`, `LocationFromOwnRegistry` |
| `observation_element` | `MC_ObservationElement.cfg` | pass | `TypeOK`, `EntriesFollowDataSet` |
| `probe_document` | `MC_ProbeDocument.cfg` | pass | `ReferencesFollowSchema`, `CamelTypeFollowsReference` |
| `probe_category` | `MC_ProbeDocument_category.cfg` | violation | `AttributesFollowConfig` |
| `printer_header` | `MC_PrinterHeader.cfg` | violation | `NoHostnameRace` |
| `checkpoint` | `MC_Checkpoint.cfg` | pass | `TypeOK`, `ConditionsFromHistory` |
| `assets` | `MC_AssetsDocument.cfg` | pass | `ValuesPrintedOnce`, `KnownBeforeExtended`, `AssetsFollowList` |
| `assets_failure` | `MC_AssetsDocument_failure.cfg` | violation | `AllOrNothing` |

### What the properties say

- **`MarkersMatchWriter`.** Between rows, the elements the three markers believe they hold are exactly the writer's open elements inside `Streams`, in nesting order.
- **`GroupsContiguous`.** All observations of one (device, component, category) are written inside the same element instances.
- **`ImplementsStreamsDocument`.** The detailed printer refines the abstract document specification.
- **`NoUseAfterFree`.** No reader dereferences a freed event.
- **`ConvertedCorrectly` / `ConcurrentConvertedCorrectly`.** Every value `convertValue` returns is `(raw + offset) * factor / nativeScale`. The expected value `ExpectedValue` is written from the rules of spec §4.1 (`SpecFactor`), not from the model's own derivation; only the unit table is `simpleFactor`'s, which the spec defers to. The first property is checked under every order of `convertValue` and `conversionRequired()`, the second for two concurrent callers.
- **`LocationFromOwnRegistry`.** An action property: each document takes its `schemaLocation` from its own kind's registry, or from the default for the current version.
- **`EntriesFollowDataSet`.** A data set gives one `Entry` per entry, in key order, `removed` exactly on tombstones. A table entry's cells carry only their own key. The value `UNAVAILABLE` gives no entries.
- **`ReferencesFollowSchema`.** For every component at every depth of every device, the children of its `References` element are those spec §6 asks for (`SchemaReferences`, with the version read as a number): from 1.4 on, a `DataItemRef` or `ComponentRef` with `idRef` per reference; below it, a `Reference` with `dataItemId` per data-item reference.
- **`AttributesFollowConfig`** (violation run). Each configured data item is written once, with its category, each configured attribute, `nativeUnits` defaulting to `units`, the numbers read for `nativeScale` and `significantDigits`, and no attribute that was not configured.
- **`CamelTypeFollowsReference`.** For every type name of a data item in the tree, the camel type the constructor stores is the name with the underscores removed, each word capitalised and the rest lower-cased.
- **`NoHostnameRace`.** While one printer call assigns `sHostname`, no other call reads or assigns it.
- **`ValuesPrintedOnce`, `KnownBeforeExtended`.** Each value of a cutting tool is written once, in the right element. The known life-cycle properties come before the extended ones.
- **`AssetsFollowList`.** The asset elements are the assets of the list, in order. Each one opens with the `printAssetNode` header exactly once, whichever renderer wrote it.
- **`AllOrNothing`.** A document `printAssets` returns holds every asset of its list.
- **`ConditionsFromHistory`.** `getObservations` for a condition equals a declarative reading of its history.

### Findings

The violation runs show these.

1. **Use-after-free in `getLatestEvent` (`data_item.cpp:200`).** A reader copies event 1 and unlocks. A writer deletes event 1 and stores event 2. The reader then dereferences event 1.
2. **Offset race in `convertValue` (`data_item.cpp:251`).** One thread resets `mConversionOffset` to 0 while another thread is between `simpleFactor` setting it to -32 and applying it. The FAHRENHEIT value comes out wrong.
3. **Factor race in `convertValue` (`data_item.cpp:292`).** The factor is divided by `nativeScale` in place. A second derivation re-sets the factor between the first thread's division and its use.
4. **Hostname race (`xml_printer.cpp:1158`).** `initXmlDoc` tests and assigns the static `sHostname` without a lock. Two printer calls that start before it is set both find it empty: one assigns it while the other reads or assigns it. This is a data race on a `std::string`, against spec §5 (entry points are safe for concurrent invocation) and §4.4 (the sender is resolved once and cached).
5. **Partial asset document (`xml_printer.cpp:1339`).** `printCuttingTool` catches a libxml failure itself and returns `""`. `printAssets` writes that and returns a document without the tool, instead of the empty result of spec §4.4 and §7.
6. **`convertValue` before `conversionRequired()` (`data_item.cpp:245`).** `convertValue` reads `mConversionRequired`, which stays false until `conversionRequired()` is called. A first `convertValue` therefore returns 5 for 5 INCH and caches nothing. Spec §4.1 derives the factor on the first `convertValue`, whatever was called before. With every conversion preceded by `conversionRequired()` the same property holds (212 states), so the call order is the whole disagreement.
7. **Category (`data_item.cpp:83`, `:141`).** The constructor keeps `SAMPLE` and folds every other category into `EVENT`, so a `CONDITION` data item is written with category `EVENT`. Spec §3 makes `CONDITION` a category, and `xml_printer_test.cpp:223` expects `CONDITION` for the item `clc`.

### Further violations, and how to reproduce them

These are hazards in `PROJECT.json`. Each would need a violation run of its own, and all twelve run slots are in use:

- **Prefix `xsi` (`xml_printer.cpp:1127`).** `initXmlDoc` writes `xmlns:xsi` itself, then every registered prefix other than `m`. Registering `xsi` writes the attribute twice.
- **Empty urn (`xml_printer.cpp:1127`).** The root declares a registered prefix only when its urn is non-empty, while `addObservation` uses the prefix whenever it is registered.
- **Version `"1.10"` (`xml_printer.cpp:691`).** Add `"1.10"` to the versions of `MC_ProbeDocument`. The string comparison gives references the pre-1.4 shape, and `ReferencesFollowSchema` fails.

### Bounds, and why they are enough

- **`MC_SampleGrouping`.** Five data items:
  - two share device, component and category, so a group can repeat;
  - one differs only in category, one only in component, one only in device.
  - Every input list of up to 4 observations is an initial state (9,765 states). Every reset branch fires, and a group can be interrupted and resumed in the input.
- **`MC_LatestEvent`.** Two writers and two readers. `MaxWrites` is 3, enough for a reader to hold an event across two replacements.
- **`MC_UnitConversion`.** Nine unit strings covering every branch of the factor derivation. A `nativeScale` absent or 10. Raw values 0 and 5. A present `"0"` is left out: the code and spec §4.1 both divide by it (hazard `data_item.cpp:292`).
- **`MC_ConvertRace`.** Two callers, FAHRENHEIT and INCH, `nativeScale` absent or 10.
- **`MC_Namespaces`.** Two document kinds, the prefix `m` sorted between two others, any sequence of calls (519,048 states).
- **`MC_ObservationElement`.** Prefixes `m` and `x`, and none. Two entry keys and two cell keys. Every data set over them of leaf, table and rejected-cell values, with tombstones (208,832 states).
- **`MC_ProbeDocument`** (9,546 states).
  - Versions 1.3, 1.4 and 2.0, around the gate.
  - The device of the tree takes every list of up to two references over two ids and both types. Deeper in the tree, one axis has a data-item and a component reference, and a linear axis has only a component reference, which below 1.4 gives an empty `References` element.
  - Every attribute map of one data item: each optional attribute set or empty, category `SAMPLE` or `EVENT`. The `probe_category` cfg adds `CONDITION`.
  - One device per type name of one to four characters over `A`, `B` and `_`: 54 names with consecutive underscores, mixed case and one-letter words. Names ending in `_` are left out, as that input is undefined behaviour in `getCamelType` (hazard `data_item.cpp:219`).
  - A device tree with every configuration kind, a data item with every optional part (cell definitions with and without a description), and child components two levels deep. One child prefix is sometimes registered and another never is. There are compositions with and without a description.
  - A list of two devices, the second one being the tree, so the device loop runs more than once.
- **`MC_AssetsDocument`.** Every cutting tool over seven keys. Four asset lists, with the tool first, last or absent, and with header parts present or absent. Both failure points (1,689,600 states).
- **`MC_PrinterHeader`.** Two printers, and a host lookup that can succeed or fail: the smallest instance in which two calls meet at the empty cache. Error codes and texts are empty or not.
- **`MC_Checkpoint`.** Two codes and two messages. Up to five additions, so that a code is raised, raised again with a new text, cleared and raised again (177,156 states).

### Fairness

Every run checks safety only, so no specification assumes fairness. `printSample`'s loop is a range-for over the sorted list, and so bounded by construction; a liveness property of it would say nothing a reader of the loop cannot see. Runs whose behaviours end (one printer call, or a bounded number of additions) set `CHECK_DEADLOCK FALSE`, and their cfg says why.

## 4. What is not modelled, and why

- **Data rather than control.** libxml's byte output, escaping, pretty printing, text bodies, component attributes, and the values of the header attributes.
- **`getTypeString`.** It only chooses between `mType` and `mCamelType`.
- **Allocations (`XmlWriter`, `xml_printer.cpp:60-97`; `addSimpleElement`, `:394-405`).** The models keep the elements written, not allocations. Two throws leak memory, and `PROJECT.json` lists both as hazards:
  - The `XmlWriter` constructor leaks its buffer when a later libxml call throws.
  - `addSimpleElement` leaks the escaped body when the write fails.
  Either leak would need a violation run of its own, and all twelve run slots are in use.
- **`printError` properties.** `printError` is modelled, but no property is about it alone: it writes one fixed element. Its header is what `printer_header` checks.
- **Sensor, specification and coordinate-system detail.** `ConfigElems` writes the elements of each configuration kind, but no property reads them: the spec says nothing of their shape. The sensor's raw rest content and a relationship's name are left out.
- **The latest-event cell's ownership.** `setLatestEvent` replaces the event atomically under the lock, so the model checks only the reader's use after the unlock (`NoUseAfterFree`).
- **Not in the repository.**
  - `ObservationCompare` and the `Checkpoint` source are modelled from the spec. The sort is assumed stable, as the spec requires.
  - The `DataItemDefinition` set order is spec-modelled as `CellOrder`.
  - `Component` accessors are taken to return references.
- **No implementation here.** The JSON printer (header only) and `CoordinateSystems` (a data holder).
- **Concurrency outside the models.** Concurrent printers and configuration setters are not modelled. Spec §5 confines configuration to a setup phase.
