# TLA+ specifications of nexus

`nexus` is an application for the analysis of Korean stocks: a user finds a stock, lets a *pipeline*
of agents analyse it, opens a *case* on it, and a worker watches the case until one of its scripts
closes it. Pipelines and their parts are published, liked, forked and verified on a marketplace, and the
user's trades are booked into a portfolio. This directory models the four parts in which several actors
work on shared rows, the monitoring engine, the pipeline engine, the marketplace and the portfolio,
checks the models with TLC and proves their safety properties with TLAPS. A fifth model, which TLC only
checks, is of the search language and its two readers. Paths below are relative to
the root of the repository; `backend` is the Go backend, `src` the Next.js client.

- [The system](#the-system): components, state, operations, what is hard
- [Modules](#modules): what models what
- [Runs](#runs): what TLC checks, with which bounds and fairness
- [Findings](#findings): where code and documentation disagree
- [Proofs](#proofs): what holds for every value of the constants
- [Abstractions and limits](#abstractions-and-limits)
- [Plan](#plan)

## The system

Two processes share Postgres and Redis: the API server (`backend/cmd/api`) and the worker
(`backend/cmd/worker`), an asynq server with ten goroutines. The worker's scheduler is rebuilt from
the database every five minutes; this is the only way in which a change made over HTTP reaches it.

```
 web client --HTTP--> API server --SQL--> Postgres <--SQL-- worker: scheduler -> agent tasks
     |  polls a job      | goroutine per job                 |              -> poll task -> lifecycle tasks
     +-------------------+                                   +--- tasks in Redis (asynq) ---+
```

| Component | State | Operations | Hard because | Correct when |
|---|---|---|---|---|
| Schedule manager (`backend/internal/worker/scheduler.go`, `scheduler_sync.go`) | the current `asynq.Scheduler`, `sm.mu` | `SyncMonitorSchedules` from `main`, from an `@every 5m` job that may overlap itself, from `closeCase`; `Shutdown` | the mutex is held over a query, the new scheduler is started by a goroutine outside it, `Shutdown` of an unstarted scheduler does nothing | an older read never replaces a newer one, every caller returns, the schedules catch up with the rows |
| Lifecycle handler (`lifecycle.go`) | `cases`, `price_alerts`, `timeline_events`, `monitor_blocks` | `closeCase` (4 statements and a sync), `triggerAlert` (2 statements) | no transaction; asynq delivers at least once, retries from the first statement and archives after `MaxRetry`; duplicates are not refused | status and timeline agree, no entry is lost, a closed case is not scheduled |
| DSL poller (`dsl_poller.go`) | the list of live cases of one cycle | list, prices, success script, failure script, alerts, enqueue | works on a list read once; a match is a task and not yet a change of a row | a paused case is let go |
| Agent handler (`monitor_agent.go`) | the task's copy of case and block | look up the case, run the agent, timeline, `last_executed_at` | the task is as old as the last sync; neither status nor flag is read again | an inactive block falls silent |
| Case, alert, monitor endpoints (`backend/internal/handler`, `service/monitoring_service.go`) | the same rows | close, delete, create and delete alerts, toggle a block, toggle a case (three statements) | run beside the worker | as above |
| Market clock (`infra/market_time.go`, the poller's cron entry) | none | `IsMarketHours` | KST and UTC | polls happen in market hours |
| Pipeline service and jobs (`service/pipeline_service.go`, `repository/pipeline_repo.go`) | `pipelines`, `stages`, `agent_blocks`, `pipeline_jobs` | save (one transaction that replaces all stages), delete, load (several queries), execute (a goroutine), read a job | the goroutine outlives the request and dies with the server; the row may be deleted under it; errors of its updates are dropped | a job's status never goes back and tells what became of the run |
| Pipeline orchestrator (`service/pipeline_orchestrator.go`) | results and errors of a run | order indexes one after the other, the blocks of one in parallel | goroutines read the results that the main loop appends to | a block sees the results of all earlier indexes and of no other |
| Job polling of the web client (`src/features/pipeline-builder/lib/useRegisterAndRun.ts`) | attempts, errors in a row | ask every two seconds, 60 times, three errors in a row | the job may be lost, deleted or late | it stops, and what it returns is final |
| Marketplace (`service/marketplace_service.go`, `fork_service.go`, `repository/marketplace_repo.go`) | `marketplace_items` and their counters, likes, view and run logs, the published resources | publish, detail, like, run, fork, verify, delete | check before insert, row and counter in two statements, a lock only in a fork | each counter says how many rows there are, a fork owns its copy, a badge is earned |
| Marketplace statistics worker (`worker/marketplace_stats.go`) | the queue's task, the items still to be counted | recount of one item or of all, one statement a counter | it runs beside the requests; asynq tries again what failed | a recount repairs the counters |
| Portfolio bookings (`service/portfolio_service.go`, `domain/portfolio/fifo_engine.go`, `tax_calculator.go`, `repository/portfolio_repo.go`) | positions, FIFO lots, realised profits | buy, sell, recalculate | neither transaction nor lock; quantities, fees and taxes are shared out over lots and rounded | each share is in its lot or in one profit row, the position shows its lots |
| Portfolio reports and journal (`portfolio_service.go`, `rebalance.go`, `sector.go`, `domain/trade/pnl_calculator.go`) | none | summary, sectors, history, tax, rebalancing, profit of a journal | several computations of the same amounts | they tell one story |
| Search and DSL (`internal/dsl`, `service/search_service.go`) | none | parse, evaluate; search | precedence and nesting; values of three kinds without a type checker; the search API reads a text by regular expressions, beside the parser | the tree is the grammar's, both readers find the same stocks |
| KIS and DART clients (`infra/kis`, `infra/dart`) | token cache | fetch and cache a token | expiry, a mutex held over HTTP | one fetch at a time, no stale token |
| Other views of the web client (`use-search-actions.ts`, `use-chart-data.ts`) | results shown | search, change the symbol | answers are not cancelled | what is shown belongs to what was asked last |
| Blocks, presets, watchlists, trades, authentication | rows | single statements | little | - |

The hazards, each at its line and with the property that covers it, are listed in `PROJECT.json`.

## Modules

Monitoring engine. `CaseStore` is the database, `SchedulerManager` and the handlers are built upon
it, each module adding its own variables:

```
CaseStore --+-- SchedulerManager --+-- LifecycleHandler -- DSLPoller --+
            |                      +-- AgentHandler -------------------+-- Monitoring -- MCMonitoring
            +-- CaseAPI ----------------------------------------------+        |
                SchedulerManager + CaseAPI = Scheduling -- MCScheduling    MCScenarios
MarketClock
```

| Module | Code | State and actions |
|---|---|---|
| `CaseStore` | `backend/db/queries/*.sql`, migrations | rows of `cases` (`caseStatus`, `dslPolling`), `monitor_blocks` (`enabled`), `price_alerts` (`alert`), timeline entries as counts up to `Many`; one operator per statement, with its WHERE |
| `SchedulerManager` | `scheduler.go`, `scheduler_sync.go`, `cmd/worker/main.go` | `mu`, `call[p]` (where caller p is), `rows` (what it has read), `current`, `strays`; `Lock`, `Query`, `QueryFails`, `Install`, `RunCurrent`, `RunStray` and the process: `Start`, `Signal`, `Shutdown`, `Crash` |
| `LifecycleHandler` | `lifecycle.go`, `task_types.go` | `lifecycle[i]`: a task and the statement its handler has reached; one action per statement, `StatementFails`, crash, retry, archive |
| `DSLPoller` | `dsl_poller.go` | `poll[i]`: the cycle's list and the cases still to be judged |
| `AgentHandler` | `monitor_agent.go` | `agent[i]` |
| `CaseAPI` | the handlers and `monitoring_service.go` | one action per request; `ToggleCaseMonitoring` is two statements, the second of which may fail |
| `Scheduling` | scheduler beside the API | composition, fairness, properties of the syncs |
| `Monitoring` | everything above | composition, fairness, properties of delivery |
| `MCScenarios` | - | `scenario`, which of the scenarios of its runs a behaviour belongs to, chosen at its start |
| `MarketClock` | `market_time.go`, the cron entry | `now`, a minute of the week, and whether a poll was enqueued in it |

Pipeline engine (`Contract == INSTANCE JobContract WITH row <- row`):

```
PipelineOrchestrator -- PipelineService -- JobPolling -- Pipelines -- MCPipelines
                              |
                          JobContract
```

| Module | Code | State and actions |
|---|---|---|
| `JobContract` | what `pipeline_jobs` promises its reader | abstract: `Accept`, `Begin`, `Succeed`, `Fail`, `Withdraw` over `row` only |
| `PipelineOrchestrator` | `pipeline_orchestrator.go` | per job `pc`, the loaded `plan` and `blocks`, `ahead` (order indexes to come), `group` (blocks of the present one), `outcome` and `input` of each block, `results`, `errors`; `EnterStage`, `StartBlock`, `EndBlock`, `Collect` |
| `PipelineService` | `pipeline_service.go`, `pipeline_repo.go` | `pipeline`, `stages`, `written`, `row`; the user's `CreatePipeline`, `UpdatePipeline`, `DeletePipeline`; the request `LoadPipeline`, `LoadStages`, `LoadBlocks`, `CreateJob`; the goroutine `MarkRunning`, `MarkCompleted`, `MarkFailed`, `UpdateFails`; `CrashAPI` |
| `JobPolling` | `pollJobStatus` | `client`, `attempts`, `misses`, `answer` |
| `Pipelines` | everything above | composition, fairness, properties |

Marketplace (`Board == INSTANCE LikeBoard WITH likes <- likes, ticket <- ticketOf, NoTicket <- None`):

```
MarketplaceStore -- Marketplace -- MCMarketplace
                        |
                    LikeBoard
```

| Module | Code | State and actions |
|---|---|---|
| `MarketplaceStore` | `marketplace_repo.go` | `resources` (blocks, presets, scripts, pipelines by owner), `items`, `count` (item -> counter), `likes`, and the logs: `views` and `runs` as counts, `recent` (views of the last hour); one operator per statement, with its WHERE |
| `LikeBoard` | what the like button promises | abstract: who likes what, and the request of each slot; a toggle decides from what it sees, makes its own pair so, once, and answers that |
| `Marketplace` | `marketplace_service.go`, `fork_service.go`, `marketplace_stats.go` | `slot[s]`: the request the server works on and the statement it has reached; `task` and `worker`: the recount; one action per statement, `Fail`, `MissView`, `RefreshFails`, `CrashAPI`, `CrashWorker` |

Portfolio:

```
Sums -- PortfolioStore -- PortfolioReports -- Portfolio -- MCPortfolio -- TaxYears
```

| Module | Code | State and actions |
|---|---|---|
| `Sums` | - | the sum of a function's values, with which quantities and amounts are added up |
| `PortfolioStore` | `portfolio_repo.go`, `fifo_engine.go`, `tax_calculator.go` | `positions`, `lots`, `pnls`, `clock`; the statements, the matching of a sale with the oldest lots, fees, taxes and their rounding to cents |
| `PortfolioReports` | `portfolio_service.go`, `sector.go`, `rebalance.go`, `pnl_calculator.go` | no state: what is computed from the tables and from a journal of trades |
| `Portfolio` | `ProcessBuyTrade`, `ProcessSellTrade`, `recalculatePosition` | `pc[t]`: the statement trade t runs next, `legs[t]`: what is left of its match, `seen[t]`: the aggregates it has computed; one action per statement, `Fail`, `Crash` |
| `TaxYears` | `SimulateTax` | a calendar over the clock of `Portfolio`, and the tax of one year |

Search language:

```
DSLParser -- DSLEvaluator -- SearchExecutor -- DSL -- MCDSL
```

| Module | Code | State and actions |
|---|---|---|
| `DSLParser` | `lexer.go`, `token.go`, `parser.go`, `ast.go` | no state: the tree of a text given as its tokens, or the token refused |
| `DSLEvaluator` | `evaluator.go`, `context.go` | no state: the value of a tree, of one of three kinds, or a fault |
| `SearchExecutor` | `executor.go` | no state: the search that the regular expressions read off a text, and what it finds |
| `DSL` | the users of the above | `text`; `Write` appends a token, so that the states are the texts; the grammar and the kinds as definitions of their own, independent of the code |

The search API is served by `SearchExecutor`. Nothing outside `internal/dsl` calls the parser or the
evaluator yet; they are what the price conditions of cases are to be judged with (`evaluateDSL`).

`disturbed` of `Marketplace` and `off` of `Portfolio` (with `stale`, from which it is computed) are
ghosts: no guard and no other variable depends on them. They name what is known to spoil a counter or a
position (overlapping toggles of one user, a failure between two statements, two sales that match the
same lots, ...), and each is set by the step that does so. The invariants hold in all states outside
these causes; a counter or a position that goes wrong in any other way violates them. So the models
state how far code without transactions can be relied upon, and the causes are the hazards listed in
`PROJECT.json`.

Operators whose comment begins with "Mutant:" are plausible bugs. Nothing uses them; putting one in
the place of the operator it resembles shows that a property notices it (`PROJECT.json`, "mutants").

## Runs

| Run | cfg | Question | Distinct states |
|---|---|---|---|
| `scheduling` | `Scheduling.cfg` | do overlapping, failing, crashing syncs exclude each other, return, and catch up with the rows? | 40,027 |
| `lifecycle` | `Lifecycle.cfg` | do rows, timeline and schedules agree, and is no entry lost, when alert and close tasks are duplicated, fail, crash and race users and syncs? | 1,658,232 |
| `progress` | `Progress.cfg` | in the end, has a triggered alert its entry, an inactive block no agent task, and is a paused case let go? | 126,439 |
| `pipelines` | `Pipelines.cfg` | does a job keep its contract, tell the truth and end, and does its client stop? | 22,446 |
| `marketplace` | `Marketplace.cfg` | do counters, likes, forks and badges stay right under interleaved and failing requests, and does a recount repair the counters? | 508,874 |
| `portfolio` | `Portfolio.cfg` | do lots, profit rows, positions, reports and taxes agree, whatever interleaves and fails? | 306,210 |
| `dsl` | `DSL.cfg` | does the parser follow the grammar, evaluation keep to the kinds of values, and a search find what its tree says? | 307,046 |
| `worker_close` | `WorkerClose.cfg` | violated: a close task reaches the case's status | |
| `scheduler_leak` | `SchedulerLeak.cfg` | violated: at most one scheduler runs | |
| `market_hours` | `MarketHours.cfg` | violated: a poll is enqueued in market hours | |
| `torn_load` | `TornLoad.cfg` | violated: a completed job had loaded all blocks of its stages | |
| `tax_years` | `TaxYears.cfg` | violated: the tax answered is that of one year | |

`lifecycle` and `progress` join the scenarios of `MCScenarios`: `alerts` (duplicated alert tasks),
`closing` (close tasks against syncs that began before them), `pausing` (a poll over an old list) and
`agents` (tasks of old schedules). A scenario limits what users, polls and cron times bring about, so
that the states of the scenarios add up and do not multiply; the worker may do whatever the code does
with what there is. The limit `OneStray` of `agents` is the exception: it bounds the schedulers that
were started after their shutdown (finding 3) to one at a time. Two tasks at once are in `lifecycle`;
`progress` has one, which failures, crashes and redelivery still bring back to a half-done alert.

**Properties.** Scheduler: `NoOvertaking` (action property), `SyncReturns`, `SyncCatchesUp`. Delivery:
`AlertEventMeansTriggered`, `TriggeredAlertAccounted`, `TriggeredAlertGetsEvent`,
`CloseEventMeansClosed`, `ScriptCloseAccounted`, `ClosedCaseUnscheduled`, `InactiveBlockFallsSilent`,
`PausedCaseFallsSilent`. Pipelines: `JobsKeepContract` (refinement of `JobContract`),
`InputsFromEarlierStages`, `StatusTellsTheRun`, `AnswerIsFinal`, `JobsEnd`, `ClientsStopWaiting`.
Marketplace: `CountersExact`, `ViewsCountOnce`, `ForksOwnTheirCopy`, `BadgeEarned`, `TogglesKeepBoard`
(refinement of `LikeBoard`), `RecountRepairs` (liveness). Portfolio: `LotsConserved`, `SalesFill`,
`AggregatesFollow`, `RecalculationRepairs` (action property), `RowsAddUp`, `JournalAgrees`,
`ReportsAgree`, `TaxesAgree`. DSL: `ParserFollowsGrammar`, `EvaluationIsTyped`,
`SearchFindsWhatIsEvaluated`. Each is stated with its reason in the module that defines it.

**Bounds.** The constants of each cfg are the bounds; there are no state constraints.

- Monitoring: one case (rows of different cases share only the scheduler's set of blocks), up to two
  blocks, one of them with a cron text that is refused, one alert, two task slots where duplicates
  matter, one retry, two overlapping periodic syncs. Two tasks and one retry are enough for a
  duplicate to overtake a failed or crashed original, and for archiving. A producer waits for a free
  slot. Timeline entries are counted up to `Many` = 2, to tell none, one and more.
- Pipelines: one job and its client; two saves, the first with two stages of one order index (two
  blocks and one) and a stage of a later index, the second with a later stage without blocks; three
  attempts and two errors in a row in the place of 60 and 3. Jobs share the deletion of the pipeline
  and the crash of the server; that they do not disturb each other otherwise is proved
  (`OthersKeep`) and not left to the bound.
- Marketplace: two users, a published pipeline and room for one fork of it, two requests at once and
  two in all, one fault, one recount (repeated as often as asynq tries again). Every race of the code is
  between two requests, or a request and the recount; a third only repeats one of them. Seven jobs, one
  that earns the badge and six that fail one condition each, at its boundary. Counters of different
  items share nothing but the recount's list.
- Portfolio: four scenarios of four trades, up to three of them at once, one fault: two buys and two
  sales of one Korean or one US position, a buy and a sale of each, three sales of one lot. Sales need
  several lots, are at a loss, or find fewer shares than they want; neither quantities nor fees divide
  evenly, so that rounding shows. Amounts are cents. `Plans` are targets with weights below, at and
  above 100, a target twice, and a symbol that is not held. `tax_years` counts three ticks of the clock as
  a year; with all trades in one year the same property passes, so it is the years and no rounding that
  breaks it.
- DSL: all texts over three vocabularies. One has an operator of every level, both unary ones,
  brackets, an assignment and a search, five tokens long: enough for two operators, which is what
  precedence and grouping are about, and for a unary one before them. One has all clauses of a search
  with two conditions: seven tokens besides the words of the clauses. One has calls with up to two
  arguments, seven tokens long. A text that the parser refuses before its end is not written further,
  since what it has read decides. Four stocks meet each condition in each way.
- MarketClock: all 10,080 minutes of a week.

Deadlock is checked, except in the runs of Pipelines, Marketplace, Portfolio and DSL, where everything
may have come to its end.

**Fairness.** Weak fairness says that a goroutine that can run does: the scheduler's own goroutine, the
periodic job of asynq (in `progress` only in the scenario that has one), a handler whose task is in
Redis while a worker runs, the goroutines of a pipeline run, the client's timer. Strong fairness is used
twice, for the caller of a sync: a Go mutex does not starve a waiter (`Lock`), and a query repeated
every five minutes works in the end (`Query`). In the marketplace only the steps of the statistics
worker are fair, the goroutine of asynq that serves the queue; requests may stop anywhere. A database
statement of a handler either returns or fails, and asynq tries again only `MaxRetry` times. Nothing is
assumed of users, requests, signals, crashes, prices and the cron times of blocks. "While the worker
stays up" is a premise of the properties (`<>[](proc = "running")`) and no assumption of fairness.
`InactiveBlockFallsSilent` also has the premise that no stray scheduler is left, because of the third
finding below.

## Findings

1. `worker_close`: `closeCase` leaves `UserID` out of `UpdateCaseStatusParams`
   (`backend/internal/worker/lifecycle.go:58`), while the statement has `AND user_id = $5`. No row
   matches, every retry fails, the task is archived and the case stays LIVE, where plan-06 and the
   design ask for it to be closed. The run lets the success script become true, which the shipped stub
   of `evaluateDSL` never does: the fault shows when the stub is replaced. The runs about the rest of
   `closeCase` take `CloseUser` as if the owner's id were passed (`Bound`).
2. `market_hours`: the poller's cron entry is read in UTC and the handler's gate in KST, so a poll that
   starts in the minute it is enqueued is always dropped (`PollGateNeverOpens` is proved). In
   `Monitoring` the gate is a free choice, so that what the poller would do is checked.
3. `scheduler_leak`: a scheduler that is replaced before its goroutine has run is shut down while that
   does nothing, is started afterwards, and runs beside the new one until the worker ends. It takes two
   syncs in quick succession.
4. `torn_load`: a pipeline is loaded by several queries; a save that commits between the query for the
   stages and the one for their blocks leaves stages without blocks, which the orchestrator passes
   over: the job is COMPLETED and has run nothing.
5. `tax_years`: the tax endpoint is called annual (`backend/internal/domain/portfolio/types.go:132`,
   `backend/internal/handler/portfolio_handler.go:141`), and plan-08 reads the rows of one year, but
   `SimulateTax` (`backend/internal/service/portfolio_service.go:283`) adds up the rows of all years and
   takes the yearly deduction once. With sales in two years its answer is the tax of neither.
   `TaxesAgree` says nothing of years: it is about the taxes of the sales and the tax of all of them.

## Proofs

All for any number of cases, blocks, alerts, users, task slots, retries, jobs, stages, clients, items,
requests, faults, positions and trades, from the named assumptions of the modules (types of the
constants; `Main`, cron jobs and handlers are different goroutines; a limit of errors is at least one;
`None` is no ticket; whoever buys buys something).

| Theorem | Module | Inductive argument |
|---|---|---|
| `TypeCorrect` of Scheduling, `SyncsExclude`, `SyncsDoNotOvertake` | `StoreProofs`, `SchedulingProofs` | `SchedulerInv`: types and `MutexHeld`, the holder of `sm.mu` is the caller that is between its lock and its unlock. So nobody else is where it could install |
| `TypeCorrect` of Monitoring | `MonitoringProofs` | `TypeInv`: types and `MutexHeld`; one lemma per handler |
| `AlertEventsAreTrue`, `TriggeredAlertsAreAccounted`, `CloseEventsAreTrue`, `ScriptClosesAreAccounted`, `ClosedCasesAreUnscheduled` | `MonitoringProofs` | `DeliveryInv` |
| `PollGateNeverOpens` | `MarketClock` | the two clocks disagree at every minute |
| `TypeCorrect` of Pipelines | `PipelineProofs` | types and `MissesBounded`: before a client gives up its errors in a row are under the limit |
| `InputsCorrect`, `StatusCorrect` | `PipelineProofs` | `IInv` |
| `ContractKept` | `PipelineProofs` | `NextImplements`: under `IInv` every step is a step of `JobContract` or leaves `row` alone |
| `AnswersFinal` | `PipelineProofs` | from the contract: it has no step from an ended job but its withdrawal |
| `TypeCorrect` of Marketplace | `MarketplaceProofs` | types, one lemma per action |
| `BadgesAreEarned` | `MarketplaceProofs` | `BadgeInv`: a request about to write the badge still satisfies `MayVerify` |
| `ForksKeepTheirCopy` | `MarketplaceProofs` | `ForksOwnTheirCopy` is inductive with the types: ids are fresh, and a published resource is not deleted |
| `ViewsAreCountedOnce` | `MarketplaceProofs` | `ViewInv`: without an overlap a viewer is alone, and has no view in the hour |
| `CountersAreExact` | `MarketplaceProofs` | `PlainInv`: rows and the requests between their two writes add up to the counter; `LikeInv`: the same for likes, and a toggle alone on its pair agrees with the row |
| `TogglesImplementBoard` | `MarketplaceProofs` | `NextKeepsBoard`: every step is a step of `LikeBoard` or leaves likes and tickets alone |
| `AggregatesFollowLots`, `RecalculationRepairsAlways` | `PortfolioProofs` | `IInv`: a trade about to write aggregates has those of the lots unless it is in `stale`, and a quiet position shows its lots; a closed lot adds nothing |
| `TypeCorrect` of Portfolio | `PortfolioProofs` | `BookInv`: types; legs are of different lots and take something of each; a row is what its sale and lot make it; rows are recorded in the order of the lots |
| `SalesAreFilled` | `PortfolioProofs` | `FillInv`: what a sale has booked and what its legs still are to book add up to its quantity; `MatchFills`: that is what the engine matches |
| `LotsAreConserved` | `PortfolioProofs` | `Conserve`: a leg says what its lot has and will have left, and nobody else has a leg of that lot, unless the position is marked |
| `RowsAddUpAlways` | `PortfolioProofs` | `FillInv`, `Conserve` and `RecordInv`; fees are compared in units of a common multiple of all quantities |
| `TaxesAreAgreed` | `PortfolioProofs` | `BookInv`, and bounds of each row summed over the rows |
| `ReportsAgreeAlways` | `PortfolioProofs` | `BookInv` and `DatesApart`, no two trades take the same time, so that the history has one order |
| `JournalAgreesAlways` | `PortfolioProofs` | `JournalInv`: a lot is its buy's, and each sale took of each older lot what first in, first out gives it of what the lot held at the sale's instant |

`DeliveryInv` is needed because the invariants of the run do not say what holds between two
statements. `AlertTasks` and `CloseTasks` say, for each statement a handler may have reached, what the
earlier ones have done to the rows and what users may have done to them since; a task that fails or
crashes keeps its job or archives it (`PutBack`), so a debt never disappears. Everything users and
agents do is summed up in `Benign`, and one lemma shows that `Benign` steps keep the invariant. For
`ClosedCasesAreUnscheduled` the invariant also follows the rows a sync carries: `CloseTasks` says that
what the task's sync has read is free of the case, and `SettledUnscheduled` that the same holds of
every later sync, because a closed case is not listed and the mutex keeps earlier readers out.

`IInv` of Pipelines splits the blocks of a job by order index: what has begun lies behind the indexes
ahead (`BegunInv`), the present group is all of one index, above everything else that has begun
(`GroupInv`), results and errors are exactly what has returned outside the group (`CollectedInv`), no
block is forgotten (`CoverInv`), each index behind has a block that did not fail (`SurvivorInv`), and
the row keeps step with the goroutine (`RowInv`). TLC checked it as an invariant before it was proved.

The counters of the marketplace are the case where the run's invariant says least about what holds
between two statements. For views, forks and runs one equation is enough, count = rows + requests
between their two writes. For likes it is not: the counter has a floor at zero and two toggles of one
user may both insert, so `LikeInv` counts users instead of requests, and holds only until toggles of a
pair overlap. The lemmas on cardinalities come first in the module, then one lemma per action.

The invariant of the portfolio is `Books`, the conjunction of the ones named above (`IInv`, `BookInv`,
`FillInv`, `Conserve`, `RecordInv`, `DatesApart`), each kept by every step with the help of those before
it. Quantities and amounts are sums over lots, rows and positions that the constants do not bound, so
`SumTheorems` proves first what sums do: a new element adds its value, a sum may be split, taken group
by group, scaled, bounded term by term, or carried over a one-to-one map. `Sum` is a fold, which
recurses over the subsets of the domain. The induction is over the set of the subsets (or numbers) for
which a statement holds, from the library's theorem that a well-founded order has minimal elements
(`SetInduction`, `NaturalInduction`), since an induction theorem with an operator for a parameter
cannot be instantiated.

`JournalAgrees` compares two FIFO algorithms that share nothing: the bookings take of the lots of the
table, in the order the sales read them, and `CalculatePnL` replays the trades by date with a queue of
its own. `JournalInv` adds to `Books` what makes them meet. `LotsSigned`: a lot is known by the time
of its buy. `Overtaken`: on a position where no mark was set, whoever still has lots to take or to
write is later than every sale taken up, so that no sale changes what an earlier one found.
`Matching`: a sale's rows and the legs it has left are its `Share` of each older lot, reckoned from
what was bought and from the rows of earlier sales only (`Held`), never from what lots have left now.
Once the position is quiet this no longer speaks of time but of rows, and a second part of the proof,
without state, shows that a journal whose sales are in such rows (`Story`) leaves the queue with what
the rows leave (`StoryQueue`, by induction over the trades), the profit of the rows (`StoryRealized`)
and their shares and cost (`StoryShares`). `ToldStory` brings the two parts together. The model keeps
the queue as what is left of each purchase; the code's queue drops a purchase when nothing is left,
which changes no match.

One assumption came out of the proofs. A plan is a finite sequence of symbols with integer weights, of
either sign; the code refuses no negative weight (`rebalance.go:72-78`), and since a plan with one can
need more cash than its sales bring in, `ReportsAgree` says nothing of such a plan.

Only model-checked are the liveness properties (`SyncReturns`, `SyncCatchesUp`,
`TriggeredAlertGetsEvent`, `InactiveBlockFallsSilent`, `PausedCaseFallsSilent`, `JobsEnd`,
`ClientsStopWaiting`, `RecountRepairs`), since liveness under fairness and ENABLED are out of the
prover's reach.

Recursive operators are declared by the modules of the search language only, which no theorem is about:
what a recursive definition computes for every text is an induction over data, out of the prover's reach.

## Abstractions and limits

Monitoring:

- The status BACKTEST is left out: the worker never selects it. Statuses never leave the closed ones.
- No code of the repository inserts a case (POST /cases is a placeholder) or sets
  `monitor_blocks.case_id`: the model begins with rows that are there.
- asynq is modelled from the way the code uses it: at least one delivery, a retry counted for an error
  and for an expired lease, archiving after `MaxRetry`, tasks put back uncounted when the server stops.
- `evaluateDSL` and `getPrice` are stubs; what a real engine may find is given by the constants
  `Priced`, `MayReachSuccess`, `MayReachFailure`, `MayTrigger`. With them empty the model is the
  shipped program. Errors of the DSL context are part of `JudgeFails`. Prices are per symbol in the
  code and per case here, which allows more.
- An alert's ownership check and its statement are one step. `sm.Shutdown` and the end of `main` are
  one step.
- `DeleteMonitors` and `DeletePriceAlerts` of a pipeline save are not modelled.

Pipelines:

- One pipeline, saved in transactions that write new stage ids; each save of the constant `Revisions`
  is written at most once.
- Results and errors are sets of blocks: their order within one index, their text, `started_at` and
  `completed_at` are left out.
- The runner is a stub that always answers; `Outcomes` says what a block may return, output without an
  error, neither, or an error. An agent that never answers would keep its job RUNNING for ever.
- A failing statement changes nothing. A statement that commits although its answer is lost looks like
  a crash of the server right after it.
- A request that fails may be made again under the same job id. The client learns the id once the row
  is there, or never.
- The ownership of pipelines is left out: the one user is the owner.

Marketplace:

- No `main` of the repository wires the marketplace's handlers or its worker; the model is of the code
  as it would run. Tables are as the code names them: the migrations lack some of them, so that on the
  repository's own schema a fork of a pipeline or a judgment script would fail.
- The handler of verify passes a job without statistics, which is refused: over HTTP nobody earns a
  badge today. The model lets a job have what the service asks for.
- Lists and searches read one statement after another and change nothing; they are not modelled. The
  count query of `ListItems` (`backend/internal/repository/marketplace_repo.go:147`) uses an alias it
  does not declare, so that every list without a search text fails, although plan-10
  (`plan-10-marketplace.md:445`) expects a published pipeline on it.
- `Publish` does not ask whose the resource is, as in the code. What a fork copies inside a resource,
  and PUT, which changes texts only, are left out. Whether an item is active is read before the fork's
  transaction, and may have changed when it commits.
- A statement of the recount counts as of its start and may then wait for the lock of a fork.

Portfolio:

- `PortfolioHandler` is not wired into a `main` either, and `CreateTrade` does not call the booking;
  trades come from outside. `CreateTrade` and its timeline entry, whose failure is only logged, are not
  modelled.
- A trade is booked at most once. Trades of a day are unordered in the journal's table; the model gives
  each the time it was booked at. A lot is dated before it is written, which is how a sale misses it.
- A buy that fails after its first statement leaves a position without lots, and a sale that fails
  between a row and its lot leaves a share both sold and held; `off` records both.
- The summary reads the positions and then the realised sum; the model takes them in one step. Once
  everything is sold it answers a realised profit of zero, since it returns early when there are no
  positions; plan-08 (lines 998-1004) prescribes the same. `ReportsAgree` compares the realised profit
  of the summary with the rows where there are positions. A history that ends on a day excludes that day
  (the bound is its midnight); periods here are ticks of the clock.
- A negative weight of a target passes the code's validation; no plan of the run has one. Percentages
  that divide two sums, and the order of lists, are left out. A price of zero stands for one not
  fetched.

Search language:

- A text is given as its tokens: white space, letter case and what the lexer does with single characters
  are left out; the tokens of a search are taken to have spaces between them. Numbers are exact.
- A search is over the latest candle of each stock. The order of the rows and their cut at the limit are
  left to the database.
- The executor refuses what the parser takes and the executor has no form for: "or", "not", arithmetic,
  calls, brackets and assignments. The client offers "or" as a completion
  (`src/features/search/lib/dsl-completions.ts:17`), and a test expects an assignment to be valid
  (`backend/internal/service/search_service_test.go:32-35`), which `Validate` refuses.
  `SearchFindsWhatIsEvaluated` speaks of texts that both take. A sort without a direction is ascending
  to the parser and descending to the executor; no document says which it should be.

### Not modelled

- The service that turns natural language into the search language: it calls an outside model.
- KIS and DART clients: requests to outside services; the token cache is their only state.
- Blocks, presets, watchlists, financials: one statement on one row of its owner. What a deletion means
  for published items is in `Marketplace` (`DeleteResource`).
- Authentication and middleware: stateless.
- Web client: searches and charts whose answers arrive out of order, views and styles. The polling of
  jobs is modelled.
- Generated queries (`backend/internal/repository/sqlc`) that no code calls yet.

## Plan

What is left, in order of weight:

1. A contract for cases as there is one for jobs, refined by `Monitoring`, with the refinement proved;
   two toggles of one case at once.
2. `SearchUI`: answers out of order in search and chart.
3. `KisToken`: the token cache under concurrent callers and expiry.
4. The monitors and price alerts that a pipeline save replaces, and `CreateTrade` with its timeline.
5. The lists of the marketplace and their pages, against rows that change between two pages.
