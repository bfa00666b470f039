---------------------------- MODULE MCComponents ----------------------------
(***************************************************************************)
(* Components that share no state, side by side: a behaviour is a          *)
(* behaviour of one of them, chosen at the start, while the others keep     *)
(* their initial state.  Variables whose name two modules use are renamed.  *)
(***************************************************************************)
EXTENDS Naturals, TLC

CONSTANTS
  Readers, TailBlocks, MaxBlocks,        \* of the event scan
  Calls, Capacity, Requests,             \* of the evidence verifier
  Clients, Checks, Enabled,              \* of the analysis service
  Tabs, Addresses, Nobody, Limit, Window, NonceTTL, SessionTTL,   \* of signing in
  Reviewed, Other,                       \* tokens of the deployment
  RunSteps, Funded, Agents,              \* of the acceptance run and of the endpoints
  \* bounds: of deployment and scripts
  DeployCommands, DeployFaults, DeployTxs, ScriptCommands, MaxProofTxs, MaxSigned, MaxSubmits,
  MaxOutside, MaxSwaps, MoveCommands, MaxMoves, MaxBalance, Funds,
  \* bounds: of the chain under both readers of it, of chat, page and sign-in
  ScanHeight, VerifiedHeight, MaxForks, MaxLag, MaxReads,
  MaxReplies, MaxModes, MaxVersion, MaxVisits, MaxNonces, MaxTime, MaxChanges

VARIABLE component   \* the one that runs
VARIABLES deployTxs, deployProgress, deployCommand, deployLost, deployCommands, network, token,
          manifest, faults
VARIABLES proofTxs, proofProgress, proofCommand, proofLost, proofCommands, jobs, wallet, evidence
VARIABLES scriptTxs, scriptAt, scriptCommands, file, journal, step, nonce, outside, signatures,
          charged, submits, waits
VARIABLES fundingPending, fundingAt, fundingCommands, report, before, buyer, agent, gas, swaps,
          transfers, cut
VARIABLES endpointFile, endpointJournal, endpointManifest, endpointAt, endpointAgent,
          endpointCommands, endpointTxs, uri
VARIABLES testEvidence, testAt, testCommands, testCharged, testPosted, state, balance, afterFirst,
          signed, record
VARIABLES swapEvidence, swapAt, swapCommands, swapBefore, swapGas, tokenSwaps, swapCut, usdt0, usdc,
          allowance, price, pool
VARIABLES scanChain, scanForks, reads, cache, reader
VARIABLES verifiedChain, verifiedForks, facts, call
VARIABLES client, active, running
VARIABLES chatServer, chatPending, modes, context, contextKey, checking, waiting, log, replies,
          sending, controller, composer, input
VARIABLES pageServer, editing, arriving, epoch, visits, initialLoad, dataReady, loaded, painted, poll,
          timers, refreshPending, action, acted, note
VARIABLES signInWallet, now, changes, tabs, refreshing, cookie, nonces, posted, recovering, sessions,
          overtaken
deployVars == <<deployTxs, deployProgress, deployCommand, deployLost, deployCommands, network, token,
                manifest, faults>>
proofVars == <<proofTxs, proofProgress, proofCommand, proofLost, proofCommands, jobs, wallet, evidence>>
scriptsVars == <<scriptTxs, scriptAt, scriptCommands, file, journal, step, nonce, outside, signatures,
                 charged, submits, waits>>
fundingVars == <<fundingPending, fundingAt, fundingCommands, report, before, buyer, agent, gas, swaps,
                 transfers, cut>>
endpointsVars == <<endpointFile, endpointJournal, endpointManifest, endpointAt, endpointAgent,
                   endpointCommands, endpointTxs, uri>>
testVars == <<testEvidence, testAt, testCommands, testCharged, testPosted, state, balance, afterFirst,
              signed, record>>
swapVars == <<swapEvidence, swapAt, swapCommands, swapBefore, swapGas, tokenSwaps, swapCut, usdt0, usdc,
              allowance, price, pool>>
scanVars == <<scanChain, scanForks, reads, cache, reader>>
verifyingVars == <<verifiedChain, verifiedForks, facts, call>>
analysisVars == <<client, active, running>>
chatVars == <<chatServer, chatPending, modes, context, contextKey, checking, waiting, log, replies,
              sending, controller, composer, input>>
pageVars == <<pageServer, editing, arriving, epoch, visits, initialLoad, dataReady, loaded, painted,
              poll, timers, refreshPending, action, acted, note>>
signinVars == <<signInWallet, now, changes, tabs, refreshing, cookie, nonces, posted, recovering,
                sessions, overtaken>>

Deploy == INSTANCE Deployment WITH
  txs <- deployTxs, progress <- deployProgress, command <- deployCommand,
  lost <- deployLost, commands <- deployCommands,
  MaxCommands <- DeployCommands, MaxFaults <- DeployFaults, MaxTxs <- DeployTxs
Proof == INSTANCE CanaryProof WITH
  txs <- proofTxs, progress <- proofProgress, command <- proofCommand, lost <- proofLost,
  commands <- proofCommands, MaxCommands <- ScriptCommands, MaxTxs <- MaxProofTxs
Scripts == INSTANCE OperatorScripts WITH
  txs <- scriptTxs, at <- scriptAt, commands <- scriptCommands, Steps <- RunSteps,
  MaxCommands <- ScriptCommands, MaxTxs <- MaxSigned
Funding == INSTANCE BuyerFunding WITH
  pending <- fundingPending, at <- fundingAt, commands <- fundingCommands,
  MaxCommands <- ScriptCommands
Endpoints == INSTANCE EndpointUpdate WITH
  file <- endpointFile, journal <- endpointJournal, manifest <- endpointManifest,
  at <- endpointAt, agent <- endpointAgent, commands <- endpointCommands,
  txs <- endpointTxs, MaxCommands <- MoveCommands, MaxTxs <- MaxMoves
Test == INSTANCE PaidSelfTest WITH
  evidence <- testEvidence, at <- testAt, commands <- testCommands, charged <- testCharged,
  posted <- testPosted, MaxCommands <- ScriptCommands
Swap == INSTANCE TokenSwap WITH
  evidence <- swapEvidence, at <- swapAt, commands <- swapCommands, before <- swapBefore,
  gas <- swapGas, swaps <- tokenSwaps, cut <- swapCut, MaxCommands <- ScriptCommands
Scan == INSTANCE EventScan WITH
  chain <- scanChain, forks <- scanForks, MaxHeight <- ScanHeight
Verifying == INSTANCE DeliveryVerification WITH
  chain <- verifiedChain, forks <- verifiedForks, MaxHeight <- VerifiedHeight
Analysis == INSTANCE AnalysisService
Chat == INSTANCE ChatPage WITH
  server <- chatServer, pending <- chatPending
Page == INSTANCE MarketPage WITH
  server <- pageServer
SignIn == INSTANCE WalletAuth WITH
  wallet <- signInWallet

ASSUME ComponentsAssumption ==
  /\ Deploy!TokensAreOutside /\ Scan!TailCoversLag /\ SignIn!BackendConstants
  /\ Scripts!DeliveryAfterAStep /\ Endpoints!AgentsAreNumbered
  /\ Proof!BoundsAreNumbers /\ Funding!BoundsAreNumbers /\ Test!BoundsAreNumbers /\ Swap!BoundsAreNumbers
  /\ Scan!BoundsAreNumbers /\ Verifying!BoundsAreNumbers /\ Chat!BoundsAreNumbers
  /\ Page!BoundsAreNumbers /\ SignIn!BoundsAreNumbers

\* The addresses are interchangeable: Init takes one of them for the first.
Symmetry == Permutations(Tabs)

\* The first state of the others, where their module allows several.
Init ==
  /\ component \in {"deployment", "proof", "scripts", "funding", "endpoints", "self-test", "swap",
                    "scan", "verification", "analysis", "chat", "market page", "sign-in"}
  /\ Deploy!Init
  /\ Proof!Init
  /\ Scripts!Init
  /\ Funding!Init
  /\ Endpoints!Init
  /\ Test!Init
  /\ Swap!Init
  /\ Scan!Init
  /\ Verifying!Init
  /\ Analysis!Init
  /\ Chat!Init
  /\ Page!Init
  /\ SignIn!Init
  /\ component # "deployment" => network = "xlayer-mainnet" /\ token = Reviewed
  /\ component # "verification" => facts = {}
  /\ component # "chat" => chatServer = [readonly |-> FALSE, configured |-> TRUE]
  /\ component # "market page" => ~editing
  /\ component # "funding" => buyer = 0 /\ ~gas
  /\ component # "self-test" => balance = 0
  /\ signInWallet = CHOOSE address \in Addresses : TRUE
  /\ component # "swap" => usdt0 = 0 /\ ~swapGas /\ allowance = "none"

Next ==
  /\ UNCHANGED component
  /\ component # "deployment" => UNCHANGED deployVars
  /\ component # "proof" => UNCHANGED proofVars
  /\ component # "scripts" => UNCHANGED scriptsVars
  /\ component # "funding" => UNCHANGED fundingVars
  /\ component # "endpoints" => UNCHANGED endpointsVars
  /\ component # "self-test" => UNCHANGED testVars
  /\ component # "swap" => UNCHANGED swapVars
  /\ component # "scan" => UNCHANGED scanVars
  /\ component # "verification" => UNCHANGED verifyingVars
  /\ component # "analysis" => UNCHANGED analysisVars
  /\ component # "chat" => UNCHANGED chatVars
  /\ component # "market page" => UNCHANGED pageVars
  /\ component # "sign-in" => UNCHANGED signinVars
  /\ component = "deployment" => Deploy!Next
  /\ component = "proof" => Proof!Next
  /\ component = "scripts" => Scripts!Next
  /\ component = "funding" => Funding!Next
  /\ component = "endpoints" => Endpoints!Next
  /\ component = "self-test" => Test!Next
  /\ component = "swap" => Swap!Next
  /\ component = "scan" => Scan!Next
  /\ component = "verification" => Verifying!Next
  /\ component = "analysis" => Analysis!Next
  /\ component = "chat" => Chat!Next
  /\ component = "market page" => Page!Next
  /\ component = "sign-in" => SignIn!Next
vars == <<component, deployVars, proofVars, scriptsVars, fundingVars, endpointsVars, testVars, swapVars,
          scanVars, verifyingVars, analysisVars, chatVars, pageVars, signinVars>>
Spec == Init /\ [][Next]_vars

-----------------------------------------------------------------------------
\* The type invariants of the modules.
TypeOK ==
  /\ component = "deployment" => Deploy!TypeOK
  /\ component = "proof" => Proof!TypeOK
  /\ component = "scripts" => Scripts!TypeOK
  /\ component = "funding" => Funding!TypeOK
  /\ component = "endpoints" => Endpoints!TypeOK
  /\ component = "self-test" => Test!TypeOK
  /\ component = "swap" => Swap!TypeOK
  /\ component = "scan" => Scan!TypeOK
  /\ component = "verification" => Verifying!TypeOK
  /\ component = "analysis" => Analysis!TypeOK
  /\ component = "chat" => Chat!TypeOK
  /\ component = "market page" => Page!TypeOK
  /\ component = "sign-in" => SignIn!TypeOK

\* What the journals of the operators' scripts are for: a resumed run repeats no
\* payment and no transaction (demo-testnet.mjs:64-107); the canary proof pays for
\* one job, publishes before it sends, and its evidence is wrong only by what a
\* stopped command did not record (run-mainnet-canary-proof.mjs:177-277); the
\* buyer's agent is funded, and the buyer's swap made, again only after a command
\* that was cut off (fund-okx-ai-selftest-buyer.mjs:110-120,
\* swap-mainnet-canary-usdt0-to-usdc.mjs:120-149); an update of the endpoints
\* leaves no transaction outside its journal (update-agent-endpoints.mjs:24-74);
\* the paid self-test is charged for once (verify-mcp-paid.mjs:67-107).
ScriptsSound ==
  /\ component = "scripts" => Scripts!ScriptsSound
  /\ component = "proof" => Proof!ChargedOnce /\ Proof!SeedMissesOnlyLost /\ Proof!PublicBeforeSent
  /\ component = "funding" => Funding!FundedAgainOnlyAfterACut
  /\ component = "endpoints" => Endpoints!NothingAstray
  /\ component = "self-test" => Test!PaidOnce
  /\ component = "swap" => Swap!SwappedAgainOnlyAfterACut

\* A manifest is true of the chain once its transactions are mined, and no contract
\* is created and no agent registered twice unless a command stopped between a
\* transaction and its record (mainnet-canary.mjs:246-293, chain.mjs:113-181).
DeploymentSound == component = "deployment" => Deploy!ManifestVerifies /\ Deploy!SentOnceUnlessLost

\* The cached history is the chain's, and an undisturbed snapshot lacks nothing
\* (chain.mjs:231-271).
ScanSound == component = "scan" => Scan!CachedHistoryIsTheChains /\ Scan!SnapshotComplete

\* A report that does not fail is true of the chain (verification.mjs:132-290).
VerifiedIsTrue == component = "verification" => Verifying!VerifiedIsTrue

\* The analysis service runs one model process, and what it publishes cites every
\* failed check (deploy/analysis/server.mjs:61-71, analysis-contract.mjs:25-42).
AnalysisSound == component = "analysis" => Analysis!OneInference /\ Analysis!Grounded

\* The transcript is of one session, and the composer is held by one reply
\* (chat.js:101-142, 257-308).
ChatSound == component = "chat" => Chat!ChatSound

\* The page shows what it loaded, after an action what was read after it, and polls
\* with one timer (xlayer.js:137-163, 405-429).
MarketPageSound == component = "market page" => Page!MarketPageSound

\* A session is what one signature of its address has made, and a tab acts as the
\* account it connected unless something else has signed in since
\* (xlayer_auth.py:75-83, xlayer.js:77-88).
SignInSound == component = "sign-in" => SignIn!SignInSound
=============================================================================
