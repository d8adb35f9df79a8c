----------------------------- MODULE AgentChannels -----------------------------
(***************************************************************************)
(* The two agent channels around the MCP dispatcher (crates/mcp-server):   *)
(* the newline-delimited stdio listener, which frames a byte stream that   *)
(* arrives in arbitrary chunks, and the Telegram poller (crates/           *)
(* telegram-bot), which owns the getUpdates offset, dedups redelivered     *)
(* updates, enforces the allowlist and crashes between any two steps.      *)
(*                                                                         *)
(* A byte is one of "x" (content), "u" (not UTF-8), "s" (blank), "r" and   *)
(* "n"; what a line decodes to is given by McpRequest.                     *)
(***************************************************************************)
EXTENDS Integers, Sequences, FiniteSets

CONSTANTS
  AgentCaps,        \* capabilities of both channels
  AgentValues,      \* what the backend may value a command at; -1 is unknown
  McpRequest(_),    \* [json, version, id, method, params, name, args]
  McpInputs,        \* byte streams
  MaxFrameBytes, MaxFrames,
  TgLog,            \* updates [id, ok, chat, sender, text], by id
  TgChats, TgSenders,
  PollBatch,        \* getUpdates limit
  TgCrashes         \* bound on crashes

Bytes == {"x", "u", "s", "r", "n"}

\* Update ids are the source's own and ascend.
ASSUME AgentAssumption ==
  /\ McpInputs \subseteq Seq(Bytes)
  /\ MaxFrameBytes \in Nat /\ MaxFrames \in Nat
  /\ AgentValues \subseteq Int /\ AgentCaps.max_trade_usd \in Int
  /\ Len(TgLog) \in Nat /\ PollBatch \in Nat
  /\ \A n \in 1..Len(TgLog) : TgLog[n].id \in Int
  /\ \A m, n \in 1..Len(TgLog) : m < n => TgLog[m].id < TgLog[n].id

VARIABLES
  mcp,   \* [source, input, line, saw, over, state, processed, frames, answers]
  tg,    \* [offset, saved, batch, passed, crashes, handled]
  ran    \* commands that reached the backend

agentVars == <<mcp, tg, ran>>

Agent == INSTANCE AgentCommand
BackendOutcomes == {"Value", "Unavailable", "Denied", "Failed"}

-----------------------------------------------------------------------------
(* The dispatcher.                                                         *)

\* Every tool's published schema: its properties and the required ones.
ToolSchema(tool) ==
  LET market == {"token_in", "token_out", "side", "amount"}
      all(s, opt) == [properties |-> s \cup opt, required |-> s]
  IN  CASE tool = "search_token" -> all({"query"}, {})
        [] tool \in {"get_token", "get_intelligence"} -> all({"token"}, {})
        [] tool = "get_chart" -> all({"token", "window"}, {})
        [] tool = "get_quote" -> all({"token_in", "token_out", "amount"}, {"router_preference"})
        [] tool = "get_orders" -> all({}, {"status"})
        [] tool = "get_portfolio" -> all({}, {})
        [] tool \in {"preview_market_order", "execute_market_order"} ->
             all(market, {"max_slippage_bps", "max_price_impact_bps", "router_preference"})
        [] tool = "place_limit_order" ->
             all(market \cup {"limit_price", "allow_partial_fill", "expires_at_ms"}, {})
        [] tool = "cancel_order" -> all({"order_id"}, {})

\* TOOL_NAMES
ToolNames == Agent!ReadTools \cup Agent!TradeTools

\* A document with these keys, each a well-formed value.
WellFormed(tool, keys) ==
  [tool |-> tool, kind |-> "absent", bad |-> {},
   fields |-> [k \in keys |->
     CASE k = "amount" -> [unit |-> "token_atomic", value |-> 1]
       [] k = "limit_price" -> [numerator_atomic |-> 1, denominator_atomic |-> 1]
       [] OTHER -> [chain |-> "base"]]]

Refused(code) == [kind |-> "error", code |-> code, runs |-> <<>>]
Returned(text, runs) == [kind |-> "result", code |-> text, runs |-> runs]

\* invoke_tool: the tool must be listed, its arguments a command, the command
\* authorized at the backend's valuation; only then does the backend see it.
InvokeTool(name, args, value, outcome) ==
  LET wire == [tool |-> name, kind |-> args.kind, bad |-> args.bad, fields |-> args.fields]
      verdict == Agent!Authorize(wire, AgentCaps, value)
  IN  IF name \notin ToolNames THEN Returned("tool not found", <<>>)
      ELSE IF Agent!CommandWireError(wire) # "none" THEN Returned("malformed request", <<>>)
      ELSE IF verdict # "authorized" THEN Returned(verdict, <<>>)
      ELSE Returned(outcome, <<[wire |-> wire, value |-> value]>>)

\* call_tool: params and arguments are objects, the name a string.
CallTool(req, value, outcome) ==
  IF req.params # "object" \/ req.name = "absent" \/ req.args.tool = "bad"
  THEN Refused("invalid params")
  ELSE InvokeTool(req.name, req.args, value, outcome)

\* dispatch_method
DispatchMethod(req, value, outcome) ==
  CASE req.method \in {"initialize", "tools/list"} ->
         IF req.params = "bad" THEN Refused("invalid params") ELSE Returned(req.method, <<>>)
    [] req.method = "notifications/initialized" -> [kind |-> "none", code |-> "", runs |-> <<>>]
    [] req.method = "tools/call" -> CallTool(req, value, outcome)
    [] OTHER -> Refused("unknown method")

\* finish: without an id nothing is answered, whatever was run.
Finish(reply, id) ==
  IF reply.kind = "none" \/ id = "none" THEN <<>>
  ELSE <<[kind |-> reply.kind, code |-> reply.code, id |-> IF id = "bad" THEN "null" ELSE id]>>

\* dispatch: what a frame is answered and what it runs.
McpDispatch(req, value, outcome) ==
  LET reply == IF ~req.version \/ req.id = "bad" \/ req.method = "absent"
               THEN Refused("invalid request") ELSE DispatchMethod(req, value, outcome)
  IN  IF req.json = "malformed"
      THEN [answer |-> Finish(Refused("malformed request"), "null"), runs |-> <<>>]
      ELSE IF req.json = "other"
      THEN [answer |-> Finish(Refused("invalid request"), "null"), runs |-> <<>>]
      ELSE [answer |-> Finish(reply, req.id), runs |-> reply.runs]

-----------------------------------------------------------------------------
(* The stdio listener.                                                     *)

\* finish_line: one trailing CR is dropped before the bound is applied.
FinishLine(line) ==
  LET content == IF line # <<>> /\ line[Len(line)] = "r"
                 THEN SubSeq(line, 1, Len(line) - 1) ELSE line
  IN  IF Len(content) > MaxFrameBytes THEN [kind |-> "oversized", line |-> <<>>]
      ELSE [kind |-> "complete", line |-> content]

IsBlank(line) == \A i \in DOMAIN line : line[i] \in {"s", "r"}

\* What run does with a frame: an answer line and the commands that ran.
HandleFrame(frame, value, outcome) ==
  IF frame.kind = "oversized"
  THEN [answer |-> Finish(Refused("frame too large"), "null"), runs |-> <<>>]
  ELSE IF \E i \in DOMAIN frame.line : frame.line[i] = "u"
  THEN [answer |-> Finish(Refused("malformed request"), "null"), runs |-> <<>>]
  ELSE McpDispatch(McpRequest(frame.line), value, outcome)

\* A frame has been read: a blank one is skipped, another handled, its answer
\* written (or the writer fails, which ends the loop) before the next is read.
TakeFrame(frame, rest, value, outcome, writes) ==
  LET reset == [mcp EXCEPT !.input = rest, !.line = <<>>, !.saw = FALSE, !.over = FALSE]
      done == HandleFrame(frame, value, outcome)
      count == mcp.processed + 1
  IN  IF frame.kind = "complete" /\ IsBlank(frame.line)
      THEN mcp' = reset /\ UNCHANGED ran
      ELSE /\ mcp' = [reset EXCEPT
                !.processed = count,
                !.frames = Append(@, frame),
                !.answers = IF writes \/ done.answer = <<>> THEN Append(@, done.answer) ELSE @,
                !.state = IF ~writes /\ done.answer # <<>> THEN "failed"
                          ELSE IF MaxFrames # 0 /\ count >= MaxFrames THEN "bounded" ELSE @]
           /\ ran' = ran \cup {done.runs[i] : i \in DOMAIN done.runs}

\* The bytes read_frame accumulates before it gives a line up.
RawLimit == MaxFrameBytes + 1

FirstOf(positions) == CHOOSE i \in positions : \A j \in positions : i <= j

\* One turn of read_frame's loop with n bytes in the reader's buffer: they are
\* consumed to the newline, and a line past the bound is drained unread.
ReadChunk(n, value, outcome, writes) ==
  LET at == {i \in 1..n : mcp.input[i] = "n"}
      newline == at # {}
      content == IF newline THEN FirstOf(at) - 1 ELSE n
      rest == SubSeq(mcp.input, content + (IF newline THEN 2 ELSE 1), Len(mcp.input))
      line == mcp.line \o SubSeq(mcp.input, 1, content)
      over == mcp.over \/ Len(line) > RawLimit
  IN  /\ mcp.state = "running" /\ n \in 1..Len(mcp.input)
      /\ IF newline
         THEN TakeFrame(IF over THEN [kind |-> "oversized", line |-> <<>>] ELSE FinishLine(line),
                        rest, value, outcome, writes)
         ELSE /\ mcp' = [mcp EXCEPT !.input = rest, !.saw = TRUE, !.over = over,
                           !.line = IF over THEN @ ELSE line]
              /\ UNCHANGED ran
      /\ UNCHANGED tg

\* End of input: what was read of a last line is a frame.
ReadEof(value, outcome, writes) ==
  /\ mcp.state = "running" /\ mcp.input = <<>>
  /\ IF ~mcp.saw THEN mcp' = [mcp EXCEPT !.state = "eof"] /\ UNCHANGED ran
     ELSE TakeFrame(IF mcp.over THEN [kind |-> "oversized", line |-> <<>>] ELSE FinishLine(mcp.line),
                    <<>>, value, outcome, writes)
  /\ UNCHANGED tg

-----------------------------------------------------------------------------
(* The Telegram poller.                                                    *)

\* ChatAllowlist::allows
AllowsChat(u) == u.chat \in TgChats /\ (TgSenders = {} \/ u.sender \in TgSenders)

\* tools_call_frame: a text that names its tool becomes a tools/call request.
ToolsCallFrame(text) ==
  [json |-> "object", version |-> TRUE, id |-> "1", method |-> "tools/call", params |-> "object",
   name |-> text.tool, args |-> text]

\* handle_text: the text must be a command document; a reply that cannot be
\* sent is an error after the command has run.
HandleText(u, value, outcome, sends) ==
  LET done == McpDispatch(ToolsCallFrame(u.text), value, outcome)
  IN  IF u.text.tool \in {"bad", ""} THEN [class |-> "invalid", runs |-> <<>>]
      ELSE [class |-> IF done.answer = <<>> THEN "skipped" ELSE IF sends THEN "sent" ELSE "unsent",
            runs |-> done.runs]

\* The updates the source returns for an offset: the oldest PollBatch that are
\* not confirmed, each once or twice, with updates below the offset among
\* them or not; poll_once sorts them by id.
Pending(offset) ==
  LET open == {n \in 1..Len(TgLog) : TgLog[n].id >= offset}
  IN  {n \in open : Cardinality({m \in open : m < n}) < PollBatch}

PollFetch(old, twice) ==
  /\ tg.batch = {} /\ ~tg.passed
  /\ Pending(tg.offset) \cup old # {}
  /\ tg' = [tg EXCEPT !.batch = (Pending(tg.offset) \cup old) \X {1} \cup twice \X {2}]
  /\ UNCHANGED <<mcp, ran>>

\* Mutant: the offset passes an update only when its reply was sent.
NextOffsetLate(u, class, offset) == IF class \in {"sent", "denied"} THEN u.id + 1 ELSE offset

\* The acknowledgement mark: past every update with an id that is not below it.
NextOffset(u, class, offset) == IF u.id >= offset THEN u.id + 1 ELSE offset

\* How an update is counted: by its id, then its shape, then its chat.
ClassOf(u, offset, handled) ==
  IF u.id < 0 \/ (u.id >= offset /\ ~u.ok) THEN "malformed"
  ELSE IF u.id < offset THEN "duplicate"
  ELSE IF ~AllowsChat(u) THEN "denied" ELSE handled

\* Updates are taken in the order of their ids.
NextUpdate(batch) ==
  CHOOSE p \in batch : \A q \in batch : p[1] < q[1] \/ (p[1] = q[1] /\ p[2] <= q[2])

\* poll_once, one update: an id below the offset is a duplicate; the offset
\* passes the update before it is parsed, allowed or run.
PollStep(value, outcome, sends) ==
  LET next == NextUpdate(tg.batch)
      u == TgLog[next[1]]
      done == HandleText(u, value, outcome, sends)
      class == ClassOf(u, tg.offset, done.class)
      runs == IF class \in {"duplicate", "malformed", "denied"} THEN <<>> ELSE done.runs
  IN  /\ tg.batch # {}
      /\ tg' = [tg EXCEPT
           !.offset = NextOffset(u, class, tg.offset),
           !.batch = @ \ {next}, !.passed = tg.batch = {next},
           !.handled = IF u.id < tg.offset THEN @
                       ELSE Append(@, [id |-> u.id, class |-> class, saved |-> tg.saved,
                                       life |-> tg.crashes])]
      /\ ran' = ran \cup {runs[i] : i \in DOMAIN runs}
      /\ UNCHANGED mcp

\* The caller persists next_offset after a pass.
Persist ==
  /\ tg.passed
  /\ tg' = [tg EXCEPT !.passed = FALSE, !.saved = tg.offset]
  /\ UNCHANGED <<mcp, ran>>

\* The process dies and resumes from the persisted offset.
PollerCrash ==
  /\ tg.crashes < TgCrashes
  /\ tg' = [tg EXCEPT !.crashes = @ + 1, !.offset = tg.saved, !.batch = {}, !.passed = FALSE]
  /\ UNCHANGED <<mcp, ran>>

-----------------------------------------------------------------------------
AgentInit ==
  /\ \E bytes \in McpInputs :
       mcp = [source |-> bytes, input |-> bytes, line |-> <<>>, saw |-> FALSE, over |-> FALSE,
              state |-> "running", processed |-> 0, frames |-> <<>>, answers |-> <<>>]
  /\ tg = [offset |-> 0, saved |-> 0, batch |-> {}, passed |-> FALSE, crashes |-> 0,
           handled |-> <<>>]
  /\ ran = {}

StdioNext ==
  \E v \in AgentValues, o \in BackendOutcomes, ok \in BOOLEAN :
    \/ \E n \in 1..Len(mcp.input) : ReadChunk(n, v, o, ok)
    \/ ReadEof(v, o, ok)

PollerNext ==
  \/ \E old \in SUBSET {n \in 1..Len(TgLog) : TgLog[n].id < tg.offset} :
       \E twice \in SUBSET Pending(tg.offset) : PollFetch(old, twice)
  \/ \E v \in AgentValues, o \in BackendOutcomes, ok \in BOOLEAN : PollStep(v, o, ok)
  \/ Persist \/ PollerCrash

AgentSpec == AgentInit /\ [][StdioNext \/ PollerNext]_agentVars

-----------------------------------------------------------------------------
(* Properties.                                                             *)

\* Where the line that holds position p begins: after the last newline before it.
BeginsAt(bytes, p, b) ==
  /\ b \in 1..p /\ (b = 1 \/ bytes[b - 1] = "n")
  /\ \A i \in b..(p - 1) : bytes[i] # "n"

LineStart(bytes, p) == CHOOSE b \in 1..p : BeginsAt(bytes, p, b)

\* The frames so far, and the one that a line makes unless it is blank.
WithLine(frames, line) ==
  LET frame == FinishLine(line)
  IN  IF frame.kind = "complete" /\ IsBlank(frame.line) THEN frames ELSE Append(frames, frame)

\* What byte p adds: the line that it ends, if it is a newline.
WithByte(bytes, frames, p) ==
  IF bytes[p] # "n" THEN frames
  ELSE WithLine(frames, SubSeq(bytes, LineStart(bytes, p), p - 1))

\* The frames of the lines that a newline among the first p bytes ends, for each p.
FramesBy(bytes) ==
  LET by[p \in 0..Len(bytes)] == IF p = 0 THEN <<>> ELSE WithByte(bytes, by[p - 1], p)
  IN  by

\* The frames of a byte stream, the last one without its newline.
FramesOf(bytes) ==
  WithLine(FramesBy(bytes)[Len(bytes)], SubSeq(bytes, LineStart(bytes, Len(bytes) + 1), Len(bytes)))

\* However the reader's bytes are cut into chunks, the frames taken are the
\* non-blank lines of the stream in order, each whole or, past the bound,
\* refused once; every frame has at most one answer line (stdio.rs, run).
FramingIsFaithful ==
  LET taken == FramesOf(mcp.source)
  IN  /\ Len(mcp.frames) <= Len(taken)
      /\ mcp.frames = SubSeq(taken, 1, Len(mcp.frames))
      /\ mcp.state = "eof" => mcp.frames = taken
      /\ mcp.state # "failed" => Len(mcp.answers) = Len(mcp.frames)

\* An update is dispatched at most once in one process lifetime, in ascending
\* order, and never once its offset was persisted; the offset passes no update
\* that was never looked at (poller.rs, offset ownership and dedup).
UpdatesAreHandledOnce ==
  LET done == {i \in DOMAIN tg.handled :
                 tg.handled[i].class \in {"sent", "unsent", "skipped", "invalid"}}
  IN  /\ \A i, j \in done :
           i < j /\ tg.handled[i].life = tg.handled[j].life => tg.handled[i].id < tg.handled[j].id
      /\ \A i \in done : tg.handled[i].id >= tg.handled[i].saved
      /\ \A n \in 1..Len(TgLog) :
           TgLog[n].id >= 0 /\ TgLog[n].id < tg.offset =>
             \E i \in DOMAIN tg.handled : tg.handled[i].id = TgLog[n].id

\* A trade reaches the backend from a channel only within its capabilities.
RunsAreAuthorized ==
  \A r \in ran : Agent!IsMutating(r.wire.tool) =>
    /\ AgentCaps.trading_enabled
    /\ r.value >= 0 /\ r.value <= AgentCaps.max_trade_usd

\* What a tool's published schema admits, its parser accepts: every document
\* between the required and all properties (schema.rs against parse).
SchemaIsAccepted ==
  \A tool \in ToolNames :
    LET s == ToolSchema(tool)
    IN  \A opt \in SUBSET (s.properties \ s.required) :
          Agent!CommandWireError(WellFormed(tool, s.required \cup opt)) = "none"

\* The agent channels' promises together.
ChannelsKeepTheirPromises ==
  FramingIsFaithful /\ UpdatesAreHandledOnce /\ RunsAreAuthorized /\ SchemaIsAccepted
=============================================================================
