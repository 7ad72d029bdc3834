------------------------------- MODULE BuildPlan -------------------------------
(***************************************************************************)
(* What a Dockerfile means to `build`: the plan made before anything is    *)
(* pulled (plan_stages), the walk of the instructions that makes one stage *)
(* after another (helpers/build_engine/engine.py, handlers.py), the        *)
(* triggers of a base image, the recipe a RUN is cached under and what the *)
(* step really reads (run_step.py), and the matrix of platforms            *)
(* (solve.py).                                                             *)
(*                                                                         *)
(* A build is a function of a request `r`: the parsed instructions, the    *)
(* platforms, the values of the command line and of the host, the images   *)
(* that can be pulled and the named contexts.  A tree is the sequence of   *)
(* its layers, and a layer what it was made from.                          *)
(***************************************************************************)
EXTENDS RunMounts, TLC

(* A text is a sequence of pieces: a word, or a variable with what may stand in for it. *)
(* A value, what a text expands to, is a sequence of words; <<>> is the empty string.   *)
Piece(var, op, alt) == [var |-> var, op |-> op, alt |-> alt]
Word(w)  == <<Piece("", "", w)>>
Var(v)   == <<Piece(v, "", "")>>
NoText   == <<Piece("", "none", "")>>       \* a flag or default that is not given
Nothing  == <<>>

Lookup(scope, v) == IF v \in DOMAIN scope THEN scope[v] ELSE Nothing

\* expand_vars()
ExpandPiece(p, scope) ==
    LET value == Lookup(scope, p.var)
        set   == p.var \in DOMAIN scope
    IN  CASE p.var = ""  -> <<p.alt>>
          [] p.op = ":-" -> IF value # Nothing THEN value ELSE <<p.alt>>
          [] p.op = "-"  -> IF set THEN value ELSE <<p.alt>>
          [] p.op = ":+" -> IF value # Nothing THEN <<p.alt>> ELSE Nothing
          [] p.op = "+"  -> IF set THEN <<p.alt>> ELSE Nothing
          [] OTHER       -> value
Expand(text, scope) == FlattenSeq([i \in DOMAIN text |-> ExpandPiece(text[i], scope)])

\* An instruction, and the names of those that write one key of the config and no more.
Instruction(name) ==
    [name |-> name, raw |-> name, text |-> <<>>, pairs |-> <<>>, as |-> <<>>,
     platform |-> NoText, from |-> <<>>, inner |-> <<>>, exec |-> FALSE, mounts |-> <<>>,
     changes |-> TRUE]
Pair(key, text) == [key |-> key, text |-> text, value |-> Nothing]
Metadata == {"EXPOSE", "HEALTHCHECK", "LABEL", "MAINTAINER", "STOPSIGNAL", "VOLUME"}
Handled  == {"ADD", "ARG", "CMD", "COPY", "ENTRYPOINT", "ENV", "RUN", "SHELL", "USER", "WORKDIR"} \union Metadata
ExpandsVars == {"ADD", "ARG", "ENV", "EXPOSE", "FROM", "LABEL", "STOPSIGNAL", "USER", "VOLUME", "WORKDIR", "COPY"}

NeedsChroot(instr) ==
    instr.name = "RUN" \/ (instr.name = "ONBUILD" /\ instr.inner[1].name = "RUN")
LoaderVars == {"LD_PRELOAD"}                \* is_host_exec_var()
Predefined == {"HTTP_PROXY"}

-----------------------------------------------------------------------------
(* The plan. *)

PlatformArgs(target, build) ==
    ("TARGETARCH" :> target) @@ ("BUILDARCH" :> build)
FromScope(globals, r) == globals @@ PlatformArgs(r.target, r.build)
IndexName(n) == <<ToString(n)>>

\* One name of an ARG before the first FROM.
GlobalArg(r, globals, pair) ==
    IF pair.key \in DOMAIN r.args THEN (pair.key :> r.args[pair.key]) @@ globals
    ELSE IF pair.text # NoText THEN (pair.key :> Expand(pair.text, FromScope(globals, r))) @@ globals
    ELSE globals

\* _from_parts() and _from_platform()
BaseRef(r, globals, instr)   == Expand(instr.text, FromScope(globals, r))
StageName(r, globals, instr) == Expand(instr.as, FromScope(globals, r))
FromPlatform(r, globals, instr) ==
    IF instr.platform = NoText THEN r.target ELSE Expand(instr.platform, FromScope(globals, r))

NoPlan == [failed |-> FALSE, plans |-> <<>>, byName |-> <<>>, globals |-> <<>>, seenFrom |-> FALSE]
PlanFrom(r, p, instr) ==
    LET base     == BaseRef(r, p.globals, instr)
        asked    == FromPlatform(r, p.globals, instr)
        platform == IF base \in DOMAIN p.byName THEN p.byName[base] ELSE asked
        name     == StageName(r, p.globals, instr)
        index    == IndexName(Len(p.plans)) :> platform
    IN  IF base = Nothing \/ asked \notin r.platforms THEN [p EXCEPT !.failed = TRUE, !.seenFrom = TRUE]
        ELSE [p EXCEPT !.seenFrom = TRUE,
                       !.plans = Append(@, [name |-> name, platform |-> platform, runs |-> FALSE]),
                       !.byName = IF name = Nothing THEN index @@ @ ELSE (name :> platform) @@ index @@ @]
PlanStep(r, p, instr) ==
    IF p.failed THEN p
    ELSE IF instr.name = "FROM" THEN PlanFrom(r, p, instr)
    ELSE IF instr.platform # NoText THEN [p EXCEPT !.failed = TRUE]
    ELSE IF instr.name = "ARG" /\ ~p.seenFrom
         THEN [p EXCEPT !.globals = FoldLeft(LAMBDA g, pair : GlobalArg(r, g, pair), @, instr.pairs)]
    ELSE IF instr.name # "ARG" /\ p.plans # <<>> /\ NeedsChroot(instr)
         THEN [p EXCEPT !.plans[Len(p.plans)].runs = TRUE]
    ELSE p

\* plan_stages()
PlanStages(r) == FoldLeft(LAMBDA p, instr : PlanStep(r, p, instr), NoPlan, r.instructions)

\* _prescan(): a --target has to be the name of a stage.
Prescanned(r, p) ==
    ~p.failed /\ (r.stage # Nothing => \E i \in DOMAIN p.plans : p.plans[i].name = r.stage)

\* What `build` asks an emulator for before it takes a lock: _foreign_platforms().
NeedsEmulation(r, platform) == platform # r.build
ForeignRuns(r, plans) ==
    {plans[i].platform : i \in {j \in DOMAIN plans : NeedsEmulation(r, plans[j].platform) /\ plans[j].runs}}

-----------------------------------------------------------------------------
(* Stages. *)

\* A config: Env, Labels and the like as functions, and a value that is not set as <<>>.
NoConfig == [env |-> <<>>, user |-> Nothing, workdir |-> Nothing, shell |-> <<>>, cmd |-> <<>>,
             entrypoint |-> <<>>, meta |-> <<>>, onbuild |-> <<>>, history |-> <<>>]
NewStage(name, platform) ==
    [name |-> name, platform |-> platform, cfg |-> NoConfig, layers |-> <<>>, base |-> Nothing,
     env |-> <<>>, args |-> <<>>, user |-> Nothing, workdir |-> <<"/">>, shell |-> <<"/bin/sh", "-c">>]

NoEngine(p) == [failed |-> FALSE, stop |-> FALSE, firing |-> FALSE, stages |-> <<>>, names |-> <<>>,
                globals |-> p.globals, plans |-> p.plans, recipes |-> {}]
Failed(e)  == [e EXCEPT !.failed = TRUE]
Current(e) == e.stages[Len(e.stages)]
Change(e, st) == [e EXCEPT !.stages[Len(e.stages)] = st]

\* expansion_scope(): ENV over ARG over what the host has set.
HostScope(r) ==
    LET given == {k \in Predefined \intersect DOMAIN r.hostEnv : r.hostEnv[k] # Nothing}
    IN  [k \in given |-> r.hostEnv[k]]
ExpansionScope(r, st) == st.env @@ st.args @@ HostScope(r)

\* _expanded(): RUN has its flags expanded, and CMD and its like nothing.
Expanded(r, st, instr) ==
    LET scope == ExpansionScope(r, st)
        open  == instr.name \in ExpandsVars
        pairAt(i) == [instr.pairs[i] EXCEPT !.value = Expand(instr.pairs[i].text, scope)]
    IN  [instr EXCEPT !.text  = IF open THEN Expand(@, scope) ELSE @,
                      !.pairs = IF open THEN [i \in DOMAIN @ |-> pairAt(i)] ELSE @,
                      !.from  = IF open \/ instr.name = "RUN" THEN Expand(@, scope) ELSE @]

\* _record_history(): one entry for an instruction, empty unless it has made a layer.
Recorded(e, layersBefore, raw) ==
    LET st == Current(e)
        entry == [by |-> raw, empty |-> Len(st.layers) = layersBefore]
    IN  Change(e, [st EXCEPT !.cfg.history = Append(@, entry)])

\* A layer is what went into it: two with the same content have the same digest, whatever tree
\* they were packed from.
Stacked(st, made) == [st EXCEPT !.layers = Append(@, made)]

\* do_arg(), for one name: the whole line is expanded before the first of them is set.
ArgValue(r, e, pair) ==
    LET k == pair.key IN
    CASE k \in DOMAIN r.args    -> r.args[k]
      [] k \notin DOMAIN r.args /\ pair.text # NoText -> pair.value
      [] OTHER -> Lookup(e.globals @@ PlatformArgs(r.target, r.build) @@
                            [x \in Predefined \intersect DOMAIN r.hostEnv |-> r.hostEnv[x]], k)
DoArg(r, e, instr) ==
    LET declare(args, pair) == (pair.key :> ArgValue(r, e, pair)) @@ args
    IN  IF instr.pairs = <<>> THEN Failed(e)
        ELSE Change(e, [Current(e) EXCEPT !.args = FoldLeft(declare, @, instr.pairs)])

\* do_env(): a trigger of the base image may not aim the loader.
DoEnv(e, instr) ==
    LET kept == SelectSeq(instr.pairs, LAMBDA pair : ~(e.firing /\ pair.key \in LoaderVars))
        set(env, pair) == (pair.key :> pair.value) @@ env
        st   == Current(e)
    IN  Change(e, [st EXCEPT !.env = FoldLeft(set, @, kept), !.cfg.env = FoldLeft(set, @, kept)])

\* do_workdir(): a layer for the directories that were not there.
DoWorkdir(e, instr) ==
    LET st == [Current(e) EXCEPT !.workdir = instr.text, !.cfg.workdir = instr.text]
    IN  IF instr.text = Nothing THEN Failed(e)
        ELSE Change(e, IF instr.changes THEN Stacked(st, <<"WORKDIR", instr.text, st.user>>) ELSE st)

\* --from: a stage, then a named context, then an image.
Source(r, e, from) ==
    CASE from = Nothing            -> <<"context", r.tree>>
      [] from \in DOMAIN e.names   -> <<"stage", e.stages[e.names[from]].layers>>
      [] from \in DOMAIN r.contexts -> <<"named", r.contexts[from]>>
      [] OTHER                     -> <<"image", from>>
DoCopy(r, e, instr) ==
    LET source == Source(r, e, instr.from) IN
    IF source[1] = "image" /\ source[2] \notin DOMAIN r.images THEN Failed(e)
    ELSE IF ~instr.changes THEN e
    ELSE Change(e, Stacked(Current(e), <<instr.raw, source>>))

-----------------------------------------------------------------------------
(* RUN. *)

\* What a step reads: the tree, the command through the shell of the stage, who runs it, where
\* and with which variables, what its binds show, and on what kind of machine.
ChildEnv(r, st) ==
    LET own(f) == [k \in DOMAIN f \ LoaderVars |-> f[k]] IN own(st.env) @@ own(st.args) @@ HostScope(r)
LastLayer(st) == IF st.layers = <<>> THEN Nothing ELSE st.layers[Len(st.layers)]
MountInputs(r, e, instr) ==
    LET stageOf == [n \in DOMAIN e.names |-> LastLayer(e.stages[e.names[n]])]
    IN  CacheInputs(instr.mounts, DOMAIN e.names, stageOf, r.tree)
ExecMode(r, st) == IF NeedsEmulation(r, st.platform) THEN "emulated" ELSE "native"
StepInputs(r, e, instr) ==
    LET st == Current(e) IN
    [tree |-> st.layers, command |-> <<instr.raw, instr.exec>>, env |-> ChildEnv(r, st),
     user |-> st.user, workdir |-> st.workdir, shell |-> IF instr.exec THEN <<>> ELSE st.shell,
     binds |-> MountInputs(r, e, instr), on |-> <<st.platform, ExecMode(r, st), r.isolation>>]

\* compute_recipe_hash() over _run_extra_inputs().
Recipe(r, e, instr) ==
    LET st == Current(e) IN
    [parent |-> LastLayer(st), command |-> <<instr.raw, instr.exec>>,
     platforms |-> <<st.platform, r.target, r.build>>, base |-> st.base, exec |-> ExecMode(r, st),
     isolation |-> r.isolation, binds |-> MountInputs(r, e, instr), env |-> ExpansionScope(r, st)]

\* do_run(), built or served from the cache: a layer either way, an empty one if need be.
DoRun(r, e, instr) ==
    LET st == Current(e)
        step == Change(e, Stacked(st, <<instr.raw, StepInputs(r, e, instr)>>))
    IN  IF ~(\A i \in DOMAIN instr.mounts : Complete(instr.mounts[i])) THEN Failed(e)
        ELSE IF NeedsEmulation(r, st.platform) /\ st.platform \notin r.emulated THEN Failed(e)
        ELSE [step EXCEPT !.recipes = @ \union {<<Recipe(r, e, instr), StepInputs(r, e, instr)>>}]

-----------------------------------------------------------------------------
(* The walk. *)

\* do_user(), do_shell(), do_cmd(), do_entrypoint() (which resets CMD) and the plain ones.
DoConfig(e, instr) ==
    LET st == Current(e) IN
    CASE instr.name = "USER"  -> Change(e, [st EXCEPT !.user = instr.text, !.cfg.user = instr.text])
      [] instr.name = "SHELL" -> IF ~instr.exec THEN Failed(e)
                                 ELSE Change(e, [st EXCEPT !.shell = <<instr.raw>>, !.cfg.shell = <<instr.raw>>])
      [] instr.name = "CMD"   -> Change(e, [st EXCEPT !.cfg.cmd = <<instr.raw, instr.exec, st.shell>>])
      [] instr.name = "ENTRYPOINT" ->
            Change(e, [st EXCEPT !.cfg.entrypoint = <<instr.raw, instr.exec, st.shell>>, !.cfg.cmd = <<>>])
      [] OTHER -> Change(e, [st EXCEPT !.cfg.meta = (instr.name :> instr.raw) @@ @])

Handle(r, e, instr) ==
    CASE instr.name = "ARG"     -> DoArg(r, e, instr)
      [] instr.name = "ENV"     -> DoEnv(e, instr)
      [] instr.name = "WORKDIR" -> DoWorkdir(e, instr)
      [] instr.name \in {"ADD", "COPY"} -> DoCopy(r, e, instr)
      [] instr.name = "RUN"     -> DoRun(r, e, instr)
      [] OTHER                  -> DoConfig(e, instr)

\* _run_with_history()
RunWithHistory(r, e, instr) ==
    LET before == Len(Current(e).layers)
        after  == IF instr.name \in Handled THEN Handle(r, e, Expanded(r, Current(e), instr)) ELSE Failed(e)
    IN  IF after.failed THEN after ELSE Recorded(after, before, instr.raw)

\* do_onbuild()
RecordTrigger(e, instr) ==
    Recorded(Change(e, [Current(e) EXCEPT !.cfg.onbuild = @ \o instr.inner]),
             Len(Current(e).layers), instr.raw)

\* _adopt_image_config(): a config of the wrong shape is refused, its loader variables dropped.
Adopted(image) ==
    [image.cfg EXCEPT !.env = [k \in DOMAIN @ \ LoaderVars |-> @[k]]]

\* What a FROM starts from: scratch, an earlier stage, a named context that is a directory, or
\* an image, also one a context names.
Based(r, e, base, st) ==
    LET named == IF base \in DOMAIN r.contexts THEN r.contexts[base] ELSE base
        failed == [ok |-> FALSE, stage |-> st]
        as(stage) == [ok |-> TRUE, stage |-> stage]
    IN  CASE base = <<"scratch">> -> as(st)
          [] base # <<"scratch">> /\ base \in DOMAIN e.names ->
               LET parent == e.stages[e.names[base]]
               IN  as([st EXCEPT !.cfg = parent.cfg, !.layers = parent.layers, !.base = parent.base])
          [] OTHER ->
               IF named \in r.directories
               THEN as([Stacked(st, <<"COPY", named>>) EXCEPT !.cfg.history = <<[by |-> "COPY", empty |-> FALSE]>>])
               ELSE IF named \notin DOMAIN r.images \/ ~r.images[named].sound THEN failed
               ELSE as([st EXCEPT !.cfg = Adopted(r.images[named]), !.base = named,
                                  !.layers = r.images[named].layers])

\* The scopes a stage takes over from its config; its ARGs start unset.
Seeded(st) ==
    [st EXCEPT !.env = st.cfg.env,
               !.user = st.cfg.user,
               !.workdir = IF st.cfg.workdir = Nothing THEN @ ELSE st.cfg.workdir,
               !.shell = IF st.cfg.shell = <<>> THEN @ ELSE st.cfg.shell]

\* _fire_base_onbuild(): the triggers are dropped before the first of them runs.
FireTriggers(r, e) ==
    LET triggers == Current(e).cfg.onbuild
        armed    == [Change(e, [Current(e) EXCEPT !.cfg.onbuild = <<>>]) EXCEPT !.firing = TRUE]
        fire(x, t) == IF x.failed THEN x ELSE RunWithHistory(r, x, t)
    IN  [FoldLeft(fire, armed, triggers) EXCEPT !.firing = FALSE]

\* _do_from(): the FROM after the wanted stage ends the build.
DoFrom(r, e, instr) ==
    LET base  == BaseRef(r, e.globals, instr)
        name  == StageName(r, e.globals, instr)
        index == Len(e.stages)
        made  == Based(r, e, base, NewStage(name, e.plans[index + 1].platform))
        at    == IndexName(index) :> (index + 1)
        known == [e EXCEPT !.stages = Append(@, Seeded(made.stage)),
                           !.names = at @@ (IF name = Nothing THEN @ ELSE (name :> (index + 1)) @@ @)]
    IN  IF r.stage # Nothing /\ e.stages # <<>> /\ Current(e).name = r.stage THEN [e EXCEPT !.stop = TRUE]
        ELSE IF ~made.ok THEN Failed(e)
        ELSE FireTriggers(r, known)

\* _dispatch()
Dispatch(r, e, instr) ==
    IF e.failed \/ e.stop THEN e
    ELSE IF instr.name = "FROM" THEN DoFrom(r, e, instr)
    ELSE IF e.stages = <<>> THEN IF instr.name = "ARG" THEN e ELSE Failed(e)
    ELSE IF instr.name = "ONBUILD" THEN RecordTrigger(e, instr)
    ELSE RunWithHistory(r, e, instr)

\* BuildEngine.run()
Engine(r) ==
    LET p == PlanStages(r)
        e == NoEngine(p)
    IN  IF ~Prescanned(r, p) THEN Failed(e)
        ELSE LET done == FoldLeft(LAMBDA x, instr : Dispatch(r, x, instr), e, r.instructions)
             IN  IF done.failed \/ done.stages = <<>> THEN Failed(done) ELSE done

\* The stage that is built: _target().
Target(r, e) == IF r.stage = Nothing THEN Current(e) ELSE e.stages[e.names[r.stage]]

-----------------------------------------------------------------------------
(* The matrix. *)

\* solve_platforms(): one solve for each platform, in the order they are first named; all or none.
Distinct(seq) == SelectSeq([i \in DOMAIN seq |-> i], LAMBDA i : \A j \in 1..(i - 1) : seq[j] # seq[i])
SolvePlatforms(r, platforms) ==
    LET order == Distinct(platforms)
        engine(i) == Engine([r EXCEPT !.target = platforms[order[i]]])
    IN  IF order = <<>> \/ \E i \in DOMAIN order : engine(i).failed THEN <<>>
        ELSE [i \in DOMAIN order |->
                [platform |-> platforms[order[i]],
                 image |-> Target(r, engine(i))]]

\* The locks of a build, by tag and platform, in the order of their paths.
BuildLocks(tags, platforms) ==
    SetToSortSeq(tags \X platforms, LAMBDA a, b : a[1] < b[1] \/ (a[1] = b[1] /\ a[2] < b[2]))
=============================================================================
