------------------------------ MODULE MCBuildPlan ------------------------------
(* BuildPlan over every Dockerfile of a few short instructions.               *)
EXTENDS BuildPlan, MCRunMounts

From(base)        == [Instruction("FROM") EXCEPT !.text = Word(base)]
FromAs(base, as)  == [From(base) EXCEPT !.as = Word(as)]
OnBuild(inner)    == [Instruction("ONBUILD") EXCEPT !.inner = <<inner>>, !.changes = FALSE]
Set(name, k, text) == [Instruction(name) EXCEPT !.pairs = <<Pair(k, text)>>]
Of(name, value)   == [Instruction(name) EXCEPT !.text = Word(value), !.raw = name \o value]
Copy(from)        == [Instruction("COPY") EXCEPT !.from = from]

Run == Instruction("RUN")
Bodies ==
    {Run, Copy(<<>>), Copy(Word("0")), Set("ENV", "A", Var("B")), Set("ARG", "B", NoText),
     Set("ARG", "B", Word("two")), Set("ENV", "LD_PRELOAD", Word("own")), OnBuild(Run),
     OnBuild(Set("ENV", "LD_PRELOAD", Word("theirs"))), Of("USER", "build"), Of("WORKDIR", "/w"),
     Instruction("CMD"), Instruction("ENTRYPOINT"), Instruction("LABEL")}
UpTo(n) == UNION {[1..k -> Bodies] : k \in 0..n}

Base == [NoConfig EXCEPT !.env = ("PATH" :> <<"bin">>), !.history = <<[by |-> "base", empty |-> FALSE]>>]
Trapped == [Base EXCEPT !.onbuild = <<Run, Set("ENV", "LD_PRELOAD", Word("theirs")), Run>>,
                        !.env = ("LD_PRELOAD" :> <<"theirs">>)]
Image(cfg) == [cfg |-> cfg, layers |-> <<<<"base">>>>, sound |-> TRUE]
Ask ==
    [instructions |-> <<>>, target |-> <<"arm">>, build |-> <<"amd">>, platforms |-> {<<"arm">>, <<"amd">>},
     emulated |-> {<<"arm">>}, args |-> <<>>, stage |-> Nothing, hostEnv |-> ("HTTP_PROXY" :> <<"p">>),
     images |-> (<<"img">> :> Image(Base)) @@ (<<"trap">> :> Image(Trapped)),
     contexts |-> (<<"ctx">> :> <<"dir">>), directories |-> {<<"dir">>}, isolation |-> "none",
     tree |-> [p \in {<<"tree">>} |-> "one"]]
Dockerfile(instructions) == [Ask EXCEPT !.instructions = instructions]

\* Two stages: the second on the first, on the image with triggers or on a named context.
Global == Set("ARG", "B", Word("one"))
Programs ==
    {<<Global, From("img")>> \o b : b \in UpTo(2)}
      \union {<<FromAs("img", "one")>> \o b \o <<From(second)>> \o c :
                 b, c \in UpTo(1), second \in {"one", "0", "trap", "ctx", "scratch"}}
      \union {<<FromAs("trap", "one")>> \o b \o <<FromAs("one", "two")>> \o c \o <<From("0")>> : b, c \in UpTo(1)}
Outcome(r) == [program |-> r.instructions, end |-> Engine(r)]
Builds == {Outcome(Dockerfile(p)) : p \in Programs}
Made(b) == {b.end.stages[i] : i \in DOMAIN b.end.stages}

\* What the history counts as layers is what there is, in every stage, also one that starts from
\* another or whose base has triggers.
Layered(history) == SelectSeq(history, LAMBDA entry : ~entry.empty)
ASSUME HistoryCountsLayers ==
    \A b \in Builds : \A st \in Made(b) : Len(Layered(st.cfg.history)) = Len(st.layers)

\* Triggers fire in the stage built on what recorded them and are then gone: a stage carries the
\* triggers of its own lines and of no others.
FromsOf(b) == SelectSeq([n \in DOMAIN b.program |-> n], LAMBDA n : b.program[n].name = "FROM")
Lines(b, i) ==
    LET end == IF i = Len(FromsOf(b)) THEN Len(b.program) ELSE FromsOf(b)[i + 1] - 1
    IN  SubSeq(b.program, FromsOf(b)[i] + 1, end)
OwnTriggers(b, i) == FlattenSeq([n \in DOMAIN Lines(b, i) |-> Lines(b, i)[n].inner])
ASSUME TriggersFireOnce ==
    \A b \in Builds : \A i \in DOMAIN b.end.stages :
        b.end.stages[i].cfg.onbuild = OwnTriggers(b, i)
ASSUME TriggersMakeLayers ==
    \A p \in UpTo(1) : Len(Current(Engine(Dockerfile(<<From("trap")>> \o p))).layers) =
                        2 + Len(Current(Engine(Dockerfile(<<From("img")>> \o p))).layers)

\* A variable for the loader that an image or a trigger sets is in no stage, and none reaches a
\* step whoever sets it; what the author writes is kept.
ASSUME LoaderIsTheAuthors ==
    \A b \in Builds : \A st \in Made(b) :
        /\ Lookup(st.env, "LD_PRELOAD") \in {Nothing, <<"own">>}
        /\ Lookup(st.cfg.env, "LD_PRELOAD") = Lookup(st.env, "LD_PRELOAD")
        /\ DOMAIN ChildEnv(Ask, st) \intersect LoaderVars = {}

\* What ENV sets is what the config says, and every stage is named by its number.
ASSUME EnvIsRecorded == \A b \in Builds : \A st \in Made(b) : st.env = st.cfg.env
ASSUME NumbersName ==
    \A b \in Builds : \A i \in DOMAIN b.end.stages : b.end.names[IndexName(i - 1)] = i

\* Where an ARG gets its value: the command line, its default, a global of that name, the
\* platform, the host, in this order; and an ENV hides it.
ArgRequests ==
    {[Dockerfile((IF g = NoText THEN <<>> ELSE <<Set("ARG", k, g)>>) \o <<From("img"), Set("ARG", k, d)>>)
        EXCEPT !.args = a] :
        g, d \in {NoText, Word("one"), <<>>}, k \in {"B", "TARGETARCH", "HTTP_PROXY"},
        a \in {<<>>, "B" :> <<"given">>, "TARGETARCH" :> <<"given">>}}
FirstOf(options) == CHOOSE v \in SelectSeq(options, LAMBDA o : o # {})[1] : TRUE
Maybe(f, k) == IF k \in DOMAIN f THEN {f[k]} ELSE {}
ASSUME ArgPrecedence == \A r \in ArgRequests :
    LET k == Last(r.instructions).pairs[1].key
        text(t) == IF t = NoText THEN {} ELSE {Expand(t, <<>>)}
        global == IF Len(r.instructions) = 2 THEN {} ELSE text(r.instructions[1].pairs[1].text)
    IN  Current(Engine(r)).args[k] =
            FirstOf(<<Maybe(r.args, k), text(Last(r.instructions).pairs[1].text), global,
                      Maybe(PlatformArgs(r.target, r.build), k), Maybe(HostScope(r), k), {Nothing}>>)
ASSUME GlobalsAreHidden ==
    LET used == <<Global, From("img"), Set("ENV", "A", Var("B"))>>
        told == <<Global, From("img"), Set("ARG", "B", NoText), Set("ENV", "A", Var("B"))>>
        env(p) == Current(Engine(Dockerfile(p))).env
    IN  env(used)["A"] = Nothing /\ env(told)["A"] = <<"one">>

\* Before the first FROM every default of a line is read with those before it, in a stage the
\* whole line is read first: the same line means two things.
OneLine == [Instruction("ARG") EXCEPT !.pairs = <<Pair("A", Word("one")), Pair("B", Var("A"))>>]
ASSUME SameLineArg ==
    LET inStage == Engine(Dockerfile(<<From("img"), OneLine>>))
        before  == Engine(Dockerfile(<<OneLine, From("img")>>))
    IN  before.globals["B"] = <<"one">> /\ Current(inStage).args["B"] = Nothing

-----------------------------------------------------------------------------
(* Platforms. *)

PlatformFlags == {NoText, Word("amd"), Var("BUILDARCH"), Var("TARGETARCH")}
CrossFiles ==
    {<<[FromAs("img", "one") EXCEPT !.platform = f]>> \o b \o
     <<[FromAs(second, "two") EXCEPT !.platform = g]>> \o c :
        f, g \in PlatformFlags, second \in {"one", "0", "img", "scratch"},
        b, c \in {<<>>, <<Run>>, <<Of("USER", "build")>>}}
Crossed == {Dockerfile(p) : p \in CrossFiles} \union {[Dockerfile(p) EXCEPT !.emulated = {}] : p \in CrossFiles}

\* A stage on another is built for what that one is built for, whatever its flag says, and
\* `build` asks beforehand for the emulators its RUNs need: a build whose emulators are there
\* does not fail at a RUN, and one is not asked for where none is needed.
ASSUME StageInheritsPlatform ==
    \A f, g \in PlatformFlags, second \in {"one", "0", "img", "scratch"} :
        LET first == [FromAs("img", "one") EXCEPT !.platform = f]
            next  == [From(second) EXCEPT !.platform = g]
            e     == Engine(Dockerfile(<<first, next>>))
            alone == Engine(Dockerfile(<<next>>))
        IN  e.stages[2].platform = IF second \in {"one", "0"} THEN e.stages[1].platform
                                   ELSE alone.stages[1].platform
ASSUME EmulatorsForeseen == \A r \in Crossed :
    Engine(r).failed <=> ~(ForeignRuns(r, PlanStages(r).plans) \subseteq r.emulated)

\* Not so with triggers: the RUN of a base image is not foreseen, and one that is only recorded
\* asks for an emulator that nothing uses.
ASSUME TriggersNotForeseen ==
    LET fired    == [Dockerfile(<<From("trap")>>) EXCEPT !.emulated = {}]
        recorded == [Dockerfile(<<From("img"), OnBuild(Run)>>) EXCEPT !.emulated = {}]
    IN  /\ ForeignRuns(fired, PlanStages(fired).plans) = {} /\ Engine(fired).failed
        /\ ForeignRuns(recorded, PlanStages(recorded).plans) # {} /\ ~Engine(recorded).failed

\* A stage may be named scratch.  FROM scratch then starts from nothing, for the platform of
\* that stage.
ASSUME ScratchTakesThePlatform ==
    LET e == Engine(Dockerfile(<<[FromAs("img", "scratch") EXCEPT !.platform = Word("amd")], From("scratch")>>))
    IN  e.stages[2].layers = <<>> /\ e.stages[2].platform = <<"amd">>

\* --target: what follows the stage is planned and not built, and the image is the same.
ASSUME TargetEndsTheBuild == \A p \in CrossFiles :
    LET r == [Dockerfile(p) EXCEPT !.stage = <<"one">>]
        e == Engine(r)
    IN  /\ Len(e.stages) = 1
        /\ Target(r, e) = Engine(Dockerfile(p)).stages[1]

\* Several platforms make one image each, in the order they are first named, or none at all.
Orders == {<<<<"arm">>, <<"amd">>, <<"arm">>>>, <<<<"amd">>>>, <<>>}
ASSUME AllPlatformsOrNone == \A p \in CrossFiles, asked \in Orders :
    LET r == [Dockerfile(p) EXCEPT !.emulated = {}]
        images == SolvePlatforms(r, asked)
        alone(q) == Engine([r EXCEPT !.target = q])
    IN  /\ (images = <<>>) <=> (asked = <<>> \/ \E i \in DOMAIN asked : alone(asked[i]).failed)
        /\ \A i \in DOMAIN images : images[i].image = Current(alone(images[i].platform))
        /\ images # <<>> => Len(images) = Cardinality(ToSet(asked))

\* Builds that take their locks in the order of the paths cannot wait for each other in a ring.
ASSUME BuildsDoNotBlock == \A s, t \in SUBSET (1..2), q, w \in SUBSET (1..2) :
    ~EachWaits(BuildLocks(s, q), BuildLocks(t, w))

-----------------------------------------------------------------------------
(* The recipe of a RUN. *)

\* Steps of one recipe are given the same layer from the cache.
StepsOf(files) == UNION {Engine(r).recipes : r \in files}
OneResult(steps, Reads(_)) ==
    Cardinality({s[1] : s \in steps}) = Cardinality({<<s[1], Reads(s[2])>> : s \in steps})

\* A file whose steps all run, and every value of what is not in its text.
Steps == {Run, [Run EXCEPT !.raw = "RUN other"], Set("ENV", "A", Word("one")), Set("ENV", "A", Word("two")),
          Set("ARG", "A", Word("one")), Set("ENV", "LD_PRELOAD", Word("own"))}
StepFiles ==
    {[Dockerfile(<<[From("img") EXCEPT !.platform = f], a, b, Run>>) EXCEPT !.isolation = i] :
        f \in {NoText, Var("BUILDARCH")}, a, b \in Steps, i \in {"none", "max"}}
ASSUME RecipeTellsSteps == LET all(s) == s IN OneResult(StepsOf(StepFiles), all)

\* The user, the directory and the shell of the step are not in the recipe: the same line after
\* another USER, another WORKDIR that is there, or another SHELL is the same step to the cache.
RestOf(s) == <<s.tree, s.command, s.env, s.binds, s.on>>
Settings == {Of("USER", "build"), [Of("WORKDIR", "/w") EXCEPT !.changes = FALSE],
             [Of("SHELL", "bash") EXCEPT !.exec = TRUE]}
SettingFiles == {Dockerfile(<<From("img"), a, b, Run>>) : a \in Settings \union {Instruction("LABEL")}, b \in Settings}
ASSUME RecipeForgetsUser ==
    /\ OneResult(StepsOf(SettingFiles), RestOf)
    /\ \A a, b \in Settings \union {Instruction("LABEL")} :
         Engine(Dockerfile(<<From("img"), a, Run>>)).failed = FALSE
           /\ {s[1] : s \in StepsOf({Dockerfile(<<From("img"), a, Run>>)})}
                = {s[1] : s \in StepsOf({Dockerfile(<<From("img"), b, Run>>)})}

\* Nor is the tree, only its last layer, and a layer is named by its content: after a COPY of
\* the same files a step is taken from the cache although a line above that COPY has changed.
Unchanged == [Copy(<<>>) EXCEPT !.raw = "COPY same"]
ASSUME RecipeForgetsTree ==
    LET last(first) == CHOOSE s \in StepsOf({Dockerfile(<<From("img"), first, Unchanged, Run>>)}) :
                            Len(s[2].tree) = 3
        other       == [Run EXCEPT !.raw = "RUN other"]
        third       == [Run EXCEPT !.raw = "RUN third"]
    IN  last(other)[1] = last(third)[1] /\ last(other)[2].tree # last(third)[2].tree
=============================================================================
