------------------------------- MODULE JsonSplice -------------------------------
(***************************************************************************)
(* The splices of one member into a JSON file whose other bytes stay:       *)
(* module-toggle (update/module-toggle/index.py) keeps the list             *)
(* harmonia.disabled_modules of config.json, reseed                         *)
(* (lib/source_map/index.py) the member sources of profile.json.  A text is *)
(* a sequence of tokens, and a command works on tokens; beside it stands    *)
(* the document that the text has to be, member by member.  Commands come   *)
(* one after the other (UpdateDesk has those that overlap).                 *)
(***************************************************************************)
EXTENDS Naturals, SequencesExt, FiniteSetsExt

CONSTANTS Module,       \* the modules of the profile
          Source        \* the source maps that reseed admits

VARIABLES target,       \* which of the two files this is
          text,         \* its tokens
          doc           \* its members, as <<name, value>>

spliceVars == <<target, text, doc>>

Open == <<"{">>
Close == <<"}">>
Colon == <<":">>
Comma == <<",">>
Space == <<"blank", " ">>
Newline == <<"blank", "\n">>
Key(name) == <<"key", name>>
Blank(s) == \A i \in DOMAIN s : s[i][1] = "blank"

-----------------------------------------------------------------------------
(* The text of a document, laid out in some way.  A list counts as one token. *)

Layout == [open : {<<>>, <<Space>>, <<Newline>>}, comma : {<<>>, <<Space>>, <<Newline>>},
           close : {<<>>, <<Newline>>}]
Compact == [open |-> <<>>, comma |-> <<>>, close |-> <<>>]

ObjectText(members, layout, ValueText(_)) ==
    <<Open>> \o layout.open
    \o FlattenSeq([i \in DOMAIN members |->
           (IF i = 1 THEN <<>> ELSE <<Comma>> \o layout.comma)
           \o <<Key(members[i][1]), Colon>> \o ValueText(members[i][2])])
    \o layout.close \o <<Close>>

TextOf(members, layout) ==
    ObjectText(members, layout, LAMBDA v :
        IF v[1] = "object" THEN ObjectText(v[2], layout, LAMBDA w : <<w>>) ELSE <<v>>)

\* A member of another name may hold an object with the very name looked for.
Scalar == <<"scalar", "x">>
Inner == BoundedSeq({"disabled_modules"} \X {Scalar, <<"list", <<>>>>, <<"list", [i \in 1 .. 2 |->
             CHOOSE m \in Module : TRUE]>>} \cup {<<"rest", Scalar>>}, 2)
Config == BoundedSeq({"harmonia"} \X ({Scalar} \cup {<<"object", ms>> : ms \in Inner})
              \cup {"rest"} \X {Scalar, <<"object", <<<<"harmonia", Scalar>>>>>>}, 2)
Profile == BoundedSeq({<<"schema", Scalar>>} \cup {"sources", "rest"}
               \X {Scalar, <<"object", <<<<"sources", Scalar>>>>>>}, 3)

SpliceInit ==
    /\ target \in {"config", "profile"}
    /\ doc \in IF target = "config" THEN Config ELSE Profile
    /\ \E layout \in Layout : text = TextOf(doc, layout)

-----------------------------------------------------------------------------
(* The scanners.                                                            *)

Refusal == <<>>
Root(s) == SelectInSeq(s, LAMBDA token : token = Open)
Count(s, token, i) == Cardinality({j \in 1 .. i : s[j] = token})
Depth(s, i) == Count(s, Open, i) - Count(s, Close, i)

\* The closing brace of the object that begins at a token.
EndOf(s, start) == Min({i \in start + 1 .. Len(s) : s[i] = Close /\ Depth(s, i) = Depth(s, start) - 1})

\* The direct members of that object, each with the span of its value.
Members(s, start) ==
    {LET from == Min({j \in i + 1 .. Len(s) : s[j][1] # "blank"}) IN
     [name |-> s[Max({j \in 1 .. i : s[j][1] = "key"})][2],
      from |-> from, to |-> IF s[from] = Open THEN EndOf(s, from) ELSE from]
     : i \in {i \in start + 1 .. EndOf(s, start) : s[i] = Colon /\ Depth(s, i) = Depth(s, start)}}

Called(members, name) == {m \in members : m.name = name}
Once(members) == \A m \in members : Cardinality(Called(members, m.name)) = 1

Replaced(s, span, value) == SubSeq(s, 1, span.from - 1) \o value \o SubSeq(s, span.to + 1, Len(s))

\* Mutant: the member is set off by a comma whatever stands before it.
InsertMemberAfterComma(s, start, name, value) ==
    LET end == EndOf(s, start) IN
    SubSeq(s, 1, end - 1) \o <<Comma, Newline, Key(name), Colon, Space>> \o value
        \o SubSeq(s, end, Len(s))

\* A new last member, set off by what the object has between its braces.
InsertMember(s, start, name, value) ==
    LET end == EndOf(s, start)
        interior == SubSeq(s, start + 1, end - 1)
        member == <<Key(name), Colon, Space>> \o value
        insertion == IF Blank(interior) THEN <<Newline>> \o member \o <<Newline>>
                     ELSE <<Comma, IF Newline \in ToSet(interior) THEN Newline ELSE Space>> \o member
    IN SubSeq(s, 1, end - 1) \o insertion \o SubSeq(s, end, Len(s))

-----------------------------------------------------------------------------
(* module-toggle.                                                           *)

Dedupe(modules) ==
    SelectSeq([i \in DOMAIN modules |-> <<i, modules[i]>>],
              LAMBDA p : \A j \in 1 .. p[1] - 1 : modules[j] # p[2])

Names(pairs) == [i \in DOMAIN pairs |-> pairs[i][2]]

\* The list with a module put in or taken out.
NewList(modules, module, on) ==
    IF on THEN SelectSeq(Names(Dedupe(modules)), LAMBDA m : m # module)
    ELSE Names(Dedupe(Append(modules, module)))

\* _updated_bytes: duplicate members, a harmonia that is no object and a list that
\* is none refuse.
UpdatedBytes(s, module, on) ==
    LET members == Members(s, Root(s))
        harmonia == Called(members, "harmonia")
        start == Min({h.from : h \in harmonia})
        nested == Members(s, start)
        list == Called(nested, "disabled_modules")
        new(old) == <<"list", NewList(old, module, on)>>
    IN  IF ~Once(members) THEN Refusal
        ELSE IF harmonia = {} THEN
            InsertMember(s, Root(s), "harmonia",
                <<Open, Newline, Key("disabled_modules"), Colon, Space, new(<<>>), Newline, Close>>)
        ELSE IF s[start] # Open THEN Refusal
        ELSE IF ~Once(nested) THEN Refusal
        ELSE IF list = {} THEN InsertMember(s, start, "disabled_modules", <<new(<<>>)>>)
        ELSE LET span == CHOOSE d \in list : TRUE IN
             IF s[span.from][1] # "list" THEN Refusal
             ELSE Replaced(s, span, <<new(s[span.from][2])>>)

-----------------------------------------------------------------------------
(* reseed.                                                                  *)

\* _source_span and splice_sources: of duplicates only those of sources refuse.
SpliceSources(s, sources) ==
    LET members == Members(s, Root(s))
        found == Called(members, "sources")
    IN  IF Called(members, "schema") = {} \/ Cardinality(found) > 1 THEN Refusal
        ELSE IF found = {} THEN InsertMember(s, Root(s), "sources", <<sources>>)
        ELSE Replaced(s, CHOOSE m \in found : TRUE, <<sources>>)

-----------------------------------------------------------------------------
(* What the document has to be afterwards.                                   *)

Has(members, name) == \E i \in DOMAIN members : members[i][1] = name
Value(members, name) == members[SelectInSeq(members, LAMBDA m : m[1] = name)][2]
Distinct(members) == IsInjective([i \in DOMAIN members |-> members[i][1]])
Put(members, name, value) ==
    IF Has(members, name)
    THEN [i \in DOMAIN members |-> IF members[i][1] = name THEN <<name, value>> ELSE members[i]]
    ELSE Append(members, <<name, value>>)

\* The object that the file holds as harmonia, if it holds none an empty one.
Harmonia == IF Has(doc, "harmonia") THEN Value(doc, "harmonia") ELSE <<"object", <<>>>>
Disabled == IF Has(Harmonia[2], "disabled_modules") THEN Value(Harmonia[2], "disabled_modules")
            ELSE <<"list", <<>>>>
Sound == /\ Distinct(doc) /\ Harmonia[1] = "object"
         /\ Distinct(Harmonia[2]) /\ Disabled[1] = "list"

Written(new) == text' = IF new = Refusal THEN text ELSE new

Toggle(module, on) ==
    /\ target = "config" /\ UNCHANGED target
    /\ Written(UpdatedBytes(text, module, on))
    /\ doc' = IF ~Sound THEN doc
              ELSE Put(doc, "harmonia", <<"object",
                       Put(Harmonia[2], "disabled_modules",
                           <<"list", NewList(Disabled[2], module, on)>>)>>)

Reseed(sources) ==
    /\ target = "profile" /\ UNCHANGED target
    /\ Written(SpliceSources(text, sources))
    /\ doc' = IF Has(doc, "schema") /\ Len(SelectSeq(doc, LAMBDA m : m[1] = "sources")) <= 1
              THEN Put(doc, "sources", sources) ELSE doc

SpliceNext ==
    \/ \E module \in Module, on \in BOOLEAN : Toggle(module, on)
    \/ \E sources \in {<<"map", s>> : s \in Source} : Reseed(sources)

SpliceSpec == SpliceInit /\ [][SpliceNext]_spliceVars

-----------------------------------------------------------------------------
\* After any number of splices the file is JSON and the document it has to be:
\* the member spliced has the value asked for, every other member is there with
\* its own, in the order it had, and a refusal changes nothing; whatever the
\* layout, where the member is missing, its object empty or blank, or its name
\* borne by a member further down.
SplicedAsAsked ==
    SelectSeq(text, LAMBDA token : token[1] # "blank") = TextOf(doc, Compact)
=============================================================================
