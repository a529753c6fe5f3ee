----------------------------- MODULE ReleaseName -----------------------------
(***************************************************************************)
(* Whether a release is the one asked for, read from its name              *)
(* (ranking/ranking.go: the checks of title, year and episode that come    *)
(* first in ScoreWithPreferences; workflow/service.go: the tokens looked   *)
(* for before it, in a manual search and in a search for a season pack).   *)
(*                                                                         *)
(* A name is the words of its show, perhaps a year, perhaps a mark of the  *)
(* season and the episode, and a tag.  The code looks for tokens as        *)
(* substrings of the name, so what is modelled is which marks contain      *)
(* which token: s01e101 contains s01e10, 11x02 contains 1x02, "season 10"  *)
(* contains "season 1".                                                    *)
(***************************************************************************)
EXTENDS Integers, Sequences, FiniteSets

CONSTANTS
  Shows,      \* sequences of words a name may start with
  Years,      \* words that are a year, with the number they are
  Marks,      \* [kind, season, episode]; kinds: none, ep, x, pack, word, range
  Asks        \* title, alternates, media, year, season, episode, episodeYear, trusted

VARIABLES name, ask, verdict

vars == <<name, ask, verdict>>

Tags == {"none", "1080p", "complete"}
Names == [show : Shows, year : DOMAIN Years \cup {"none"}, mark : Marks, tag : Tags]
Verdicts == {"unread", "wrong_title", "wrong_year", "wrong_episode", "wrong_season", "accepted", "shown", "dropped"}

TypeOK == name \in Names /\ ask \in Asks /\ verdict \in Verdicts

Articles == {"the", "a", "an"}
IsYear(word) == word \in DOMAIN Years
AllYears(words) == {i \in DOMAIN words : IsYear(words[i])}

-----------------------------------------------------------------------------
(* The words of a name, and of a title. *)

\* normalizeText and Fields: the mark and the tag are words that end the title.
Words(n) ==
  n.show \o (IF n.year = "none" THEN <<>> ELSE <<n.year>>)
         \o (IF n.mark.kind = "none" THEN <<>> ELSE <<"mark">>)
         \o (IF n.tag = "none" THEN <<>> ELSE <<n.tag>>)

\* releaseBoundaryToken
Boundary(word) == IsYear(word) \/ word \in {"mark", "1080p", "complete"}

\* A lone s goes to the word before it: a word, and how many went to it.
mergeApostropheSTokens(words) ==
  LET kept == SelectSeq([i \in DOMAIN words |-> i], LAMBDA i : i = 1 \/ words[i] # "s")
  IN [k \in DOMAIN kept |->
        <<words[kept[k]], (IF k = Len(kept) THEN Len(words) ELSE kept[k + 1] - 1) - kept[k]>>]

isLeadingArticle(word) == word[1] \in Articles /\ word[2] = 0

\* What follows a match is not looked at.
M_titlesWordMatch(cWords, rWords) ==
  rWords = <<>> \/ (Len(rWords) <= Len(cWords) /\ SubSeq(cWords, 1, Len(rWords)) = rWords)

\* At the start, or after one word that is an article or precedes three or more; what
\* follows has to end the title.
titlesWordMatch(cWords, rWords) ==
  \/ rWords = <<>>
  \/ \E offset \in {0, 1} :
       /\ offset + Len(rWords) <= Len(cWords)
       /\ offset > 0 => Len(rWords) >= 3 \/ isLeadingArticle(cWords[1])
       /\ SubSeq(cWords, offset + 1, offset + Len(rWords)) = rWords
       /\ LET next == offset + Len(rWords) + 1
          IN next > Len(cWords) \/ Boundary(cWords[next][1])

\* Both as they are, then either or both without the article they start with.
containsNormalized(words, required) ==
  LET c == mergeApostropheSTokens(words)
      r == mergeApostropheSTokens(required)
      bare(w) == {w} \cup (IF w # <<>> /\ isLeadingArticle(Head(w)) THEN {Tail(w)} ELSE {})
  IN \E cw \in bare(c), rw \in bare(r) : titlesWordMatch(cw, rw)

-----------------------------------------------------------------------------
(* The year. *)

\* A year that starts the name may be its title.
matchYear(words, required) ==
  LET years == AllYears(words)
  IN CASE required = 0 \/ years = {} -> "unknown"
       [] \E i \in years : Years[words[i]] = required -> "exact"
       [] years = {1} -> "unknown"
       [] OTHER -> "mismatch"

\* An episode may also carry the year it was first shown in.
YearOf(words, a) ==
  LET match == matchYear(words, a.year)
  IN IF a.media = "episode" /\ match = "mismatch" /\ a.episodeYear > 0 /\ a.episodeYear # a.year
        /\ matchYear(words, a.episodeYear) = "exact"
     THEN "exact" ELSE match

-----------------------------------------------------------------------------
(* The season and the episode.  An episode has two digits, three from 100 on. *)

\* What %02d of an episode is found in.
StartsEpisode(episode, e) == episode = e \/ (e < 100 /\ episode >= 100 /\ episode \div 10 = e)
\* What %d of a season is found at the end of.
EndsSeason(season, s) == season = s \/ (s < 10 /\ season % 10 = s)
\* What %d of a season is found at the start of.
StartsSeason(season, s) == season = s \/ (season >= 10 /\ season \div 10 = s)

hasExactEpisodeToken(mark, s, e) ==
  \/ mark.kind = "ep" /\ mark.season = s /\ StartsEpisode(mark.episode, e)
  \/ mark.kind = "x" /\ EndsSeason(mark.season, s) /\ StartsEpisode(mark.episode, e)

containsEpisodeToken(mark) == mark.kind \in {"ep", "x"}

\* "season N" or sNN; a range has its second season where a mark has its episode.
HasSeasonToken(mark, s) ==
  \/ mark.kind = "word" /\ StartsSeason(mark.season, s)
  \/ mark.kind \in {"ep", "pack", "range"} /\ mark.season = s
  \/ mark.kind = "range" /\ mark.episode = s

Lesser(a, b) == IF a < b THEN a ELSE b
Greater(a, b) == IF a < b THEN b ELSE a

matchesSeasonRange(mark, s) ==
  mark.kind = "range" /\ s \in Lesser(mark.season, mark.episode) .. Greater(mark.season, mark.episode)

hasOtherBareSeasonToken(mark, s) ==
  \/ mark.kind \in {"pack", "word", "range"} /\ mark.season # s
  \/ mark.kind = "range" /\ mark.episode # s

\* In the tag, or in the name of the show.
PackWord(n) == n.tag = "complete" \/ \E i \in DOMAIN n.show : n.show[i] = "pack"

\* The season of a pack is not compared.
M_matchEpisode(n, s, e) ==
  CASE s = 0 \/ e = 0 -> "unknown"
    [] hasExactEpisodeToken(n.mark, s, e) -> "exact"
    [] HasSeasonToken(n.mark, s) /\ ~ containsEpisodeToken(n.mark) -> "pack"
    [] containsEpisodeToken(n.mark) -> "mismatch"
    [] OTHER -> "unknown"

matchEpisode(n, s, e) ==
  CASE s = 0 \/ e = 0 -> "unknown"
    [] hasExactEpisodeToken(n.mark, s, e) -> "exact"
    [] HasSeasonToken(n.mark, s) /\ (~ containsEpisodeToken(n.mark) \/ PackWord(n)) -> "pack"
    [] containsEpisodeToken(n.mark) -> "mismatch"
    [] matchesSeasonRange(n.mark, s) -> "pack"
    [] hasOtherBareSeasonToken(n.mark, s) -> "wrong_season"
    [] OTHER -> "unknown"

\* An episode of the asked season, in all its digits; or NxMM with another M.
hasWrongEpisodeToken(mark, s, e) ==
  /\ s > 0 /\ e > 0
  /\ \/ mark.kind = "ep" /\ mark.season = s /\ mark.episode # e
     \/ mark.kind = "x" /\ EndsSeason(mark.season, s) /\ mark.episode # e

\* sNN alone or before an episode; the other forms of a season are not looked for.
hasWrongSeasonToken(mark, s) ==
  /\ s > 0
  /\ \/ mark.kind \in {"ep", "pack", "range"} /\ mark.season # s
     \/ mark.kind = "range" /\ mark.episode # s

hasSeasonPackToken(n, s) == s > 0 /\ PackWord(n) /\ HasSeasonToken(n.mark, s)

hasAnyIndividualEpisodeToken(mark) == containsEpisodeToken(mark)

-----------------------------------------------------------------------------
\* reStructuredRelease: what looks like a release is checked even when the indexer was
\* asked by id.
Structured(n) ==
  n.year # "none" \/ n.tag = "1080p" \/ n.mark.kind \in {"ep", "pack", "range"}

TitleMatches(n, a) ==
  (~ a.trusted \/ Structured(n)) => \E t \in {a.title} \cup a.alternates : containsNormalized(Words(n), t)

\* The checks of ScoreWithPreferences that read the name.
Judged(n, a) ==
  LET episode == IF a.media = "episode" THEN matchEpisode(n, a.season, a.episode) ELSE "unknown"
  IN CASE ~ TitleMatches(n, a) -> "wrong_title"
       [] episode = "mismatch" -> "wrong_episode"
       [] episode = "wrong_season" -> "wrong_season"
       [] YearOf(Words(n), a) = "mismatch" -> "wrong_year"
       [] OTHER -> "accepted"

\* buildSearchCandidates looks for the wrong episode before it ranks.
SearchVerdict(n, a) ==
  IF hasWrongEpisodeToken(n.mark, a.season, a.episode) THEN "wrong_episode" ELSE Judged(n, a)

Search ==
  /\ verdict = "unread"
  /\ verdict' = SearchVerdict(name, ask)
  /\ UNCHANGED <<name, ask>>

\* A search for a pack drops what is usable and a single episode.
SearchPack ==
  /\ verdict = "unread" /\ ask.season > 0
  /\ verdict' = LET judged == SearchVerdict(name, ask)
                    kept == \/ judged # "accepted"
                            \/ hasSeasonPackToken(name, ask.season)
                            \/ ~ hasAnyIndividualEpisodeToken(name.mark)
                IN IF kept THEN judged ELSE "dropped"
  /\ UNCHANGED <<name, ask>>

\* A manual search for SxxEyy hides what names another season or another episode of it.
ManualSearch ==
  /\ verdict = "unread" /\ ask.season > 0
  /\ verdict' = IF \/ hasWrongSeasonToken(name.mark, ask.season)
                   \/ hasWrongEpisodeToken(name.mark, ask.season, ask.episode)
                THEN "dropped" ELSE "shown"
  /\ UNCHANGED <<name, ask>>

Init == name \in Names /\ ask \in Asks /\ verdict = "unread"
Next == Search \/ SearchPack \/ ManualSearch
Spec == Init /\ [][Next]_vars

-----------------------------------------------------------------------------
Bare(words) == IF words # <<>> /\ Head(words) \in Articles THEN Tail(words) ELSE words
Joined(words) == mergeApostropheSTokens(words)
\* The seasons and the episodes a mark stands for.
SeasonsOf(mark) ==
  IF mark.kind = "range" THEN Lesser(mark.season, mark.episode) .. Greater(mark.season, mark.episode)
  ELSE {mark.season}

\* The show is one of the asked names, but for an article, or a word before three others.
IsShow(n, a) ==
  \E t \in {a.title} \cup a.alternates :
    \/ Joined(Bare(n.show)) = Joined(Bare(t))
    \/ \E w \in {n.show, Bare(n.show)} :
         Len(w) > 1 /\ Joined(Tail(w)) \in {Joined(t), Joined(Bare(t))} /\ Len(Joined(Tail(w))) >= 3

IsEpisode(n, a) ==
  CASE n.mark.kind = "none" -> TRUE
    [] n.mark.kind \in {"ep", "x"} -> n.mark.season = a.season /\ n.mark.episode = a.episode
    [] OTHER -> a.season \in SeasonsOf(n.mark)

\* 11x02 passes for 1x02 and "season 10" for "season 1": the tokens are looked for without
\* the borders of a word.
Ambiguous(n, a) ==
  \/ n.mark.kind = "x" /\ n.mark.season # a.season /\ EndsSeason(n.mark.season, a.season)
  \/ n.mark.kind = "word" /\ n.mark.season # a.season /\ StartsSeason(n.mark.season, a.season)

IsYearOf(n, a) ==
  n.year = "none" \/ a.year = 0 \/ Years[n.year] \in {a.year} \cup (IF a.media = "episode" THEN {a.episodeYear} ELSE {})

\* A release whose name says what it is is accepted for an item only when that is what the
\* item is: its show and not one whose name starts the same, its episode or a pack of its
\* season, of its year.  The checks overlap, and each alone lets another release through
\* (ranking.go:1140-1190, service.go:4259-4261).
AcceptedIsAsked ==
  verdict = "accepted" =>
    /\ ~ ask.trusted \/ Structured(name) => IsShow(name, ask)
    /\ ask.media = "episode" /\ ask.season > 0 => IsEpisode(name, ask) \/ Ambiguous(name, ask)
    /\ IsYearOf(name, ask)

\* And what is asked for is not turned away: the show by one of its names, the episode or
\* a pack or a range of seasons it is in, of its year or of none (ranking.go:1342-1356).
AskedIsAccepted ==
  verdict \in {"wrong_title", "wrong_year", "wrong_episode", "wrong_season"} =>
    ~ (/\ \E t \in {ask.title} \cup ask.alternates : Joined(Bare(name.show)) = Joined(Bare(t))
       /\ ask.media = "episode" /\ ask.season > 0 => IsEpisode(name, ask)
       /\ IsYearOf(name, ask))
=============================================================================
