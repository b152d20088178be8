-------------------------------- MODULE News --------------------------------
(***************************************************************************)
(* PartsOfNews.allNews, the crawl behind the news screen.  It reads four   *)
(* lists of elements off one page, follows a link from every <article>,    *)
(* downloads an image for each, and then matches summaries, headings,      *)
(* times and images by index.  Every "try!", forced unwrap and index out   *)
(* of range ends the process; an image whose address cannot be encoded is  *)
(* skipped without a trace.                                                *)
(*                                                                         *)
(* The page is external.  Elements are numbered; element n of each list    *)
(* belongs to article n.  The formulas all specifications have are named   *)
(* after the crawl, so that a module can extend this one and another.      *)
(***************************************************************************)
EXTENDS SequencesExt, Integers

CONSTANT MaxElements  \* bound: how many elements of a kind the page has

ASSUME PageAssumption == MaxElements \in Nat \ {0}

Element == 1..MaxElements

VARIABLES
  page,    \* how many elements of each kind the page has
  linked,  \* the articles with a link
  valid,   \* the articles whose image has an address that can be encoded
  pc,      \* "page", "references", "images", "rows", "shown" or "trapped"
  i,       \* the loop index, from 1
  images,  \* the article of every image
  news     \* the rows: the numbers of the elements each is made of

crawlVars == << page, linked, valid, pc, i, images, news >>

Kind == {"summary", "h2", "time", "article"}

CrawlInit ==
  /\ page \in [Kind -> 0..MaxElements]
  /\ linked \in SUBSET Element
  /\ valid \in SUBSET Element
  /\ pc = "page"
  /\ i = 1
  /\ images = << >>
  /\ news = << >>

-----------------------------------------------------------------------------
Continue(next) == i' = 1 /\ pc' = next

Trap == pc' = "trapped" /\ i' = i

\* The page is fetched and parsed, or it is not.
GetPage ==
  /\ pc = "page"
  /\ Continue("references") \/ Trap
  /\ UNCHANGED << page, linked, valid, images, news >>

\* The loop over 0...p.count-1, a range that does not exist when p is empty.
References ==
  /\ pc = "references"
  /\ IF page["article"] = 0 \/ ~ (1 .. page["article"] \subseteq linked)
     THEN Trap
     ELSE Continue("images")
  /\ UNCHANGED << page, linked, valid, images, news >>

\* Mutants of GetImage: the loop runs to p.count; a skipped image is replaced by
\* the one before it.
GetImageOneMore ==
  /\ pc = "images"
  /\ i <= page["article"] + 1 /\ i <= MaxElements
  /\ images' = IF i \in valid THEN Append(images, i) ELSE images
  /\ i' = i + 1
  /\ pc' = pc
  /\ UNCHANGED << page, linked, valid, news >>

GetImageOrLast ==
  /\ pc = "images"
  /\ i <= page["article"]
  /\ images' = Append(images, IF i \in valid \/ images = << >> THEN i ELSE Last(images))
  /\ i' = i + 1
  /\ pc' = pc
  /\ UNCHANGED << page, linked, valid, news >>

\* The image of article i is fetched, skipped, or cannot be fetched.
GetImage ==
  /\ pc = "images"
  /\ i <= page["article"]
  /\ \/ /\ images' = IF i \in valid THEN Append(images, i) ELSE images
        /\ i' = i + 1
        /\ pc' = pc
     \/ Trap /\ UNCHANGED images
  /\ UNCHANGED << page, linked, valid, news >>

EndOfImages ==
  /\ pc = "images"
  /\ i > page["article"]
  /\ IF page["summary"] = 0 THEN Trap ELSE Continue("rows")
  /\ UNCHANGED << page, linked, valid, images, news >>

\* Mutant of AppendRow: a row without an image is left out.
AppendRowWithImage ==
  /\ pc = "rows"
  /\ i <= page["summary"]
  /\ IF i > page["h2"] \/ i > page["time"]
     THEN Trap /\ UNCHANGED news
     ELSE /\ news' = IF i <= Len(images)
                     THEN Append(news, [photo |-> images[i], title |-> i])
                     ELSE news
          /\ i' = i + 1
          /\ pc' = pc
  /\ UNCHANGED << page, linked, valid, images >>

\* Row i, or an index out of range.
AppendRow ==
  /\ pc = "rows"
  /\ i <= page["summary"]
  /\ IF i > page["h2"] \/ i > page["time"] \/ i > Len(images)
     THEN Trap /\ UNCHANGED news
     ELSE /\ news' = Append(news, [photo |-> images[i], title |-> i])
          /\ i' = i + 1
          /\ pc' = pc
  /\ UNCHANGED << page, linked, valid, images >>

Return ==
  /\ pc = "rows"
  /\ i > page["summary"]
  /\ Continue("shown")
  /\ UNCHANGED << page, linked, valid, images, news >>

CrawlNext == GetPage \/ References \/ GetImage \/ EndOfImages \/ AppendRow \/ Return

Crawl == CrawlInit /\ [][CrawlNext]_crawlVars

-----------------------------------------------------------------------------
\* The types of the variables; no row is made of an element that is not there.
CrawlTypeOK ==
  /\ page \in [Kind -> 0..MaxElements]
  /\ linked \in SUBSET Element /\ valid \in SUBSET Element
  /\ pc \in {"page", "references", "images", "rows", "shown", "trapped"}
  /\ i \in 1 .. MaxElements + 1
  /\ images \in Seq(1 .. page["article"])
  /\ news \in Seq([photo : 1 .. page["article"], title : 1 .. page["summary"]])

\* Skipped images shift the ones behind them, yet no row with the image of
\* another article is ever shown as long as the page has no more articles than
\* summaries: the last row then finds no image, and the process ends first.
PhotosInStep ==
  pc = "shown" /\ page["article"] <= page["summary"] =>
    \A n \in DOMAIN news : news[n].photo = news[n].title

\* All summaries of the page are shown, or none.
AllOrNothing == pc = "shown" => Len(news) = page["summary"]
=============================================================================
