------------------------------- MODULE Library -------------------------------
(***************************************************************************)
(* The bookmarks and the history of the Account Spaces, and what a Chrome  *)
(* profile brings in (electron/bookmark-tree.ts, chrome-importer.ts and    *)
(* their commands in main.ts).  A folder exists while a bookmark carries   *)
(* its name; the place of an entry among its siblings at depth d is        *)
(* orderPath[d], or order where the path is too short.                     *)
(***************************************************************************)
EXTENDS Spaces, FiniteSetsExt

Seqs == INSTANCE SequencesExt

CONSTANTS
  PageUrls,      \* web pages
  OtherUrls,     \* addresses that are not of the web
  Titles,        \* titles after trimming
  FolderNames,
  Nodes,         \* nodes of bookmark trees: [name, url, children]
  Profiles,      \* the Chrome profiles the user may import: [roots, visits]
  MaxItems,      \* 25,000 bookmarks
  MaxDepth,      \* MAX_BOOKMARK_DEPTH
  MaxImported,   \* 10,000 history entries
  MaxVisits,     \* 2,500, the history a navigation keeps
  MaxClock       \* bound on the commands of a behaviour

VARIABLES bookmarks, history, reader, clock

libraryVars == <<bookmarks, history, reader, clock>>

Locations == {"bar", "other"}

Bookmark == [id : 1..(MaxItems + 1), title : Titles, url : PageUrls, space : AccountSpaces,
             location : Locations, folderPath : Seq(FolderNames), order : Nat,
             orderPath : Seq(Nat)]

(* A node of a Chrome profile is [name, url, children]; the url of a folder *)
(* is "".  Only the names of folders become names of folders.              *)
Root == [root : {"bookmark_bar", "other", "synced"}, name : FolderNames, children : Seq(Nodes)]

ASSUME NodesAssumption ==
  /\ \A v \in Nodes : /\ v.children \in Seq(Nodes)
                      /\ v.url \in PageUrls => v.name \in Titles
                      /\ v.url \notin PageUrls \cup OtherUrls => v.name \in FolderNames \cup {""}
  /\ \A p \in Profiles : p.roots \in Seq(Root)

ASSUME BoundsAssumption == MaxItems \in Nat /\ MaxDepth \in Nat

HistoryEntry == [space : AccountSpaces, url : PageUrls, visitedAt : 0..MaxClock]

LibraryTypeOK ==
  /\ bookmarks \in Seq(Bookmark) /\ Len(bookmarks) <= MaxItems + 1
  /\ history \in Seq(HistoryEntry)
  /\ reader \in AccountSpaces
  /\ clock \in 0..MaxClock

LibraryInit ==
  /\ bookmarks = << >> /\ history = << >>
  /\ reader \in AccountSpaces
  /\ clock = 1

-----------------------------------------------------------------------------
(* The tree that the list of bookmarks stands for.                         *)

\* The elements of a finite set in order, given which ones come before each.
Ordered(S, before) ==
  [n \in 1..Cardinality(S) |-> CHOOSE x \in S : Cardinality(before[x]) = n - 1]

\* The elements of a sequence at some of its places.
Among(s, places) ==
  LET at == Ordered(places, [i \in places |-> {j \in places : j < i}])
  IN [n \in DOMAIN at |-> s[at[n]]]

bookmarkOrder(item, depth) ==
  IF depth < Len(item.orderPath) THEN item.orderPath[depth + 1] ELSE item.order

\* A bug: a folder is named by the last of its path.
KeyByLast(item, path) ==
  IF item.folderPath = path THEN [id |-> item.id, name |-> ""]
  ELSE [id |-> 0, name |-> Seqs!Last(item.folderPath)]

\* The key of the entry under which a bookmark stands at a level above it.
KeyAt(item, path) ==
  IF item.folderPath = path THEN [id |-> item.id, name |-> ""]
  ELSE [id |-> 0, name |-> item.folderPath[Len(path) + 1]]

Earlier(a, b) ==
  \/ a[1] < b[1]
  \/ a[1] = b[1] /\ a[2] < b[2]
  \/ a[1] = b[1] /\ a[2] = b[2] /\ a[3] < b[3]

inPath(item, path) == Seqs!IsPrefix(path, item.folderPath)

\* The direct children at one level in display order; ties keep bookmarks before
\* folders and each kind in the order of the list.
bookmarkEntries(items, path) ==
  LET within == {i \in DOMAIN items : inPath(items[i], path)}
      keys == {KeyAt(items[i], path) : i \in within}
      members(k) == {i \in within : KeyAt(items[i], path) = k}
      rank == [k \in keys |->
                 <<Min({bookmarkOrder(items[i], Len(path)) : i \in members(k)}),
                   IF k.id = 0 THEN 1 ELSE 0, Min(members(k))>>]
  IN Ordered(keys, [k \in keys |-> {j \in keys : Earlier(rank[j], rank[k])}])

ScopedTo(items, s, l) ==
  Among(items, {i \in DOMAIN items : items[i].space = s /\ items[i].location = l})

\* What the user sees at a level.
Shown(items, s, level) == bookmarkEntries(ScopedTo(items, s, level.location), level.path)

LevelsOf(items) ==
  UNION {{[location |-> items[i].location, path |-> SubSeq(items[i].folderPath, 1, d)] :
            d \in 0..Len(items[i].folderPath)} : i \in DOMAIN items}

inFolder(item, s, level, name) ==
  /\ item.space = s /\ item.location = level.location
  /\ inPath(item, Append(level.path, name))

withOrderAt(item, depth, order) ==
  LET held == item.orderPath
      padded == held \o [n \in 1..(depth - Len(held)) |->
                           IF n = 1 /\ held = << >> THEN item.order ELSE 0]
  IN [item EXCEPT !.orderPath = IF Len(padded) > depth
                                  THEN [padded EXCEPT ![depth + 1] = order]
                                  ELSE Append(padded, order),
                  !.order = IF depth = 0 THEN order ELSE @]

\* The other entries of a level.
OtherEntries(entries, key) == Among(entries, {n \in DOMAIN entries : entries[n] # key})

Clamped(n, low, high) == Max({low, Min({n, high})})

\* A bug: what the siblings' folders hold keeps its numbers.
ReorderDirect(items, s, level, key, toIndex) ==
  LET rest == OtherEntries(Shown(items, s, level), key)
      arranged == Seqs!InsertAt(rest, Clamped(toIndex, 0, Len(rest)) + 1, key)
      place(item) == CHOOSE n \in DOMAIN arranged : arranged[n] = KeyAt(item, level.path)
  IN [i \in DOMAIN items |->
        IF /\ items[i].space = s /\ items[i].location = level.location
           /\ \/ items[i].folderPath = level.path
              \/ inPath(items[i], level.path) /\ KeyAt(items[i], level.path) = key
          THEN withOrderAt(items[i], Len(level.path), place(items[i]) - 1)
          ELSE items[i]]

\* Every sibling takes the number of its place, and with a folder all it holds.
reorder(items, s, level, key, toIndex) ==
  LET rest == OtherEntries(Shown(items, s, level), key)
      arranged == Seqs!InsertAt(rest, Clamped(toIndex, 0, Len(rest)) + 1, key)
      place(item) == CHOOSE n \in DOMAIN arranged : arranged[n] = KeyAt(item, level.path)
  IN [i \in DOMAIN items |->
        IF /\ items[i].space = s /\ items[i].location = level.location
           /\ inPath(items[i], level.path)
          THEN withOrderAt(items[i], Len(level.path), place(items[i]) - 1)
          ELSE items[i]]

-----------------------------------------------------------------------------
(* The commands, all within the active Account Space.                      *)

FreshId(items) ==
  CHOOSE n \in 1..(MaxItems + 1) : \A i \in DOMAIN items : items[i].id # n

\* toggleBookmark(): the page of the tab in front; the new one goes to the end of the bar
Toggle(url, title) ==
  LET mine == {i \in DOMAIN bookmarks : bookmarks[i].url = url /\ bookmarks[i].space = reader}
      order == Len(ScopedTo(bookmarks, reader, "bar"))
  IN /\ IF mine # {}
          THEN bookmarks' = Among(bookmarks, DOMAIN bookmarks \ {Min(mine)})
          ELSE /\ Len(bookmarks) <= MaxItems
               /\ bookmarks' =
                    <<[id |-> FreshId(bookmarks), title |-> title, url |-> url,
                       space |-> reader, location |-> "bar", folderPath |-> << >>,
                       order |-> order, orderPath |-> <<order>>]>> \o bookmarks
     /\ UNCHANGED <<history, reader>>

moveBookmark(level, key, toIndex) ==
  /\ key \in Seqs!ToSet(Shown(bookmarks, reader, level))
  /\ bookmarks' = reorder(bookmarks, reader, level, key, toIndex)
  /\ UNCHANGED <<history, reader>>

renameBookmark(i, title) ==
  /\ bookmarks[i].space = reader
  /\ bookmarks' = [bookmarks EXCEPT ![i].title = title]
  /\ UNCHANGED <<history, reader>>

removeBookmark(i) ==
  /\ bookmarks[i].space = reader
  /\ bookmarks' = Among(bookmarks, DOMAIN bookmarks \ {i})
  /\ UNCHANGED <<history, reader>>

renameBookmarkFolder(level, name, next) ==
  /\ next # name
  /\ \E i \in DOMAIN bookmarks : inFolder(bookmarks[i], reader, level, name)
  /\ ~\E i \in DOMAIN bookmarks : inFolder(bookmarks[i], reader, level, next)
  /\ bookmarks' = [i \in DOMAIN bookmarks |->
                     IF inFolder(bookmarks[i], reader, level, name)
                       THEN [bookmarks[i] EXCEPT !.folderPath[Len(level.path) + 1] = next]
                       ELSE bookmarks[i]]
  /\ UNCHANGED <<history, reader>>

removeBookmarkFolder(level, name) ==
  /\ \E i \in DOMAIN bookmarks : inFolder(bookmarks[i], reader, level, name)
  /\ bookmarks' = Among(bookmarks, {i \in DOMAIN bookmarks :
                                     ~inFolder(bookmarks[i], reader, level, name)})
  /\ UNCHANGED <<history, reader>>

\* The lines of the exported file, as the bookmarks they name.
exportLevel(items) ==
  LET level[path \in Seq(FolderNames)] ==
        LET entries == bookmarkEntries(items, path)
        IN Seqs!FlattenSeq([n \in DOMAIN entries |->
             IF entries[n].id # 0 THEN <<entries[n].id>>
             ELSE level[Append(path, entries[n].name)]])
  IN level[<< >>]

Located(items, l) == Among(items, {i \in DOMAIN items : items[i].location = l})

exportBookmarksHtml(items) ==
  exportLevel(Located(items, "bar")) \o exportLevel(Located(items, "other"))

-----------------------------------------------------------------------------
(* A Chrome profile.  Only a web page becomes a bookmark, and none too     *)
(* deep.                                                                   *)

visitNode(s, location) ==
  LET visit[v \in Nodes \X Seq(FolderNames) \X (Seq(Nat) \ {<< >>})] ==
        LET node == v[1]  folderPath == v[2]  orderPath == v[3]
            nextPath == IF node.name = "" THEN folderPath ELSE Append(folderPath, node.name)
        IN IF Len(orderPath) > MaxDepth \/ node.url \in OtherUrls THEN << >>
           ELSE IF node.url \in PageUrls
             THEN <<[title |-> node.name, url |-> node.url, space |-> s, location |-> location,
                     folderPath |-> folderPath, order |-> Seqs!Last(orderPath), orderPath |-> orderPath]>>
             ELSE Seqs!FlattenSeq([n \in DOMAIN node.children |->
                    visit[<<node.children[n], nextPath, Append(orderPath, n - 1)>>]])
  IN visit

\* The bookmark bar and the other bookmarks are roots; any further root (the phone's
\* bookmarks) becomes a folder of the other bookmarks.
parseRoot(root, s) ==
  LET visit == visitNode(s, IF root.root = "bookmark_bar" THEN "bar" ELSE "other")
      path == IF root.root = "synced" THEN <<root.name>> ELSE << >>
  IN Seqs!FlattenSeq([n \in DOMAIN root.children |-> visit[<<root.children[n], path, <<n - 1>>>>]])

parseChromeBookmarks(roots, s) ==
  LET found == Seqs!FlattenSeq([r \in DOMAIN roots |-> parseRoot(roots[r], s)])
  IN SubSeq(found, 1, Min({Len(found), MaxItems}))

ImportKey(b) == <<b.space, b.location, b.folderPath, b.title, b.url>>

AddBookmark(items, found) ==
  IF Len(items) >= MaxItems \/ \E i \in DOMAIN items : ImportKey(items[i]) = ImportKey(found)
    THEN items
    ELSE Append(items, [id |-> FreshId(items), title |-> found.title, url |-> found.url,
                        space |-> found.space, location |-> found.location,
                        folderPath |-> found.folderPath, order |-> found.order,
                        orderPath |-> found.orderPath])

Added(items, found) ==
  LET added[n \in 0..Len(found)] ==
        IF n = 0 THEN items ELSE AddBookmark(added[n - 1], found[n])
  IN added[Len(found)]

AddVisit(visits, v) ==
  IF Len(visits) >= MaxImported \/ v \in Seqs!ToSet(visits) THEN visits ELSE Append(visits, v)

\* Newest first; entries of one moment keep their order.
Sorted(visits) ==
  LET later(i, j) == \/ visits[i].visitedAt > visits[j].visitedAt
                     \/ visits[i].visitedAt = visits[j].visitedAt /\ i < j
      by == Seqs!SetToSortSeq(DOMAIN visits, later)
  IN [n \in DOMAIN visits |-> visits[by[n]]]

\* The files of the profile are read one by one: one that is missing, or that Chrome
\* holds locked, yields nothing and the other is still read.
readBookmarks(profile, s, readable) ==
  IF "Bookmarks" \in readable THEN parseChromeBookmarks(profile.roots, s) ELSE << >>

readHistory(profile, s, readable) ==
  LET pages == SelectSeq(profile.visits, LAMBDA v : v.url \in PageUrls)
  IN IF "History" \notin readable THEN << >>
       ELSE [n \in DOMAIN pages |-> [space |-> s, url |-> pages[n].url,
                                     visitedAt |-> pages[n].visitedAt]]

readChromeProfile(profile, s, chosen, readable) ==
  [bookmarks |-> readBookmarks(profile, s, chosen \cap readable),
   history |-> readHistory(profile, s, chosen \cap readable)]

\* importChrome(): into an Account Space of the user's choice, not the active one only
importChrome(profile, s, chosen, readable) ==
  LET data == readChromeProfile(profile, s, chosen, readable)
  IN /\ chosen # {}
     /\ bookmarks' = Added(bookmarks, data.bookmarks)
     /\ history' = Sorted(Seqs!FoldLeft(AddVisit, history, data.history))
     /\ UNCHANGED reader

\* commitNavigation() of a tab outside Banking
addHistory(url) ==
  LET visits == <<[space |-> reader, url |-> url, visitedAt |-> clock + 1]>> \o history
  IN /\ history' = SubSeq(visits, 1, Min({Len(visits), MaxVisits}))
     /\ UNCHANGED <<bookmarks, reader>>

\* clearAccountSpaceData() removes the history and leaves the bookmarks
clearHistory(s) ==
  /\ \E n \in DOMAIN history : history[n].space = s
  /\ history' = SelectSeq(history, LAMBDA v : v.space # s)
  /\ UNCHANGED <<bookmarks, reader>>

switchReader(s) ==
  /\ s # reader /\ reader' = s
  /\ UNCHANGED <<bookmarks, history>>

(* Time passes with every command.                                         *)
LibraryNext ==
  /\ clock < MaxClock /\ clock' = clock + 1
  /\ \/ \E url \in PageUrls, title \in Titles : Toggle(url, title)
     \/ \E level \in LevelsOf(bookmarks), n \in 0..MaxItems :
          \E key \in Seqs!ToSet(Shown(bookmarks, reader, level)) : moveBookmark(level, key, n)
     \/ \E i \in DOMAIN bookmarks, title \in Titles : renameBookmark(i, title)
     \/ \E i \in DOMAIN bookmarks : removeBookmark(i)
     \/ \E level \in LevelsOf(bookmarks), name, next \in FolderNames :
          renameBookmarkFolder(level, name, next)
     \/ \E level \in LevelsOf(bookmarks), name \in FolderNames : removeBookmarkFolder(level, name)
     \/ \E p \in Profiles, s \in AccountSpaces, chosen \in SUBSET {"Bookmarks", "History"} :
          \E readable \in SUBSET chosen : importChrome(p, s, chosen, readable)
     \/ \E url \in PageUrls : addHistory(url)
     \/ \E s \in AccountSpaces : clearHistory(s)
     \/ \E s \in AccountSpaces : switchReader(s)

LibrarySpec == LibraryInit /\ [][LibraryNext]_libraryVars

-----------------------------------------------------------------------------
(* Moving an entry puts it where it was dropped, leaves its siblings in    *)
(* their order and changes the display order of no other level, in no      *)
(* Account Space (reorderBookmarkEntry).  Levels below the folder of a     *)
(* further Chrome root are left out: their order paths are one number      *)
(* short, and moving the folder overwrites the number that orders what it  *)
(* holds.                                                                  *)
InFullPaths(items, level) ==
  \A i \in DOMAIN items :
    items[i].location = level.location /\ inPath(items[i], level.path)
      => Len(items[i].orderPath) > Len(items[i].folderPath)

MovesOneEntry ==
  [][\A level \in LevelsOf(bookmarks), n \in 0..MaxItems :
       \A key \in Seqs!ToSet(Shown(bookmarks, reader, level)) :
         moveBookmark(level, key, n) =>
           LET rest == OtherEntries(Shown(bookmarks, reader, level), key) IN
           /\ Shown(bookmarks', reader, level) =
                Seqs!InsertAt(rest, Min({n, Len(rest)}) + 1, key)
           /\ \A s \in AccountSpaces, m \in LevelsOf(bookmarks) :
                (<<s, m>> # <<reader, level>> /\ InFullPaths(bookmarks, m)) =>
                  Shown(bookmarks', s, m) = Shown(bookmarks, s, m)]_libraryVars

(* Whatever was moved, renamed, removed or imported, the exported file     *)
(* names every bookmark of an Account Space once and nothing else          *)
(* (exportBookmarksHtml).                                                  *)
ExportsEachOnce ==
  \A s \in AccountSpaces :
    LET mine == Among(bookmarks, {i \in DOMAIN bookmarks : bookmarks[i].space = s})
        file == exportBookmarksHtml(mine)
    IN /\ Len(file) = Len(mine)
       /\ Seqs!ToSet(file) = {mine[i].id : i \in DOMAIN mine}
=============================================================================
