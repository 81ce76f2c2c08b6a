----------------------------- MODULE Catalogue -----------------------------
(***************************************************************************)
(* The catalogue's rows and their images (api/views/products.py,           *)
(* categories.py, promos.py, uploads.py, api/storage.py) and the move of   *)
(* the images from a disk to a bucket (migrate_uploads_to_r2).             *)
(*                                                                         *)
(* An image is stored first, then referred to by a row and, from checkout  *)
(* on, by the items of orders; it is removed after the commit of what      *)
(* replaced it, outside any transaction.  A product is locked while it is  *)
(* edited and only what was sent is written; a category or a banner is     *)
(* read without a lock and written whole.  Any form may be old, and any    *)
(* address is taken: that of an upload nobody shows yet, of an image       *)
(* another row has, of one removed long ago, or of none.                   *)
(* Products are filed under a category by its name only, so a rename takes *)
(* them along.                                                             *)
(***************************************************************************)
EXTENDS Naturals, FiniteSets

CONSTANTS
  Products, Categories, Promos,
  Names,       \* spellings of names of categories
  Fold,        \* the name without its case
  Images,      \* file names; the random part makes every upload's its own
  NoImage,     \* no address, or one on another host
  MaxOpen      \* bound: requests in flight

(* What is saved whole. *)
Tiles == Categories \cup Promos
Rows == Products \cup Tiles

ASSUME CatalogueConstants ==
  /\ DOMAIN Fold = Names
  /\ NoImage \notin Rows \cup Images
  /\ Products \cap Tiles = {} /\ Categories \cap Promos = {}
  /\ MaxOpen \in Nat

VARIABLES
  rows,        \* the rows there are
  image,       \* `image_url` of each row
  name,        \* of each category
  label,       \* `category` of each product
  items,       \* the order items: of which product, with which image
  disk, bucket,        \* the images stored
  backend,     \* UPLOAD_BACKEND
  open,        \* requests after their read, or with a file still to remove
  migration,   \* a run of migrate_uploads_to_r2
  drafts,      \* history: uploads that no row has had yet
  used,        \* history: the images some row has had
  reused,      \* history: those given to a row that were no fresh upload
  removed      \* history: images that were removed

catalogueVars == <<rows, image, name, label, items, disk, bucket, backend, open,
          migration, drafts, used, reused, removed>>
stores == <<disk, bucket, backend, migration>>
history == <<drafts, used, reused, removed>>

Image == Images \cup {NoImage}

Requests ==
       [op : {"put"}, row : Tiles, image : Image, name : Names,
        old_image : Image, old_name : Names]
  \cup [op : {"delete"}, row : Rows, old_image : Image]
  \cup [op : {"unlink"}, old_image : Images]

(* History: the backend when it began, and the images that rows were given *)
(* since. *)
Migrations == [running : BOOLEAN, names : SUBSET Images,
               on : {"local", "r2"}, late : SUBSET Images]
NoMigration == [running |-> FALSE, names |-> {}, on |-> "local", late |-> {}]

CatalogueTypeOK ==
  /\ rows \subseteq Rows
  /\ image \in [Rows -> Image]
  /\ name \in [Categories -> Names]
  /\ label \in [Products -> Names]
  /\ items \subseteq Products \X Images
  /\ disk \subseteq Images /\ bucket \subseteq Images
  /\ backend \in {"local", "r2"}
  /\ open \subseteq Requests
  /\ migration \in Migrations
  /\ drafts \subseteq Images /\ used \subseteq Images
  /\ reused \subseteq Images /\ removed \subseteq Images

CatalogueInit ==
  /\ rows = Rows
  /\ image = [r \in Rows |-> NoImage]
  /\ name \in [Categories -> Names]
  /\ \A c, d \in Categories : name[c] = name[d] => c = d
  /\ label \in [Products -> Names]
  /\ items = {} /\ disk = {} /\ bucket = {}
  /\ backend = "local"
  /\ open = {}
  /\ migration = NoMigration
  /\ drafts = {} /\ used = {} /\ reused = {} /\ removed = {}

-----------------------------------------------------------------------------
(* The store. *)

save(i) ==
  IF backend = "r2" THEN bucket' = bucket \cup {i} /\ UNCHANGED disk
                    ELSE disk' = disk \cup {i} /\ UNCHANGED bucket

(* Only an upload under a new name changes anything: what is no image is   *)
(* refused and a store that fails is a 502. *)
Upload(i) ==
  /\ i \notin drafts \cup used
  /\ save(i)
  /\ drafts' = drafts \cup {i}
  /\ UNCHANGED <<rows, image, name, label, items, backend, open, migration, used, reused, removed>>

Room == Cardinality(open) < MaxOpen

(* `storage.delete(old)`, still to come. *)
Unlink(old) == IF old = NoImage THEN {} ELSE {[op |-> "unlink", old_image |-> old]}

Close(q, more) == q \in open /\ open' = (open \ {q}) \cup more

delete(q) ==
  /\ Close(q, {}) /\ q.op = "unlink"
  /\ IF backend = "r2" THEN bucket' = bucket \ {q.old_image} /\ UNCHANGED disk
                       ELSE disk' = disk \ {q.old_image} /\ UNCHANGED bucket
  /\ removed' = removed \cup {q.old_image}
  /\ UNCHANGED <<rows, image, name, label, items, backend, migration, drafts, used, reused>>

(* The store does not answer, or the worker dies, or a check failed.       *)
GiveUp(q) == Close(q, {}) /\ UNCHANGED <<rows, image, name, label, items, stores, history>>

-----------------------------------------------------------------------------
(* A row is given the image of a form.  It is given anew if the row does   *)
(* not show it now; that is what a fresh upload is for.                    *)
Anew(r, i) == i # NoImage /\ (r \notin rows \/ image[r] # i)

Give(r, i) ==
  /\ image' = [image EXCEPT ![r] = i]
  /\ drafts' = drafts \ {i}
  /\ used' = used \cup ({i} \ {NoImage})
  /\ reused' = reused \cup {x \in {i} : Anew(r, i) /\ i \notin drafts}
  /\ migration' = [migration EXCEPT
       !.late = @ \cup {x \in {i} \ {NoImage} : migration.running}]
  /\ UNCHANGED <<disk, bucket, backend, removed>>

-----------------------------------------------------------------------------
(* Products. *)

PatchImage(p, i) ==
  /\ p \in rows /\ i # image[p] /\ Room
  /\ Give(p, i)
  /\ open' = open \cup Unlink(image[p])
  /\ UNCHANGED <<rows, name, label, items>>

PatchCategory(p, n) ==
  /\ p \in rows
  /\ label' = [label EXCEPT ![p] = n]
  /\ UNCHANGED <<rows, image, name, items, stores, open, history>>

(* Checkout copies the image to the item. *)
Order(p) ==
  /\ p \in rows /\ image[p] # NoImage
  /\ items' = items \cup {<<p, image[p]>>}
  /\ UNCHANGED <<rows, image, name, label, stores, open, history>>

Ordered(p) == \E i \in items : i[1] = p

-----------------------------------------------------------------------------
(* Rows of all kinds. *)

(* Read with its image; a product of any order is refused (409).           *)
DeleteRead(r) ==
  /\ r \in rows /\ Room
  /\ r \in Products => ~Ordered(r)
  /\ open' = open \cup {[op |-> "delete", row |-> r, old_image |-> image[r]]}
  /\ UNCHANGED <<rows, image, name, label, items, stores, history>>

(* PROTECT stops what was ordered in between. *)
Delete(q) ==
  /\ q.op = "delete" /\ Close(q, Unlink(q.old_image))
  /\ q.row \in Products => ~Ordered(q.row)
  /\ rows' = rows \ {q.row}
  /\ UNCHANGED <<image, name, label, items, stores, history>>

(* A banner's form has no name to rename: any stands for it.               *)
NameOf(t) == IF t \in Categories THEN name[t] ELSE CHOOSE n \in Names : TRUE

(* The row is read; the form was sent before. *)
PutRead(t, i, n) ==
  /\ t \in rows /\ Room
  /\ t \in Promos => n = NameOf(t)
  /\ open' = open \cup {[op |-> "put", row |-> t, image |-> i, name |-> n,
                         old_image |-> image[t], old_name |-> NameOf(t)]}
  /\ UNCHANGED <<rows, image, name, label, items, stores, history>>

(* Mutant: the products are left behind. *)
MovedNobody(q) == label

(* The products of the old name follow, however they spell it.             *)
Moved(q) ==
  [p \in Products |->
     IF /\ q.row \in Categories /\ q.name # q.old_name
        /\ p \in rows /\ Fold[label[p]] = Fold[q.old_name]
       THEN q.name ELSE label[p]]

(* Mutant: the image goes even if it stays. *)
ReplacedAnyway(q) == Unlink(q.old_image)

Replaced(q) == IF q.old_image = q.image THEN {} ELSE Unlink(q.old_image)

(* Every column is saved; a row deleted meanwhile is inserted again.       *)
Put(q) ==
  /\ q.op = "put" /\ Close(q, Replaced(q))
  /\ q.row \in Categories => \A c \in rows \cap Categories : c # q.row => name[c] # q.name
  /\ rows' = rows \cup {q.row}
  /\ Give(q.row, q.image)
  /\ name' = [c \in Categories |-> IF c = q.row THEN q.name ELSE name[c]]
  /\ label' = Moved(q)
  /\ UNCHANGED items

-----------------------------------------------------------------------------
(* From disk to bucket. *)

SwitchBackend ==
  /\ backend = "local"
  /\ backend' = "r2"
  /\ UNCHANGED <<rows, image, name, label, items, disk, bucket, open, migration, history>>

(* Mutant: the catalogue's tables only. *)
referenced_by_catalogue == {image[r] : r \in rows} \ {NoImage}

(* The images that some row refers to. *)
referenced_names == ({image[r] : r \in rows} \cup {i[2] : i \in items}) \ {NoImage}

(* Nothing to do without a reference. *)
Migrate ==
  /\ ~migration.running /\ referenced_names # {}
  /\ migration' = [running |-> TRUE, names |-> referenced_names, on |-> backend, late |-> {}]
  /\ UNCHANGED <<rows, image, name, label, items, disk, bucket, backend, open, history>>

(* In the bucket: skipped.  On the disk: copied.  In neither: reported.    *)
Copy(i) ==
  /\ migration.running /\ i \in migration.names
  /\ bucket' = IF i \in disk THEN bucket \cup {i} ELSE bucket
  /\ migration' = [migration EXCEPT !.names = @ \ {i}]
  /\ UNCHANGED <<rows, image, name, label, items, disk, backend, open, history>>

Finish ==
  /\ migration.running /\ migration.names = {}
  /\ migration' = NoMigration
  /\ UNCHANGED <<rows, image, name, label, items, disk, bucket, backend, open, history>>

(* A copy fails and the command with it. *)
Abort ==
  /\ migration.running
  /\ migration' = NoMigration
  /\ UNCHANGED <<rows, image, name, label, items, disk, bucket, backend, open, history>>

CatalogueNext ==
  \/ \E i \in Images : Upload(i) \/ Copy(i)
  \/ \E p \in Products :
       \/ \E i \in Image : PatchImage(p, i)
       \/ \E n \in Names : PatchCategory(p, n)
       \/ Order(p)
  \/ \E r \in Rows : DeleteRead(r)
  \/ \E t \in Tiles, i \in Image, n \in Names : PutRead(t, i, n)
  \/ \E q \in open : Put(q) \/ Delete(q) \/ delete(q) \/ GiveUp(q)
  \/ SwitchBackend \/ Migrate \/ Finish \/ Abort

CatalogueSpec == CatalogueInit /\ [][CatalogueNext]_catalogueVars

-----------------------------------------------------------------------------
(* No row shows an image that is not there ("an upload that did not happen *)
(* must be reported"; an unlinked file "must not happen until the row that *)
(* stopped referencing it is committed"), whichever requests race for it:  *)
(* as long as the image was given to one row, once, after its upload.  What*)
(* a second row or an old form names again goes with its first row, and    *)
(* nothing stops that.  Until the images have moved, those of the store    *)
(* before count as there.                                                  *)
ShownImagesExist ==
  \A r \in rows : image[r] # NoImage => image[r] \in disk \cup bucket \cup reused

(* Whatever races with a rename, a product filed under a category stays    *)
(* filed under one, until it is edited itself, the category is deleted, or *)
(* two renames overlapped and the later one did not know of the earlier.   *)
Filed(p) == \E c \in Categories \cap rows : Fold[name[c]] = Fold[label[p]]

FiledStaysFiled ==
  [][\A p \in Products \cap rows \cap rows' : Filed(p) /\ ~Filed(p)' =>
       \/ name' = name
       \/ \E q \in open \ open' : q.op = "put" /\ q.old_name # name[q.row]]_catalogueVars

(* A run of the command under the new backend that came to its end has     *)
(* left no image behind, of the catalogue or of an order, but those that   *)
(* have been removed, and those a row was given after the command had read *)
(* the rows.                                                               *)
NothingLeftBehind ==
  [][Finish /\ migration.on = "r2" =>
       \A i \in ({image[r] : r \in rows} \cup {j[2] : j \in items}) \cap disk :
         i \in bucket \cup removed \cup migration.late]_catalogueVars
=============================================================================
