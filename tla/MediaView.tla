----------------------------- MODULE MediaView -----------------------------
(***************************************************************************)
(* CRMediaView: an image view the application sets a media content in, over *)
(* and over when its cells are recycled, and whose image comes later from    *)
(* CR_DefaultMediaDownloader (through the network, or at once from           *)
(* CR_ImageCache) by a block CR_SafeMediaDownloader posts on the main queue. *)
(*                                                                         *)
(* A content is its URL; NoContent stands for a nil content or URL.          *)
(***************************************************************************)
EXTENDS Naturals, Sequences

CONSTANTS
    Contents, NoContent, Placeholder,
    MaxDownloads  \* bound: downloads of one URL under way, and blocks posted

ASSUME MediaConstants ==
    /\ NoContent \notin Contents
    /\ Placeholder \notin Contents
    /\ MaxDownloads \in Nat

VARIABLES
    mediaContent,  \* CRMediaView.mediaContent
    image,         \* what the image view shows: the placeholder or the image of a URL
    imageUrl,      \* CRMediaView.imageUrl
    downloading,   \* requests under way for each URL
    imageCache,    \* the URLs CR_ImageCache holds
    completions,   \* completion blocks on the main queue, with their URL
    overtaken      \* history: the image came when another content had been set

mediaVars == << mediaContent, image, imageUrl, downloading, imageCache, completions, overtaken >>

MediaTypeOK ==
    /\ mediaContent \in Contents \cup {NoContent}
    /\ image \in Contents \cup {Placeholder}
    /\ imageUrl \in Contents \cup {NoContent}
    /\ downloading \in [Contents -> Nat]
    /\ imageCache \subseteq Contents
    /\ completions \in Seq(Contents)
    /\ overtaken \in BOOLEAN

MediaInit ==
    /\ mediaContent = NoContent
    /\ image = Placeholder
    /\ imageUrl = NoContent
    /\ downloading = [c \in Contents |-> 0]
    /\ imageCache = {}
    /\ completions = << >>
    /\ overtaken = FALSE

\* The image view shows the image of the content already.
HasContent(c) == c = mediaContent
HasImageOf(c) == c = imageUrl

\* setMediaContent: the placeholder, unless the URL is the one of the last image;
\* then a download, which the cache may spare.
SetMediaContent(c) ==
    /\ mediaContent' = c
    /\ image' = IF c = NoContent \/ ~HasImageOf(c) THEN Placeholder ELSE image
    /\ \/ /\ c = NoContent
          /\ UNCHANGED << downloading, completions >>
       \/ /\ c \in imageCache
          /\ Len(completions) < MaxDownloads
          /\ completions' = Append(completions, c)
          /\ UNCHANGED downloading
       \/ /\ c \in Contents \ imageCache
          /\ downloading[c] < MaxDownloads
          /\ downloading' = [downloading EXCEPT ![c] = downloading[c] + 1]
          /\ UNCHANGED completions
    /\ overtaken' = FALSE
    /\ UNCHANGED << imageUrl, imageCache >>

\* The request answers: with an image, or with an error or with other data, which
\* the completion ignores.
DownloadEnds(c) ==
    /\ downloading[c] > 0
    /\ downloading' = [downloading EXCEPT ![c] = downloading[c] - 1]
    /\ \/ /\ Len(completions) < MaxDownloads
          /\ completions' = Append(completions, c)
          /\ imageCache' = imageCache \cup {c}
       \/ UNCHANGED << completions, imageCache >>
    /\ UNCHANGED << mediaContent, image, imageUrl, overtaken >>

\* NSCache evicts what it likes.
Evict(c) ==
    /\ c \in imageCache
    /\ imageCache' = imageCache \ {c}
    /\ UNCHANGED << mediaContent, image, imageUrl, downloading, completions, overtaken >>

\* The completion of setMediaContent shows the image, whatever the content is by now.
ShowImage ==
    /\ completions # << >>
    /\ image' = Head(completions)
    /\ imageUrl' = Head(completions)
    /\ completions' = Tail(completions)
    /\ overtaken' = (Head(completions) # mediaContent)
    /\ UNCHANGED << mediaContent, downloading, imageCache >>

MediaNext ==
    \/ ShowImage
    \/ \E c \in Contents \cup {NoContent} : SetMediaContent(c)
    \/ \E c \in Contents : DownloadEnds(c) \/ Evict(c)

MediaSpec == MediaInit /\ [][MediaNext]_mediaVars

\* The image of another content is never shown, except from the moment such an image
\* comes late until a content is set: in particular setting the content of the last
\* image again, which spares the placeholder, spares it over the right image.
ImageIsOfContent == image \in {Placeholder, mediaContent} \/ overtaken
=============================================================================
